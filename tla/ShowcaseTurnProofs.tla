--------------------------- MODULE ShowcaseTurnProofs ----------------------------
(* A turn of a Media Showcase engine, for any number of tasks, items and edits of  *)
(* the configuration and under every fault: there is one worker, the scratch is    *)
(* not freed under it, an engine off the panel holds nothing, and the card stays   *)
(* between two items.                                                              *)
EXTENDS ShowcaseTurn, Integers, FiniteSetTheorems, TLAPS

--------------------------------------------------------------------------------
(* The flag is up exactly while a task runs, and one at most runs; the others are  *)
(* as they were created.                                                           *)
Single ==
    /\ \A w, v \in Workers : worker[w].pc # "none" /\ worker[v].pc # "none" => w = v
    /\ alive <=> \E w \in Workers : worker[w].pc # "none"
    /\ \A w \in Workers : worker[w].pc = "none" => worker[w] = Asleep

(* Only an engine on the panel wants a worker, and not while it stops one; nothing *)
(* but a deactivation is going on when it leaves the panel.                        *)
Placed ==
    /\ attached # "on" => ~want
    /\ attached = "off" => core1 = "idle"
    /\ core1 = "stopping" => ~want
    /\ core1 = "stopping" /\ purpose = "config" => attached = "on"
    /\ core1 = "allocating" => ~ready

(* An engine that left the panel with its worker gone has nothing that could       *)
(* allocate a buffer again.                                                        *)
Emptied == attached = "off" /\ ~late => ~alive /\ ~scratch /\ ~poster

(* Between the two halves of activate() the new worker waits for its buffers,      *)
(* unless it is one that outlived the last turn.                                   *)
Awaiting ==
    core1 = "allocating" /\ ~revived =>
        /\ want \/ ~alive
        /\ \A w \in Workers : worker[w].pc \in {"none", "wait"}

(* What holds of every task.  The scratch is freed under it only by a new turn ... *)
Unfreed(w) == worker[w].pc \in UsesScratch /\ worker[w].held = "freed" => revived

(* ... an item in hand, or behind it, means that it has seen the configuration     *)
(* there is, or has been told of a new one ...                                     *)
InItem == {"mqtt", "http", "after", "publish", "play", "played"}
Configured(w) ==
    ~worker[w].stale /\ (worker[w].follow \/ worker[w].pc \in InItem) => cfg = "ok"

(* ... which it has to be told of only at the end of its turn, or into a new one   *)
(* that it was taken over into ...                                                 *)
Told(w) == worker[w].stale => ~want \/ revived

(* ... it does not think it is alone as long as the playlist has several slots ... *)
NotAlone(w) == several /\ ~revived => ~worker[w].solo

(* ... and the card of its last item is up from its publication to the next one's. *)
CardUp(w) ==
    /\ several /\ ~revived /\ want /\ ~worker[w].stale
    /\ worker[w].follow \/ worker[w].pc \in {"play", "played"}
    => live

TaskGood(w) == Unfreed(w) /\ Configured(w) /\ Told(w) /\ NotAlone(w) /\ CardUp(w)
Tasks == (several => multi) /\ \A w \in Workers : TaskGood(w)

(* The type invariant in three parts.                                              *)
Task == [pc: {"none", "wait", "top", "after", "publish", "played", "hold", "leaving"}
                \cup UsesScratch,
         follow: BOOLEAN, stale: BOOLEAN, solo: BOOLEAN,
         held: {"none", "live", "freed"}, out: Outcomes]
TypeBits ==
    /\ want \in BOOLEAN /\ alive \in BOOLEAN /\ ready \in BOOLEAN /\ multi \in BOOLEAN
    /\ live \in BOOLEAN /\ scratch \in BOOLEAN /\ poster \in BOOLEAN
    /\ spawned \in BOOLEAN /\ late \in BOOLEAN /\ revived \in BOOLEAN
    /\ several \in BOOLEAN
TypeTurn == turn \in [evaluated: BOOLEAN, readyState: BOOLEAN, hasReady: BOOLEAN,
                     skip: BOOLEAN, done: BOOLEAN]
TypeRest ==
    /\ attached \in {"off", "on", "retiring", "dead"}
    /\ core1 \in {"idle", "allocating", "stopping"}
    /\ purpose \in {"deactivate", "config", "destroy"}
    /\ cfg \in {"ok", "off", "badurl"}
    /\ played \in 0..Budget /\ edits \in 0..MaxEdits
    /\ worker \in [Workers -> Task]

IInv == TypeOK /\ Single /\ Placed /\ Emptied /\ Awaiting /\ Tasks

--------------------------------------------------------------------------------
LEMMA TypeParts == TypeOK <=> TypeBits /\ TypeTurn /\ TypeRest
  <1>1. TypeBits <=> {want, alive, ready, multi, live, scratch, poster, spawned, late, revived,
                      several} \subseteq BOOLEAN
    BY Zenon DEF TypeBits
  <1>2. TypeOK <=> TypeTurn /\ TypeRest /\ {want, alive, ready, multi, live, scratch, poster,
                      spawned, late, revived, several} \subseteq BOOLEAN
    BY Zenon DEF TypeOK, TypeTurn, TypeRest, Task
  <1> QED  BY <1>1, <1>2, Zenon

LEMMA TypePartsNext == TypeOK' <=> TypeBits' /\ TypeTurn' /\ TypeRest'
  BY TypeParts, PTL

LEMMA InitInv == Init => IInv
  <1> SUFFICES ASSUME Init  PROVE IInv
    OBVIOUS
  <1>1. TypeOK
    <2>1. TypeBits
      BY Zenon DEF Init, TypeBits
    <2>2. TypeTurn
      BY DEF Init, TypeTurn, Fresh
    <2>3. Asleep \in Task
      BY DEF Asleep, Task, Outcomes
    <2>4. TypeRest
      BY <2>3, BudgetAssumption DEF Init, TypeRest
    <2> QED  BY <2>1, <2>2, <2>4, TypeParts
  <1>2. \A w \in Workers : worker[w] = Asleep
    BY DEF Init
  <1>3. Single /\ Placed /\ Emptied /\ Awaiting
    BY <1>2 DEF Init, Single, Placed, Emptied, Awaiting, Asleep
  <1>4. Tasks
    BY <1>2 DEF Init, Tasks, TaskGood, Unfreed, Configured, Told, NotAlone, CardUp, InItem,
       UsesScratch, Asleep
  <1> QED  BY <1>1, <1>3, <1>4 DEF IInv

--------------------------------------------------------------------------------
(* The worker. *)

(* A step of a task is one of that task, and leaves Core 1's side alone.           *)
LEMMA TaskStep ==
    ASSUME TypeRest, NEW w \in Workers, Worker(w) \/ BeginStream(w)
    PROVE  /\ worker' \in [Workers -> Task]
           /\ \A v \in Workers : v # w => worker'[v] = worker[v]
           /\ worker[w].pc # "none"
           /\ worker'[w].pc # "none" <=> ~Gone(w)
           /\ ~Gone(w) => alive' = alive
  <1>0. worker \in [Workers -> Task] /\ worker[w] \in Task
    BY DEF TypeRest
  <1> USE DEF Task, Outcomes, UsesScratch, Asleep
  <1>1. CASE AwaitBuffers(w)
    BY <1>0, <1>1 DEF AwaitBuffers, Step, Gone
  <1>2. CASE Leave(w)
    BY <1>0, <1>2 DEF Leave, Step, Gone
  <1>3. CASE NotConfigured(w)
    BY <1>0, <1>3 DEF NotConfigured, Step, GivenUp, Gone
  <1>4. CASE NoScratch(w)
    BY <1>0, <1>4 DEF NoScratch, Step, GivenUp, Gone
  <1>5. CASE Look(w)
    <2>1. PICK transport \in {"mqtt", "http"} :
            worker' = [worker EXCEPT ![w] = [@ EXCEPT !.pc = transport, !.solo = ~multi,
                                                      !.stale = FALSE, !.held = "live"]]
      BY <1>5 DEF Look
    <2>2. worker[w].pc = "top" /\ alive' = alive
      BY <1>5 DEF Look
    <2> QED  BY <1>0, <2>1, <2>2 DEF Gone
  <1>6. CASE ViaMqtt(w)
    <2>1. PICK out \in Outcomes, next \in {"after", "http"} : Answer(w, out, next)
      BY <1>6 DEF ViaMqtt, Outcomes
    <2>2. /\ worker' = [worker EXCEPT ![w] = [@ EXCEPT !.pc = next, !.out = out,
                     !.held = IF next = "after" THEN "none" ELSE "live"]]
          /\ worker[w].pc \in {"mqtt", "http"} /\ alive' = alive
      BY <1>6, <2>1 DEF Answer, ViaMqtt
    <2> QED  BY <1>0, <2>2 DEF Gone
  <1>7. CASE ViaHttp(w)
    <2>1. PICK out \in Outcomes, next \in {"after", "http"} : Answer(w, out, next)
      BY <1>7 DEF ViaHttp, Outcomes
    <2>2. /\ worker' = [worker EXCEPT ![w] = [@ EXCEPT !.pc = next, !.out = out,
                     !.held = IF next = "after" THEN "none" ELSE "live"]]
          /\ worker[w].pc \in {"mqtt", "http"} /\ alive' = alive
      BY <1>7, <2>1 DEF Answer, ViaHttp
    <2> QED  BY <1>0, <2>2 DEF Gone
  <1>8. CASE \E at \in {"after", "played"} : Unwanted(w, at)
    BY <1>0, <1>8 DEF Unwanted, Step, Gone
  <1>9. CASE \E at \in {"after", "played"} : StartOver(w, at)
    BY <1>0, <1>9 DEF StartOver, Gone
  <1>10. CASE TryAgain(w)
    BY <1>0, <1>10 DEF TryAgain, Step, Current, Gone
  <1>11. CASE TakeItem(w)
    BY <1>0, <1>11 DEF TakeItem, Step, Current, Gone
  <1>12. CASE NoFollowUp(w)
    BY <1>0, <1>12 DEF NoFollowUp, Step, Current, Negative, Gone
  <1>13. CASE HoldBanner(w)
    BY <1>0, <1>13 DEF HoldBanner, Step, Current, Negative, Gone
  <1>14. CASE EndHold(w)
    BY <1>0, <1>14 DEF EndHold, Step, GivenUp, Gone
  <1>15. CASE KeepAsking(w)
    BY <1>0, <1>15 DEF KeepAsking, Step, Current, Negative, Gone
  <1>16. CASE PublishCard(w)
    BY <1>0, <1>16 DEF PublishCard, Gone
  <1>17. CASE EndItem(w)
    BY <1>0, <1>17 DEF EndItem, Gone
  <1>18. CASE NextItem(w)
    BY <1>0, <1>18 DEF NextItem, Current, Counted, Gone
  <1>19. CASE LastItem(w)
    BY <1>0, <1>19 DEF LastItem, Step, Current, Counted, Gone
  <1>20. CASE Gone(w)
    BY <1>0, <1>20 DEF Gone, Gone
  <1>21. CASE BeginStream(w)
    BY <1>0, <1>21 DEF BeginStream, Gone
  <1> QED
    BY <1>1, <1>2, <1>3, <1>4, <1>5, <1>6, <1>7, <1>8, <1>9, <1>10, <1>11, <1>12, <1>13, <1>14,
       <1>15, <1>16, <1>17, <1>18, <1>19, <1>20, <1>21 DEF Worker

LEMMA WorkerKeeps ==
    ASSUME NEW w \in Workers, Worker(w) \/ BeginStream(w)
    PROVE  UNCHANGED <<core1vars, want, ready, setup, revived, several>>
  BY DEF Core1Still, Worker, Answer, AwaitBuffers, Leave, NotConfigured, NoScratch, Look,
     ViaMqtt, ViaHttp, Unwanted, StartOver, TryAgain, TakeItem, NoFollowUp, HoldBanner,
     EndHold, KeepAsking, PublishCard, EndItem, NextItem, LastItem, Gone, BeginStream

LEMMA WorkerTurn ==
    ASSUME TypeTurn, NEW w \in Workers, Worker(w) \/ BeginStream(w)
    PROVE  TypeTurn'
  <1> USE DEF TypeTurn
  <1>1. CASE AwaitBuffers(w)
    BY <1>1 DEF AwaitBuffers, Step, GivenUp
  <1>2. CASE Leave(w)
    BY <1>2 DEF Leave, Step, GivenUp
  <1>3. CASE NotConfigured(w)
    BY <1>3 DEF NotConfigured, Step, GivenUp
  <1>4. CASE NoScratch(w)
    BY <1>4 DEF NoScratch, Step, GivenUp
  <1>5. CASE Look(w)
    BY <1>5 DEF Look, GivenUp
  <1>6. CASE ViaMqtt(w)
    BY <1>6 DEF ViaMqtt, Answer, GivenUp
  <1>7. CASE ViaHttp(w)
    BY <1>7 DEF ViaHttp, Answer, GivenUp
  <1>8. CASE \E at \in {"after", "played"} : Unwanted(w, at)
    BY <1>8 DEF Unwanted, Step, GivenUp
  <1>9. CASE \E at \in {"after", "played"} : StartOver(w, at)
    BY <1>9 DEF StartOver, GivenUp
  <1>10. CASE TryAgain(w)
    BY <1>10 DEF TryAgain, Step, Current, GivenUp
  <1>11. CASE TakeItem(w)
    BY <1>11 DEF TakeItem, Step, Current, GivenUp
  <1>12. CASE NoFollowUp(w)
    BY <1>12 DEF NoFollowUp, Step, Current, Negative, GivenUp
  <1>13. CASE HoldBanner(w)
    BY <1>13 DEF HoldBanner, Step, Current, Negative, GivenUp
  <1>14. CASE EndHold(w)
    BY <1>14 DEF EndHold, Step, GivenUp
  <1>15. CASE KeepAsking(w)
    BY <1>15 DEF KeepAsking, Step, Current, Negative, GivenUp
  <1>16. CASE PublishCard(w)
    BY <1>16 DEF PublishCard, GivenUp
  <1>17. CASE EndItem(w)
    BY <1>17 DEF EndItem, GivenUp
  <1>18. CASE NextItem(w)
    BY <1>18 DEF NextItem, Current, Counted, GivenUp
  <1>19. CASE LastItem(w)
    BY <1>19 DEF LastItem, Step, Current, Counted, GivenUp
  <1>20. CASE Gone(w)
    BY <1>20 DEF Gone, GivenUp
  <1>21. CASE BeginStream(w)
    BY <1>21 DEF BeginStream, GivenUp
  <1> QED
    BY <1>1, <1>2, <1>3, <1>4, <1>5, <1>6, <1>7, <1>8, <1>9, <1>10, <1>11, <1>12, <1>13, <1>14,
       <1>15, <1>16, <1>17, <1>18, <1>19, <1>20, <1>21 DEF Worker

LEMMA WorkerType ==
    ASSUME TypeOK, NEW w \in Workers, Worker(w) \/ BeginStream(w)
    PROVE  TypeOK'
  <1>0. TypeBits /\ TypeTurn /\ TypeRest
    BY TypeParts
  <1>1. alive' \in BOOLEAN /\ live' \in BOOLEAN /\ scratch' \in BOOLEAN /\ poster' \in BOOLEAN
    <2> USE <1>0 DEF TypeBits, HeapOutcomes
    <2>1. CASE AwaitBuffers(w)
      BY <2>1 DEF AwaitBuffers, Step
    <2>2. CASE Leave(w)
      BY <2>2 DEF Leave, Step
    <2>3. CASE NotConfigured(w)
      BY <2>3 DEF NotConfigured, Step, GivenUp
    <2>4. CASE NoScratch(w)
      BY <2>4 DEF NoScratch, Step, GivenUp
    <2>5. CASE Look(w)
      BY <2>5 DEF Look
    <2>6. CASE ViaMqtt(w)
      BY <2>6 DEF ViaMqtt, Answer
    <2>7. CASE ViaHttp(w)
      BY <2>7 DEF ViaHttp, Answer
    <2>8. CASE \E at \in {"after", "played"} : Unwanted(w, at)
      BY <2>8 DEF Unwanted, Step
    <2>9. CASE \E at \in {"after", "played"} : StartOver(w, at)
      BY <2>9 DEF StartOver
    <2>10. CASE TryAgain(w)
      BY <2>10 DEF TryAgain, Step, Current
    <2>11. CASE TakeItem(w)
      BY <2>11 DEF TakeItem, Step, Current
    <2>12. CASE NoFollowUp(w)
      BY <2>12 DEF NoFollowUp, Step, Current, Negative
    <2>13. CASE HoldBanner(w)
      BY <2>13 DEF HoldBanner, Step, Current, Negative
    <2>14. CASE EndHold(w)
      BY <2>14 DEF EndHold, Step, GivenUp
    <2>15. CASE KeepAsking(w)
      BY <2>15 DEF KeepAsking, Step, Current, Negative
    <2>16. CASE PublishCard(w)
      BY <2>16 DEF PublishCard
    <2>17. CASE EndItem(w)
      BY <2>17 DEF EndItem
    <2>18. CASE NextItem(w)
      BY <2>18 DEF NextItem, Current, Counted
    <2>19. CASE LastItem(w)
      BY <2>19 DEF LastItem, Step, Current, Counted
    <2>20. CASE Gone(w)
      BY <2>20 DEF Gone
    <2>21. CASE BeginStream(w)
      BY <2>21 DEF BeginStream
    <2> QED
    BY <2>1, <2>2, <2>3, <2>4, <2>5, <2>6, <2>7, <2>8, <2>9, <2>10, <2>11, <2>12, <2>13, <2>14,
       <2>15, <2>16, <2>17, <2>18, <2>19, <2>20, <2>21 DEF Worker
  <1>2. played' \in 0..Budget
    <2> USE <1>0, BudgetAssumption DEF TypeRest
    <2>1. CASE NextItem(w) \/ LastItem(w)
      BY <2>1 DEF NextItem, LastItem, Counted
    <2>2. CASE ~NextItem(w) /\ ~LastItem(w)
      BY <2>2 DEF Worker, Answer, AwaitBuffers, Leave, NotConfigured, NoScratch, Look, ViaMqtt,
         ViaHttp, Unwanted, StartOver, TryAgain, TakeItem, NoFollowUp, HoldBanner, EndHold,
         KeepAsking, PublishCard, EndItem, Gone, BeginStream
    <2> QED  BY <2>1, <2>2
  <1>3. TypeBits'
    BY <1>0, <1>1, WorkerKeeps, Zenon DEF TypeBits, core1vars, setup
  <1>4. TypeTurn'
    BY <1>0, WorkerTurn
  <1>5. TypeRest'
    BY <1>0, <1>2, WorkerKeeps, TaskStep DEF TypeRest, core1vars, setup
  <1> QED  BY <1>3, <1>4, <1>5, TypePartsNext

LEMMA WorkerSingle ==
    ASSUME TypeRest, Single, NEW w \in Workers, Worker(w) \/ BeginStream(w)
    PROVE  Single'
  <1>1. CASE Gone(w)
    BY <1>1, TaskStep DEF TypeRest, Single, Gone, Asleep
  <1>2. CASE ~Gone(w)
    BY <1>2, TaskStep DEF Single
  <1> QED  BY <1>1, <1>2

(* The new worker waits for as long as Core 1 has not allocated its buffers.       *)
LEMMA NoStepWhileAllocating ==
    ASSUME IInv, core1 = "allocating", ~revived, NEW w \in Workers
    PROVE  ~Worker(w) /\ ~BeginStream(w)
  <1> SUFFICES ASSUME Worker(w) \/ BeginStream(w)  PROVE FALSE
    OBVIOUS
  <1>1. worker[w].pc = "wait" /\ want /\ ~ready
    BY TaskStep, TypeParts DEF IInv, Awaiting, Single, Placed
  <1> QED
    BY <1>1 DEF Worker, Step, Current, Negative, AwaitBuffers, Leave, NotConfigured, NoScratch,
       Look, ViaMqtt, ViaHttp, Unwanted, StartOver, TryAgain, TakeItem, NoFollowUp, HoldBanner,
       EndHold, KeepAsking, PublishCard, EndItem, NextItem, LastItem, Gone, BeginStream

(* What a task has to keep, action by action.                                      *)
LEMMA WorkerGood ==
    ASSUME IInv, NEW w \in Workers, Worker(w) \/ BeginStream(w)
    PROVE  TaskGood(w)'
  <1>0. /\ worker \in [Workers -> Task] /\ worker[w] \in Task
        /\ TaskGood(w) /\ (several => multi)
        /\ UNCHANGED <<cfg, several, revived, want, multi>>
    BY TypeParts, WorkerKeeps DEF IInv, TypeRest, Tasks, setup
  <1> USE DEF TaskGood, Unfreed, Configured, Told, NotAlone, CardUp, InItem, UsesScratch, Task
  <1>1. CASE AwaitBuffers(w)
    BY <1>0, <1>1 DEF AwaitBuffers, Step
  <1>2. CASE Leave(w)
    BY <1>0, <1>2 DEF Leave, Step
  <1>3. CASE NotConfigured(w)
    BY <1>0, <1>3 DEF NotConfigured, Step, GivenUp
  <1>4. CASE NoScratch(w)
    BY <1>0, <1>4 DEF NoScratch, Step, GivenUp
  <1>5. CASE Look(w)
    <2>1. PICK transport \in {"mqtt", "http"} :
            worker' = [worker EXCEPT ![w] = [@ EXCEPT !.pc = transport, !.solo = ~multi,
                                                      !.stale = FALSE, !.held = "live"]]
      BY <1>5 DEF Look
    <2>2. cfg = "ok" /\ live' = live
      BY <1>5 DEF Look
    <2>3. /\ worker'[w].pc \in {"mqtt", "http"} /\ worker'[w].held = "live"
          /\ worker'[w].follow = worker[w].follow /\ worker[w].stale \in BOOLEAN
          /\ worker'[w].stale = FALSE /\ (worker'[w].solo <=> ~multi)
      BY <1>0, <2>1
    <2>4. Unfreed(w)' /\ Configured(w)' /\ Told(w)'
      BY <1>0, <2>2, <2>3
    <2>5. NotAlone(w)'
      BY <1>0, <2>3
    <2>6. CardUp(w)'
      <3>1. worker[w].follow /\ several /\ ~revived /\ want => live
        BY <1>0
      <3> QED  BY <1>0, <2>2, <2>3, <3>1
    <2> QED  BY <2>4, <2>5, <2>6
  <1>6. CASE ViaMqtt(w)
    <2>1. PICK out \in Outcomes, next \in {"after", "http"} : Answer(w, out, next)
      BY <1>6 DEF ViaMqtt, Outcomes
    <2>2. /\ worker' = [worker EXCEPT ![w] = [@ EXCEPT !.pc = next, !.out = out,
                     !.held = IF next = "after" THEN "none" ELSE "live"]]
          /\ worker[w].pc \in {"mqtt", "http"} /\ live' = live
      BY <1>6, <2>1 DEF Answer, ViaMqtt
    <2> QED  BY <1>0, <2>2
  <1>7. CASE ViaHttp(w)
    <2>1. PICK out \in Outcomes, next \in {"after", "http"} : Answer(w, out, next)
      BY <1>7 DEF ViaHttp, Outcomes
    <2>2. /\ worker' = [worker EXCEPT ![w] = [@ EXCEPT !.pc = next, !.out = out,
                     !.held = IF next = "after" THEN "none" ELSE "live"]]
          /\ worker[w].pc \in {"mqtt", "http"} /\ live' = live
      BY <1>7, <2>1 DEF Answer, ViaHttp
    <2> QED  BY <1>0, <2>2
  <1>8. CASE \E at \in {"after", "played"} : Unwanted(w, at)
    BY <1>0, <1>8 DEF Unwanted, Step
  <1>9. CASE \E at \in {"after", "played"} : StartOver(w, at)
    BY <1>0, <1>9 DEF StartOver
  <1>10. CASE TryAgain(w)
    BY <1>0, <1>10 DEF TryAgain, Step, Current
  <1>11. CASE TakeItem(w)
    BY <1>0, <1>11 DEF TakeItem, Step, Current
  <1>12. CASE NoFollowUp(w)
    BY <1>0, <1>12 DEF NoFollowUp, Step, Current, Negative
  <1>13. CASE HoldBanner(w)
    BY <1>0, <1>13 DEF HoldBanner, Step, Current, Negative
  <1>14. CASE EndHold(w)
    BY <1>0, <1>14 DEF EndHold, Step, GivenUp
  <1>15. CASE KeepAsking(w)
    BY <1>0, <1>15 DEF KeepAsking, Step, Current, Negative
  <1>16. CASE PublishCard(w)
    BY <1>0, <1>16 DEF PublishCard
  <1>17. CASE EndItem(w)
    BY <1>0, <1>17 DEF EndItem
  <1>18. CASE NextItem(w)
    BY <1>0, <1>18 DEF NextItem, Current, Counted
  <1>19. CASE LastItem(w)
    BY <1>0, <1>19 DEF LastItem, Step, Current, Counted
  <1>20. CASE Gone(w)
    BY <1>0, <1>20 DEF Gone, Asleep
  <1>21. CASE BeginStream(w)
    BY <1>0, <1>21 DEF BeginStream
  <1> QED
    BY <1>1, <1>2, <1>3, <1>4, <1>5, <1>6, <1>7, <1>8, <1>9, <1>10, <1>11, <1>12, <1>13, <1>14,
       <1>15, <1>16, <1>17, <1>18, <1>19, <1>20, <1>21 DEF Worker

LEMMA WorkerInv ==
    ASSUME IInv, NEW w \in Workers, Worker(w) \/ BeginStream(w)
    PROVE  IInv'
  <1>0. TypeBits /\ TypeTurn /\ TypeRest /\ TypeOK' /\ Single'
    BY TypeParts, WorkerType, WorkerSingle DEF IInv
  <1>1. worker[w].pc # "none" /\ alive
    BY <1>0, TaskStep DEF IInv, Single
  <1>2. Placed'
    BY WorkerKeeps DEF IInv, Placed, core1vars
  <1>3. Emptied'
    BY <1>1, WorkerKeeps DEF IInv, Emptied, core1vars
  <1>4. Awaiting'
    BY NoStepWhileAllocating, WorkerKeeps DEF Awaiting, core1vars
  <1>5. Tasks'
    <2>1. ASSUME NEW v \in Workers, v # w  PROVE TaskGood(v)'
      <3>1. worker'[v] = Asleep
        BY <1>0, <1>1, <2>1, TaskStep DEF IInv, Single
      <3> QED
        BY <3>1 DEF TaskGood, Unfreed, Configured, Told, NotAlone, CardUp, InItem, UsesScratch,
           Asleep
    <2>2. several' => multi'
      BY WorkerKeeps DEF IInv, Tasks, setup
    <2> QED  BY <2>1, <2>2, WorkerGood DEF Tasks
  <1> QED  BY <1>0, <1>2, <1>3, <1>4, <1>5 DEF IInv

--------------------------------------------------------------------------------
(* Core 1. *)

(* Freeing the scratch, and a new configuration, leave a task where it is, and one *)
(* that does not run as it is.                                                     *)
LEMMA PulledTasks ==
    ASSUME NEW ws \in [Workers -> Task]
    PROVE  /\ Pulled(ws) \in [Workers -> Task]
           /\ \A w \in Workers :
                /\ Pulled(ws)[w].pc = ws[w].pc /\ Pulled(ws)[w].follow = ws[w].follow
                /\ Pulled(ws)[w].stale = ws[w].stale /\ Pulled(ws)[w].solo = ws[w].solo
                /\ ws[w] = Asleep => Pulled(ws)[w] = Asleep
  <1>1. ASSUME NEW w \in Workers
        PROVE  /\ Pulled(ws)[w] = [ws[w] EXCEPT !.held = IF @ = "live" THEN "freed" ELSE @]
               /\ Pulled(ws)[w] \in Task
    BY DEF Pulled, Task
  <1>2. ASSUME NEW w \in Workers
        PROVE  /\ Pulled(ws)[w].pc = ws[w].pc /\ Pulled(ws)[w].follow = ws[w].follow
               /\ Pulled(ws)[w].stale = ws[w].stale /\ Pulled(ws)[w].solo = ws[w].solo
    BY <1>1 DEF Task
  <1>3. ASSUME NEW w \in Workers, ws[w] = Asleep  PROVE Pulled(ws)[w] = Asleep
    <2>1. Asleep.held = "none" /\ [Asleep EXCEPT !.held = "none"] = Asleep
      BY DEF Asleep
    <2>2. Pulled(ws)[w] = [Asleep EXCEPT !.held = "none"]
      BY <1>1, <1>3, <2>1
    <2> QED  BY <2>1, <2>2
  <1>4. Pulled(ws) \in [Workers -> Task]
    BY <1>1 DEF Pulled
  <1> QED  BY <1>2, <1>3, <1>4

LEMMA OutdatedTasks ==
    ASSUME worker \in [Workers -> Task]
    PROVE  /\ Outdated \in [Workers -> Task]
           /\ \A w \in Workers :
                /\ Outdated[w].pc = worker[w].pc /\ Outdated[w].follow = worker[w].follow
                /\ Outdated[w].held = worker[w].held /\ Outdated[w].solo = worker[w].solo
                /\ worker[w].pc # "none" => Outdated[w].stale
                /\ worker[w] = Asleep => Outdated[w] = Asleep
  <1>1. ASSUME NEW w \in Workers
        PROVE  Outdated[w] = [worker[w] EXCEPT !.stale = @ \/ w \in Running]
    BY DEF Outdated
  <1>2. ASSUME NEW w \in Workers
        PROVE  /\ Outdated[w] \in Task
               /\ Outdated[w].pc = worker[w].pc /\ Outdated[w].follow = worker[w].follow
               /\ Outdated[w].held = worker[w].held /\ Outdated[w].solo = worker[w].solo
    <2>1. worker[w] \in Task /\ worker[w].stale \in BOOLEAN
      BY DEF Task
    <2>2. (worker[w].stale \/ w \in Running) \in BOOLEAN
      OBVIOUS
    <2>3. ASSUME NEW t \in Task, NEW b \in BOOLEAN
          PROVE  /\ [t EXCEPT !.stale = b] \in Task
                 /\ [t EXCEPT !.stale = b].pc = t.pc /\ [t EXCEPT !.stale = b].follow = t.follow
                 /\ [t EXCEPT !.stale = b].held = t.held /\ [t EXCEPT !.stale = b].solo = t.solo
      BY DEF Task
    <2>4. Outdated[w] = [worker[w] EXCEPT !.stale = worker[w].stale \/ w \in Running]
      BY <1>1
    <2> QED  BY <2>1, <2>2, <2>3, <2>4
  <1>3. ASSUME NEW w \in Workers, worker[w].pc # "none"  PROVE Outdated[w].stale
    <2>1. w \in Running
      BY <1>3 DEF Running
    <2>2. Outdated[w].stale = (worker[w].stale \/ w \in Running)
      BY <1>1 DEF Task
    <2> QED  BY <2>1, <2>2
  <1>4. ASSUME NEW w \in Workers, worker[w] = Asleep  PROVE Outdated[w] = Asleep
    <2>1. w \notin Running
      BY <1>4 DEF Running, Asleep
    <2>2. Asleep \in Task /\ Asleep.stale = FALSE
      BY DEF Asleep, Task, UsesScratch, Outcomes
    <2>3. (Asleep.stale \/ w \in Running) = Asleep.stale
      BY <2>1, <2>2
    <2>4. Outdated[w] = [Asleep EXCEPT !.stale = Asleep.stale]
      BY <1>1, <1>4, <2>3, Zenon
    <2>5. [Asleep EXCEPT !.stale = Asleep.stale] = Asleep
      BY <2>2 DEF Task
    <2> QED  BY <2>4, <2>5
  <1>5. Outdated \in [Workers -> Task]
    BY <1>2 DEF Outdated
  <1> QED  BY <1>2, <1>3, <1>4, <1>5

(* What starting a worker leads to: the tasks as they were, with a worker of the   *)
(* last turn taken over if there is one; or none; or one that has just begun.      *)
Waiting == [Asleep EXCEPT !.pc = "wait"]
LEMMA Start ==
    ASSUME IInv, NEW ok \in BOOLEAN, NEW t, NEW ws \in [Workers -> Task],
           \A w \in Workers : ws[w].pc = worker[w].pc /\ (worker[w] = Asleep => ws[w] = Asleep),
           StartWorkerTask(t, ws, ok)
    PROVE  /\ worker' \in [Workers -> Task] /\ turn' \in {t, GivenUp(t, multi)}
           /\ want' \in {want, TRUE} /\ alive' \in BOOLEAN /\ revived' \in BOOLEAN
           /\ Single'
           /\ ~revived' => want' \/ ~alive'
           /\ \A w \in Workers : \/ revived' /\ worker'[w] = ws[w]
                                 \/ worker'[w] = Asleep \/ worker'[w] = Waiting
  <1>0. alive \in BOOLEAN /\ revived \in BOOLEAN /\ Single
    BY TypeParts DEF IInv, TypeBits
  <1>1. Asleep \in Task /\ Waiting \in Task /\ Asleep.pc = "none" /\ Waiting.pc = "wait"
    BY DEF Asleep, Waiting, Task, UsesScratch, Outcomes
  <1>2. CASE alive
    <2>1. /\ worker' = ws /\ revived' = TRUE /\ alive' = alive
          /\ want' \in {want, TRUE} /\ turn' \in {t, GivenUp(t, multi)}
      BY <1>2 DEF StartWorkerTask, Disabled
    <2>2. Single'
      BY <1>0, <1>1, <2>1 DEF Single
    <2> QED  BY <1>2, <2>1, <2>2
  <1>3. CASE ~alive
    <2>1. \A w \in Workers : worker[w] = Asleep /\ ws[w] = Asleep
      BY <1>0, <1>3 DEF Single
    <2>2. CASE Disabled(t, ws)
      <3>1. worker' = ws /\ alive' = alive /\ want' = want /\ turn' = GivenUp(t, multi)
            /\ revived' = (revived \/ alive)
        BY <2>2 DEF Disabled
      <3>2. Single'
        BY <1>0, <1>1, <1>3, <2>1, <3>1 DEF Single
      <3> QED  BY <1>0, <1>3, <2>1, <3>1, <3>2
    <2>3. CASE Spawn(t, ws, ok)
      <3>1. PICK w \in Workers :
              worker' = IF ok THEN [ws EXCEPT ![w] = Waiting] ELSE ws
        BY <2>3 DEF Spawn, Waiting
      <3>2. want' = TRUE /\ turn' = t /\ alive' = ok /\ revived' = FALSE
        BY <2>3 DEF Spawn
      <3>3. worker' \in [Workers -> Task]
            /\ \A v \in Workers : worker'[v] = IF ok /\ v = w THEN Waiting ELSE Asleep
        BY <1>1, <2>1, <3>1
      <3>4. Single'
        BY <1>1, <3>2, <3>3 DEF Single
      <3> QED  BY <3>2, <3>3, <3>4
    <2> QED  BY <1>3, <2>2, <2>3 DEF StartWorkerTask
  <1> QED  BY <1>2, <1>3

(* Core 1's steps keep the types; those that change no task do so at once.         *)
Turns == [evaluated: BOOLEAN, readyState: BOOLEAN, hasReady: BOOLEAN, skip: BOOLEAN, done: BOOLEAN]
LEMMA TurnKept ==
    ASSUME NEW t \in Turns, NEW m \in BOOLEAN
    PROVE  /\ GivenUp(t, m) \in Turns /\ Fresh \in Turns
           /\ [t EXCEPT !.hasReady = FALSE] \in Turns /\ [t EXCEPT !.evaluated = TRUE] \in Turns
           /\ [t EXCEPT !.evaluated = TRUE, !.skip = @ \/ m] \in Turns
           /\ [t EXCEPT !.evaluated = TRUE, !.skip = TRUE] \in Turns
           /\ [t EXCEPT !.hasReady = FALSE, !.evaluated = FALSE, !.readyState = FALSE] \in Turns
  BY DEF GivenUp, Fresh, Turns

LEMMA ActivateInv == IInv /\ Activate => IInv'
  <1> SUFFICES ASSUME IInv, Activate  PROVE IInv'
    OBVIOUS
  <1>0. TypeBits /\ TypeTurn /\ TypeRest
    BY TypeParts DEF IInv
  <1>1. PICK ok \in BOOLEAN : StartWorkerTask(Fresh, worker, ok) /\ spawned' = (ok \/ alive \/
     cfg = "off")
    BY DEF Activate, SpawnOutcomes
  <1>2. /\ worker' \in [Workers -> Task] /\ turn' \in {Fresh, GivenUp(Fresh, multi)}
        /\ want' \in {want, TRUE} /\ alive' \in BOOLEAN /\ revived' \in BOOLEAN
        /\ Single'
        /\ ~revived' => want' \/ ~alive'
        /\ \A w \in Workers : \/ revived' /\ worker'[w] = worker[w]
                              \/ worker'[w] = Asleep \/ worker'[w] = Waiting
    <2>1. \A ws \in [Workers -> Task] : ws = worker =>
             /\ worker' \in [Workers -> Task] /\ turn' \in {Fresh, GivenUp(Fresh, multi)}
             /\ want' \in {want, TRUE} /\ alive' \in BOOLEAN /\ revived' \in BOOLEAN
             /\ Single'
             /\ ~revived' => want' \/ ~alive'
             /\ \A w \in Workers : \/ revived' /\ worker'[w] = ws[w]
                                   \/ worker'[w] = Asleep \/ worker'[w] = Waiting
      <3> TAKE ws \in [Workers -> Task]
      <3> HAVE ws = worker
      <3>1. StartWorkerTask(Fresh, ws, ok)
        BY <1>1
      <3> QED  BY <3>1, Start
    <2> QED  BY <2>1, <1>0 DEF TypeRest
  <1>3. /\ attached' = "on" /\ core1' = "allocating" /\ played' = 0 /\ live' = FALSE
        /\ ready' = FALSE /\ several' = multi
        /\ UNCHANGED <<cfg, multi, edits, scratch, poster, purpose, late>>
    BY DEF Activate
  <1>4. TypeOK'
    <2>1. spawned' \in BOOLEAN /\ want' \in BOOLEAN
      BY <1>0, <1>1, <1>2 DEF TypeBits
    <2>2. TypeBits'
      BY <1>0, <1>2, <1>3, <2>1, Zenon DEF TypeBits
    <2>3. TypeTurn'
      <3>1. Fresh \in Turns /\ multi \in BOOLEAN
        BY <1>0 DEF Fresh, Turns, TypeBits
      <3>2. GivenUp(Fresh, multi) \in Turns
        BY <3>1, TurnKept
      <3> QED  BY <1>2, <3>1, <3>2 DEF TypeTurn, Turns
    <2>4. TypeRest'
      BY <1>0, <1>2, <1>3, BudgetAssumption DEF TypeRest
    <2> QED  BY <2>2, <2>3, <2>4, TypePartsNext
  <1>5. Placed' /\ Emptied'
    BY <1>3 DEF Placed, Emptied
  <1>6. Awaiting'
    BY <1>2 DEF Awaiting, Asleep, Waiting
  <1>7. Tasks'
    <2>1. ASSUME NEW w \in Workers  PROVE TaskGood(w)'
      <3>1. CASE revived' /\ worker'[w] = worker[w]
        BY <1>3, <3>1 DEF IInv, Tasks, TaskGood, Unfreed, Configured, Told, NotAlone, CardUp
      <3>2. CASE worker'[w] = Asleep \/ worker'[w] = Waiting
        BY <3>2 DEF TaskGood, Unfreed, Configured, Told, NotAlone, CardUp, InItem, UsesScratch,
                    Asleep, Waiting
      <3> QED  BY <1>2, <3>1, <3>2
    <2> QED  BY <1>3, <2>1 DEF Tasks
  <1> QED  BY <1>2, <1>4, <1>5, <1>6, <1>7 DEF IInv

LEMMA ReconfiguredInv == IInv /\ Reconfigured => IInv'
  <1> SUFFICES ASSUME IInv, Reconfigured  PROVE IInv'
    OBVIOUS
  <1>0. /\ TypeBits /\ TypeTurn /\ TypeRest
        /\ Outdated \in [Workers -> Task]
        /\ \A w \in Workers : (worker[w].pc # "none" => Outdated[w].stale)
                              /\ Outdated[w].held = worker[w].held
                              /\ Outdated[w].pc = worker[w].pc
                              /\ (worker[w] = Asleep => Outdated[w] = Asleep)
    BY TypeParts, OutdatedTasks DEF IInv, TypeRest
  <1>1. PICK ok \in BOOLEAN : StartWorkerTask(Fresh, Outdated, ok)
    BY DEF Reconfigured, SpawnOutcomes
  <1>2. /\ worker' \in [Workers -> Task] /\ turn' \in {Fresh, GivenUp(Fresh, multi)}
        /\ want' \in {want, TRUE} /\ alive' \in BOOLEAN /\ revived' \in BOOLEAN
        /\ Single'
        /\ ~revived' => want' \/ ~alive'
        /\ \A w \in Workers : \/ revived' /\ worker'[w] = Outdated[w]
                              \/ worker'[w] = Asleep \/ worker'[w] = Waiting
    <2>1. \A ws \in [Workers -> Task] : ws = Outdated =>
             /\ worker' \in [Workers -> Task] /\ turn' \in {Fresh, GivenUp(Fresh, multi)}
             /\ want' \in {want, TRUE} /\ alive' \in BOOLEAN /\ revived' \in BOOLEAN
             /\ Single'
             /\ ~revived' => want' \/ ~alive'
             /\ \A w \in Workers : \/ revived' /\ worker'[w] = ws[w]
                                   \/ worker'[w] = Asleep \/ worker'[w] = Waiting
      <3> TAKE ws \in [Workers -> Task]
      <3> HAVE ws = Outdated
      <3>1. StartWorkerTask(Fresh, ws, ok)
        BY <1>1
      <3>2. \A w \in Workers : ws[w].pc = worker[w].pc /\ (worker[w] = Asleep => ws[w] = Asleep)
        BY <1>0
      <3> QED  BY <3>1, <3>2, Start
    <2> QED  BY <2>1, <1>0
  <1>3. /\ core1 = "stopping" /\ purpose = "config" /\ cfg' \in {"ok", "off", "badurl"}
        /\ core1' = "idle" /\ ready' = TRUE /\ live' = FALSE /\ several' = multi
        /\ UNCHANGED <<attached, purpose, spawned, late, scratch, poster, multi, edits, played>>
    BY DEF Reconfigured, WaitOver
  <1>4. TypeOK'
    <2>1. want' \in BOOLEAN
      BY <1>0, <1>2 DEF TypeBits
    <2>2. TypeBits'
      BY <1>0, <1>2, <1>3, <2>1, Zenon DEF TypeBits
    <2>3. TypeTurn'
      <3>1. Fresh \in Turns /\ multi \in BOOLEAN
        BY <1>0 DEF Fresh, Turns, TypeBits
      <3>2. GivenUp(Fresh, multi) \in Turns
        BY <3>1, TurnKept
      <3> QED  BY <1>2, <3>1, <3>2 DEF TypeTurn, Turns
    <2>4. TypeRest'
      BY <1>0, <1>2, <1>3 DEF TypeRest
    <2> QED  BY <2>2, <2>3, <2>4, TypePartsNext
  <1>5. Placed' /\ Emptied' /\ Awaiting'
    BY <1>3 DEF IInv, Placed, Emptied, Awaiting
  <1>6. Tasks'
    <2>1. ASSUME NEW w \in Workers  PROVE TaskGood(w)'
      <3>1. CASE worker'[w] = Asleep \/ worker'[w] = Waiting
        BY <3>1 DEF TaskGood, Unfreed, Configured, Told, NotAlone, CardUp, InItem, UsesScratch,
                    Asleep, Waiting
      <3>2. CASE revived' /\ worker'[w] = Outdated[w] /\ worker[w].pc # "none"
        BY <1>0, <3>2 DEF TaskGood, Unfreed, Configured, Told, NotAlone, CardUp
      <3>3. CASE worker'[w] = Outdated[w] /\ worker[w].pc = "none"
        BY <1>0, <3>1, <3>3 DEF IInv, Single
      <3> QED  BY <1>2, <3>1, <3>2, <3>3
    <2> QED  BY <1>3, <2>1 DEF Tasks
  <1> QED  BY <1>2, <1>4, <1>5, <1>6 DEF IInv

(* Freeing the scratch takes it from nobody but a worker of an earlier turn.       *)
LEMMA AllocateInv == IInv /\ Allocate => IInv'
  <1> SUFFICES ASSUME IInv, Allocate  PROVE IInv'
    OBVIOUS
  <1>0. TypeBits /\ TypeTurn /\ TypeRest /\ Pulled(worker) \in [Workers -> Task]
    BY TypeParts, PulledTasks DEF IInv, TypeRest
  <1>1. /\ core1 = "allocating" /\ core1' = "idle" /\ ready' = TRUE
        /\ turn' \in {turn, GivenUp(turn, multi)}
        /\ UNCHANGED <<attached, purpose, spawned, late, want, alive, cfg, multi, edits,
                       played, live, revived, several>>
    BY DEF Allocate
  <1>2. scratch' \in BOOLEAN /\ poster' \in BOOLEAN /\ worker' \in {worker, Pulled(worker)}
    BY <1>0 DEF Allocate, HeapOutcomes, TypeBits
  <1>3. \A w \in Workers :
          /\ worker'[w].pc = worker[w].pc /\ worker'[w].follow = worker[w].follow
          /\ worker'[w].stale = worker[w].stale /\ worker'[w].solo = worker[w].solo
          /\ worker[w] = Asleep => worker'[w] = Asleep
    BY <1>0, <1>2, PulledTasks DEF TypeRest
  <1>4. TypeOK'
    <2>1. TypeBits'
      BY <1>0, <1>1, <1>2, Zenon DEF TypeBits
    <2>2. TypeTurn'
      <3>1. turn \in Turns /\ multi \in BOOLEAN
        BY <1>0 DEF Turns, TypeTurn, TypeBits
      <3>2. GivenUp(turn, multi) \in Turns
        BY <3>1, TurnKept
      <3> QED  BY <1>1, <3>1, <3>2 DEF TypeTurn, Turns
    <2>3. TypeRest'
      BY <1>0, <1>1, <1>2 DEF TypeRest
    <2> QED  BY <2>1, <2>2, <2>3, TypePartsNext
  <1>5. Single'
    BY <1>1, <1>3 DEF IInv, Single
  <1>6. Placed' /\ Emptied' /\ Awaiting'
    BY <1>1 DEF IInv, Placed, Emptied, Awaiting
  <1>7. Tasks'
    <2>1. ASSUME NEW w \in Workers  PROVE Unfreed(w)'
      BY <1>1, <1>3 DEF IInv, Awaiting, Unfreed, UsesScratch
    <2>2. ASSUME NEW w \in Workers  PROVE (Configured(w) /\ Told(w) /\ NotAlone(w) /\
       CardUp(w))'
      BY <1>1, <1>3 DEF IInv, Tasks, TaskGood, Configured, Told, NotAlone, CardUp
    <2> QED  BY <1>1, <2>1, <2>2 DEF IInv, Tasks, TaskGood
  <1> QED  BY <1>4, <1>5, <1>6, <1>7 DEF IInv

(* The end of a wait for the worker frees the buffers only when it is gone.        *)
LEMMA FreedInv ==
    ASSUME IInv, WaitOver, FreeIfGone, turn' \in Turns, purpose # "config",
           attached' \in {"off", "retiring", "dead"}, core1' = "idle",
           late' \in {late, alive}, attached' = "off" => late' = alive,
           ready' = FALSE, live' = FALSE,
           UNCHANGED <<purpose, spawned, want, alive, setup, played, revived, several>>
    PROVE  IInv'
  <1>0. /\ TypeBits /\ TypeRest /\ Pulled(worker) \in [Workers -> Task]
        /\ UNCHANGED <<cfg, multi, edits>> /\ core1 = "stopping" /\ ~want
    BY TypeParts, PulledTasks DEF IInv, TypeRest, setup, WaitOver, Placed
  <1>1. /\ scratch' \in BOOLEAN /\ poster' \in BOOLEAN /\ worker' \in {worker, Pulled(worker)}
        /\ ~alive => scratch' = FALSE /\ poster' = FALSE
        /\ alive => worker' = worker
    BY <1>0 DEF FreeIfGone, Free, TypeBits
  <1>2. worker' = worker \/ \A w \in Workers : worker[w] = Asleep /\ worker'[w] = Asleep
    BY <1>0, <1>1, PulledTasks DEF IInv, Single, TypeRest
  <1>3. TypeOK'
    <2>1. late' \in BOOLEAN
      BY <1>0, Zenon DEF TypeBits
    <2>2. TypeBits'
      BY <1>0, <1>1, <2>1, Zenon DEF TypeBits
    <2>3. TypeTurn' /\ TypeRest'
      BY <1>0, <1>1 DEF TypeTurn, Turns, TypeRest
    <2> QED  BY <2>2, <2>3, TypePartsNext
  <1>4. Single'
    BY <1>2 DEF IInv, Single, Asleep
  <1>5. Placed' /\ Awaiting'
    BY <1>0 DEF Placed, Awaiting
  <1>6. Emptied'
    BY <1>1 DEF Emptied
  <1>7. Tasks'
    <2>1. ASSUME NEW w \in Workers  PROVE TaskGood(w)'
      <3>1. CASE worker' = worker
        BY <1>0, <3>1 DEF IInv, Tasks, TaskGood, Unfreed, Configured, Told, NotAlone, CardUp
      <3>2. CASE worker'[w] = Asleep
        BY <3>2 DEF TaskGood, Unfreed, Configured, Told, NotAlone, CardUp, InItem, UsesScratch,
           Asleep
      <3> QED  BY <1>2, <3>1, <3>2
    <2> QED  BY <1>0, <2>1 DEF IInv, Tasks
  <1> QED  BY <1>3, <1>4, <1>5, <1>6, <1>7 DEF IInv

LEMMA DeactivatedInv == IInv /\ (Deactivated \/ Destroyed) => IInv'
  <1> SUFFICES ASSUME IInv, Deactivated \/ Destroyed  PROVE IInv'
    OBVIOUS
  <1>0. turn \in Turns /\ alive \in BOOLEAN
    BY TypeParts DEF IInv, TypeTurn, Turns, TypeBits
  <1>1. CASE Deactivated
    <2>1. turn' \in Turns
      BY <1>0, <1>1, TurnKept DEF Deactivated
    <2>2. UNCHANGED <<purpose, spawned, want, alive, setup, played, revived, several>>
      BY <1>1 DEF Deactivated
    <2> QED  BY <1>1, <2>1, <2>2, FreedInv DEF Deactivated
  <1>2. CASE Destroyed
    <2>1. turn' \in Turns
      BY <1>0, <1>2, TurnKept DEF Destroyed
    <2>2. UNCHANGED <<purpose, spawned, want, alive, setup, played, revived, several>>
      BY <1>2 DEF Destroyed
    <2>3. attached' \in {"off", "retiring", "dead"} /\ attached' # "off" /\ late' = late
      BY <1>2 DEF Destroyed
    <2> QED  BY <1>2, <2>1, <2>2, <2>3, FreedInv DEF Destroyed
  <1> QED  BY <1>1, <1>2

(* The beginning of a stop, of either kind.                                        *)
LEMMA StopInv == IInv /\ (Deactivate \/ Shutdown \/ EditWanted) => IInv'
  <1> SUFFICES ASSUME IInv, Deactivate \/ Shutdown \/ EditWanted  PROVE IInv'
    OBVIOUS
  <1>0. TypeBits /\ TypeTurn /\ TypeRest
    BY TypeParts DEF IInv
  <1>1. /\ core1 = "idle" /\ core1' = "stopping" /\ want' = FALSE
        /\ attached' \in {"on", "retiring"}
        /\ purpose' \in {"deactivate", "config", "destroy"}
        /\ purpose' = "config" => attached' = "on"
        /\ edits' \in 0..MaxEdits
        /\ UNCHANGED <<spawned, late, alive, scratch, poster, ready, cfg, multi, turn, played, live,
                       worker, revived, several>>
    BY <1>0, BudgetAssumption DEF Deactivate, Shutdown, EditWanted, buffers, setup, TypeRest,
       IInv, Placed
  <1>2. TypeOK'
    <2>1. TypeBits'
      BY <1>0, <1>1, Zenon DEF TypeBits
    <2>2. TypeTurn' /\ TypeRest'
      BY <1>0, <1>1 DEF TypeTurn, TypeRest
    <2> QED  BY <2>1, <2>2, TypePartsNext
  <1>3. Single'
    BY <1>1 DEF IInv, Single
  <1>4. Placed' /\ Emptied' /\ Awaiting'
    BY <1>1 DEF Placed, Emptied, Awaiting
  <1>5. Tasks'
    BY <1>1 DEF IInv, Tasks, TaskGood, Unfreed, Configured, Told, NotAlone, CardUp
  <1> QED  BY <1>2, <1>3, <1>4, <1>5 DEF IInv

LEMMA EditInv == IInv /\ (EditUnwanted \/ EditRotation) => IInv'
  <1> SUFFICES ASSUME IInv, EditUnwanted \/ EditRotation  PROVE IInv'
    OBVIOUS
  <1>0. TypeBits /\ TypeTurn /\ TypeRest
    BY TypeParts DEF IInv
  <1>1. CASE EditUnwanted
    <2>1. /\ ~want /\ cfg' \in {"ok", "off", "badurl"} /\ edits' \in 0..MaxEdits
          /\ worker' = Outdated
          /\ UNCHANGED <<attached, core1, purpose, spawned, late, want, alive, scratch, poster,
                         ready, multi, turn, played, live, revived, several>>
      BY <1>0, <1>1, BudgetAssumption DEF EditUnwanted, TypeRest, core1vars, buffers
    <2>2. /\ Outdated \in [Workers -> Task]
          /\ \A w \in Workers :
               /\ worker'[w].pc = worker[w].pc /\ worker'[w].follow = worker[w].follow
               /\ worker'[w].held = worker[w].held /\ worker'[w].solo = worker[w].solo
               /\ worker[w].pc # "none" => worker'[w].stale
               /\ worker[w] = Asleep => worker'[w] = Asleep
      BY <1>0, <2>1, OutdatedTasks DEF TypeRest
    <2>3. TypeOK'
      <3>1. TypeBits'
        BY <1>0, <2>1, Zenon DEF TypeBits
      <3>2. TypeTurn' /\ TypeRest'
        BY <1>0, <2>1, <2>2 DEF TypeTurn, TypeRest
      <3> QED  BY <3>1, <3>2, TypePartsNext
    <2>4. Single'
      BY <2>1, <2>2 DEF IInv, Single
    <2>5. Placed' /\ Emptied'
      BY <2>1 DEF IInv, Placed, Emptied
    <2>6. Awaiting'
      BY <2>1, <2>2 DEF IInv, Awaiting
    <2>7. Tasks'
      <3>1. ASSUME NEW w \in Workers  PROVE TaskGood(w)'
        <4>1. CASE worker[w].pc # "none"
          BY <2>1, <2>2, <4>1 DEF IInv, Tasks, TaskGood, Unfreed, Configured, Told, NotAlone,
             CardUp
        <4>2. CASE worker[w].pc = "none"
          <5>1. worker'[w] = Asleep
            BY <2>2, <4>2 DEF IInv, Single
          <5> QED
            BY <5>1 DEF TaskGood, Unfreed, Configured, Told, NotAlone, CardUp, InItem,
               UsesScratch, Asleep
        <4> QED  BY <4>1, <4>2
      <3> QED  BY <2>1, <3>1 DEF IInv, Tasks
    <2> QED  BY <2>3, <2>4, <2>5, <2>6, <2>7 DEF IInv
  <1>2. CASE EditRotation
    <2>1. /\ edits' \in 0..MaxEdits /\ multi' = ~multi /\ several' = (several /\ multi')
          /\ UNCHANGED <<attached, core1, purpose, spawned, late, want, alive, scratch, poster,
                         ready, cfg, turn, played, live, worker, revived>>
      BY <1>0, <1>2, BudgetAssumption DEF EditRotation, TypeRest, core1vars, buffers
    <2>2. TypeOK'
      <3>1. TypeBits'
        BY <1>0, <2>1, Zenon DEF TypeBits
      <3>2. TypeTurn' /\ TypeRest'
        BY <1>0, <2>1 DEF TypeTurn, TypeRest
      <3> QED  BY <3>1, <3>2, TypePartsNext
    <2>3. Single' /\ Placed' /\ Emptied' /\ Awaiting'
      BY <2>1 DEF IInv, Single, Placed, Emptied, Awaiting
    <2>4. Tasks'
      BY <2>1 DEF IInv, Tasks, TaskGood, Unfreed, Configured, Told, NotAlone, CardUp
    <2> QED  BY <2>2, <2>3, <2>4 DEF IInv
  <1> QED  BY <1>1, <1>2

LEMMA GateInv == IInv /\ (Gate \/ UNCHANGED vars) => IInv'
  <1> SUFFICES ASSUME IInv, Gate \/ UNCHANGED vars  PROVE IInv'
    OBVIOUS
  <1>0. TypeBits /\ TypeTurn /\ TypeRest
    BY TypeParts DEF IInv
  <1>1. UNCHANGED <<attached, core1, purpose, spawned, late, want, alive, scratch, poster,
     ready,
                    cfg, multi, edits, played, live, worker, revived, several>>
    BY DEF Gate, vars, core1vars, buffers, setup
  <1>2. turn' \in Turns
    <2>1. turn \in Turns /\ multi \in BOOLEAN
      BY <1>0 DEF TypeTurn, Turns, TypeBits
    <2> QED  BY <2>1, TurnKept DEF Gate, vars
  <1>3. TypeOK'
    <2>1. TypeBits'
      BY <1>0, <1>1, Zenon DEF TypeBits
    <2>2. TypeTurn' /\ TypeRest'
      BY <1>0, <1>1, <1>2 DEF TypeTurn, Turns, TypeRest
    <2> QED  BY <2>1, <2>2, TypePartsNext
  <1>4. Single' /\ Placed' /\ Emptied' /\ Awaiting'
    BY <1>1 DEF IInv, Single, Placed, Emptied, Awaiting
  <1>5. Tasks'
    BY <1>1 DEF IInv, Tasks, TaskGood, Unfreed, Configured, Told, NotAlone, CardUp
  <1> QED  BY <1>3, <1>4, <1>5 DEF IInv

LEMMA NextInv == IInv /\ [Next]_vars => IInv'
  BY ActivateInv, AllocateInv, StopInv, DeactivatedInv, ReconfiguredInv, EditInv, GateInv,
     WorkerInv DEF Next, StopEnds

--------------------------------------------------------------------------------
(* Every behaviour stays inside the invariant.                                     *)
THEOREM Invariant == Spec => []IInv
  BY InitInv, NextInv, PTL DEF Spec

(* The variables keep the types of the firmware's, the counters their bounds.      *)
THEOREM TypeCorrect == Spec => []TypeOK
  <1>1. IInv => TypeOK
    BY DEF IInv
  <1> QED  BY <1>1, Invariant, PTL

(* Never two workers, whatever was refused or outlasted a wait: startWorkerTask()  *)
(* creates none while m_taskAlive is up, and only a task that leaves takes it down.*)
THEOREM NeverTwoWorkers == Spec => []OneWorker
  <1>1. IInv => OneWorker
    <2> SUFFICES ASSUME IInv  PROVE Cardinality(Running) <= 1
      BY DEF OneWorker
    <2>1. CASE Running = {}
      BY <2>1, FS_EmptySet
    <2>2. CASE Running # {}
      <3>1. PICK w : w \in Running
        BY <2>2
      <3>2. Running = {w}
        BY <3>1 DEF IInv, Single, Running
      <3>3. Cardinality(Running) = 1
        BY <3>2, FS_Singleton, Zenon
      <3> QED  BY <3>3
    <2> QED  BY <2>1, <2>2
  <1> QED  BY <1>1, Invariant, PTL

(* The scratch buffer is not freed under the worker that uses it, unless a new     *)
(* turn was started over a worker that had outlived the last one.                  *)
THEOREM ScratchNeverFreed == Spec => []ScratchSafe
  <1>1. IInv => ScratchSafe
    BY DEF IInv, Tasks, TaskGood, Unfreed, ScratchSafe
  <1> QED  BY <1>1, Invariant, PTL

(* Off the panel the engine holds no buffer, unless its worker outlasted the wait. *)
THEOREM BuffersSurrendered == Spec => []Surrendered
  <1>1. IInv => Surrendered
    BY DEF IInv, Emptied, Surrendered
  <1> QED  BY <1>1, Invariant, PTL

(* While the worker looks for the next item of a turn the card of the last is up.  *)
THEOREM CardKeptBetweenItems == Spec => []FollowUpKeepsCard
  <1>1. IInv => FollowUpKeepsCard
    BY DEF IInv, Tasks, TaskGood, CardUp, FollowUpKeepsCard
  <1> QED  BY <1>1, Invariant, PTL
================================================================================
