--------------------------- MODULE ShowcaseCardProofs ----------------------------
(* What the two cores draw together is right, for any number of items: the worker  *)
(* frees the poster and the ring only between two drawings, the card is copied      *)
(* whole under its sequence lock, and a poster stands beside its own text.         *)
EXTENDS ShowcaseCard, TLAPS

--------------------------------------------------------------------------------
(* The flag is up exactly while Core 1 is inside a drawing, and the poster's       *)
(* pointer is held nowhere else.                                                   *)
Drawing == {"blank", "frame", "framing", "card", "drawing"}
Flagged == blit <=> cpc \in Drawing
DrawnFrom == pointer # "dangling" /\ (pointer = "good" => cpc = "drawing")

(* The mode is SpscRing only between the two stores of the worker, and the ring    *)
(* has its storage from before the first of them until after the second.           *)
RingFirst ==
    /\ streaming => wpc \in {"enter", "live"}
    /\ wpc \in {"arm", "enter", "live"} => ring
    /\ cpc = "framing" => ring

(* The sequence number is odd exactly while the card is being written; the numbers *)
(* Core 1 has seen are behind it (the first one, 1, is that of no card).           *)
SeqLock ==
    /\ seq % 2 = 1 <=> wpc = "publishing"
    /\ wpc # "publishing" => liveCard.of = liveCard.title
    /\ s1 <= seq
    /\ lastSeq <= seq \/ lastSeq = 1

(* As long as the number is the one Core 1 began with, its copy is the card.       *)
CopyOfNow ==
    seq = s1 =>
      /\ cpc \in {"copy", "copying", "check"} => seq % 2 = 0
      /\ cpc = "copying" => temp = [liveCard EXCEPT !.title = temp.title]
      /\ cpc = "check" => temp = liveCard
      /\ cpc \notin {"idle", "copy", "copying", "check"} /\ seq % 2 = 0 => lastSeq = seq
CardKnown == lastSeq = seq /\ seq % 2 = 0 => card = liveCard

(* Before the next card is out, between it and its cut, and from there on.         *)
Early == {"acquire", "prepare", "fetch", "fetching", "publish", "publishing"}
Shown == {"publish3", "dwell", "cut", "cutting", "unflag"}
Stripped == {"unlink", "release", "ring", "arm", "enter", "live", "hold", "unvideo", "settle"}

(* The poster the live card asks for is in the buffer until the card loses it;     *)
(* only an item that ended with its card up is overtaken by the next fetch.        *)
PosterOf ==
    /\ wpc \in Shown /\ liveCard.poster => pixels = liveCard.of
    /\ wpc \in Stripped => ~liveCard.poster
    /\ wpc \notin Shown /\ liveCard.poster => stayed
    /\ wpc \in {"prepare", "fetch", "fetching"} => ~fetched
    /\ wpc \in {"publish", "publishing"} /\ fetched => pixels = item

(* The panel shows the cut until the stream, and the last frame after it: in phase *)
(* Card, before the next card is out, the last item stayed or there was none.      *)
PhaseOf ==
    /\ wpc \in {"cutting", "unflag", "unlink", "release", "ring"} => phase = "StreamBlank"
    /\ wpc \in {"unvideo", "settle"} => phase = "StreamEndHold"
    /\ wpc \in Early /\ ~stayed /\ phase = "Card" =>
         ~liveCard.poster /\ ~temp.poster /\ ~card.poster
    /\ cpc \in {"card", "drawing"} /\ seq = s1 /\ wpc = "publishing" => phase = "Card"

(* The type invariant, its Boolean variables apart.                                *)
TypeBits ==
    /\ want \in BOOLEAN /\ fetched \in BOOLEAN /\ poster \in BOOLEAN /\ ring \in BOOLEAN
    /\ streaming \in BOOLEAN /\ blit \in BOOLEAN /\ blanked \in BOOLEAN
    /\ dirty \in BOOLEAN /\ stayed \in BOOLEAN
TypeRest ==
    /\ wpc \in {"acquire", "prepare", "fetch", "fetching", "publish", "publishing", "publish3",
                "dwell", "cut", "cutting", "unflag", "unlink", "release", "ring", "arm",
                "enter", "live", "exit", "hold", "unvideo", "settle", "gone"}
    /\ item \in 0..Items /\ has \in [poster: BOOLEAN, stream: BOOLEAN]
    /\ phase \in Phases /\ lastPhase \in Phases \cup {"none"}
    /\ seq \in Nat /\ s1 \in Nat /\ lastSeq \in Nat
    /\ liveCard \in Cards /\ temp \in Cards /\ card \in Cards
    /\ pixels \in 0..Items
    /\ cpc \in {"idle", "copy", "copying", "check", "decide", "peek", "peeking", "render",
                "blank", "frame", "framing", "card", "drawing"}
    /\ pointer \in {"none", "good", "dangling"}

Memory == Flagged /\ DrawnFrom /\ RingFirst
Copied == SeqLock /\ CopyOfNow /\ CardWhole /\ CardKnown
IInv == TypeOK /\ Memory /\ Copied /\ PosterOf /\ PhaseOf

--------------------------------------------------------------------------------
(* The arithmetic of the sequence lock.                                            *)
LEMMA Parity ==
    ASSUME NEW n \in Nat
    PROVE  /\ n % 2 = 0 \/ n % 2 = 1
           /\ n % 2 = 0 <=> (n + 1) % 2 = 1
           /\ n % 2 = 0 <=> (n + 2) % 2 = 0
           /\ n % 2 = 1 <=> (n + 1) % 2 = 0
           /\ n % 2 = 1 <=> (n + 2) % 2 = 1
  OBVIOUS

(* What a step of one core leaves alone.                                           *)
LEMMA WorkerKeeps == Worker => UNCHANGED <<want, core1, blit>>
  BY DEF Worker, Core1Still, Busy, Acquire, Prepare, Fetch, Fetched, Publish, Published,
     ShowCard, Dwell, Cut, CutOver, Unflag, Unlink, Release, AllocateRing, Arm, EnterLive,
     LeaveLive, ExitLive, Unvideo, FreeRing, HoldLast

LEMMA Core1Keeps == Core1 => UNCHANGED <<worker, shown, memory, stayed>>
  BY DEF Core1, Core0Still, worker, Look, Copy, Copying, Check, Decide, Peek, Peeking, Render,
     Blank, Frame, Framed, DrawCard, Drawn

LEMMA TypeParts == TypeOK <=> TypeBits /\ TypeRest
  BY Zenon DEF TypeOK, TypeBits, TypeRest

LEMMA InitInv == Init => IInv
  <1> SUFFICES ASSUME Init  PROVE IInv
    OBVIOUS
  <1> USE ItemsAssumption DEF Init, NoCard
  <1>1. TypeOK
    <2>1. TypeBits
      BY Zenon DEF TypeBits
    <2>2. TypeRest
      BY DEF TypeRest, Cards, Phases
    <2> QED  BY <2>1, <2>2, TypeParts
  <1>2. Memory
    BY DEF Memory, Flagged, DrawnFrom, RingFirst, Drawing
  <1>3. Copied
    BY DEF Copied, SeqLock, CopyOfNow, CardWhole, CardKnown
  <1>4. PosterOf /\ PhaseOf
    BY DEF PosterOf, PhaseOf, Early, Shown, Stripped
  <1> QED  BY <1>1, <1>2, <1>3, <1>4 DEF IInv

--------------------------------------------------------------------------------
(* The types.                                                                      *)
LEMMA CardKept ==
    ASSUME NEW c \in Cards, NEW b \in BOOLEAN, NEW i \in 0..Items
    PROVE  /\ [c EXCEPT !.video = b] \in Cards /\ [c EXCEPT !.poster = b] \in Cards
           /\ [c EXCEPT !.of = i] \in Cards /\ [c EXCEPT !.title = i] \in Cards
           /\ c.of \in 0..Items /\ c.title \in 0..Items
           /\ c.poster \in BOOLEAN /\ c.video \in BOOLEAN
  BY DEF Cards

LEMMA WorkerType == TypeOK /\ Worker => TypeOK'
  <1> SUFFICES ASSUME TypeOK, Worker  PROVE TypeBits' /\ TypeRest'
    BY Zenon DEF TypeOK, TypeBits, TypeRest
  <1>0. TypeBits /\ TypeRest
    BY TypeParts
  <1> USE DEF At, Busy, Core1Still, shown, memory, core1
  <1>1. CASE Acquire
    <2>1. TypeBits'
      BY <1>0, <1>1, Zenon DEF TypeBits, Acquire
    <2>2. TypeRest'
      BY <1>0, <1>1, ItemsAssumption DEF TypeRest, Phases, Acquire
    <2> QED  BY <2>1, <2>2
  <1>2. CASE Prepare
    <2>1. TypeBits'
      BY <1>0, <1>2, Zenon DEF TypeBits, Prepare, Quiescent, Flag
    <2>0. liveCard' \in Cards
      BY <1>0, <1>2, CardKept DEF TypeBits, TypeRest, Prepare, Quiescent, Flag
    <2>3. seq' \in Nat /\ phase' \in Phases
      BY <1>0, <1>2 DEF TypeRest, Phases, Prepare, Quiescent, Flag
    <2>2. TypeRest'
      BY <2>0, <2>3, <1>0, <1>2, ItemsAssumption DEF TypeRest, Prepare, Quiescent, Flag
    <2> QED  BY <2>1, <2>2
  <1>3. CASE Fetch
    <2>1. TypeBits'
      BY <1>0, <1>3, Zenon DEF TypeBits, Fetch
    <2>2. TypeRest'
      BY <1>0, <1>3, ItemsAssumption DEF TypeRest, Phases, Fetch
    <2> QED  BY <2>1, <2>2
  <1>4. CASE Fetched
    <2>1. TypeBits'
      BY <1>0, <1>4, Zenon DEF TypeBits, Fetched
    <2>2. TypeRest'
      BY <1>0, <1>4, ItemsAssumption DEF TypeRest, Phases, Fetched
    <2> QED  BY <2>1, <2>2
  <1>5. CASE Publish
    <2>1. TypeBits'
      BY <1>0, <1>5, Zenon DEF TypeBits, Publish
    <2>0. liveCard' \in Cards
      BY <1>0, <1>5, CardKept DEF TypeBits, TypeRest, Publish
    <2>3. seq' \in Nat /\ phase' \in Phases
      BY <1>0, <1>5 DEF TypeRest, Phases, Publish
    <2>2. TypeRest'
      BY <2>0, <2>3, <1>0, <1>5, ItemsAssumption DEF TypeRest, Publish
    <2> QED  BY <2>1, <2>2
  <1>6. CASE Published
    <2>1. TypeBits'
      BY <1>0, <1>6, Zenon DEF TypeBits, Published
    <2>0. liveCard' \in Cards
      BY <1>0, <1>6 DEF TypeBits, TypeRest, Cards, Published
    <2>3. seq' \in Nat /\ phase' \in Phases
      BY <1>0, <1>6 DEF TypeRest, Phases, Published
    <2>2. TypeRest'
      BY <2>0, <2>3, <1>0, <1>6, ItemsAssumption DEF TypeRest, Published
    <2> QED  BY <2>1, <2>2
  <1>7. CASE ShowCard
    <2>1. TypeBits'
      BY <1>0, <1>7, Zenon DEF TypeBits, ShowCard
    <2>2. TypeRest'
      BY <1>0, <1>7, ItemsAssumption DEF TypeRest, Phases, ShowCard
    <2> QED  BY <2>1, <2>2
  <1>8. CASE Dwell
    <2>1. TypeBits'
      BY <1>0, <1>8, Zenon DEF TypeBits, Dwell
    <2>2. TypeRest'
      BY <1>0, <1>8, ItemsAssumption DEF TypeRest, Phases, Dwell
    <2> QED  BY <2>1, <2>2
  <1>9. CASE Cut
    <2>1. TypeBits'
      BY <1>0, <1>9, Zenon DEF TypeBits, Cut
    <2>2. TypeRest'
      BY <1>0, <1>9, ItemsAssumption DEF TypeRest, Phases, Cut
    <2> QED  BY <2>1, <2>2
  <1>10. CASE CutOver
    <2>1. TypeBits'
      BY <1>0, <1>10, Zenon DEF TypeBits, CutOver, Quiescent, CutShown
    <2>2. TypeRest'
      BY <1>0, <1>10, ItemsAssumption DEF TypeRest, Phases, CutOver, Quiescent, CutShown
    <2> QED  BY <2>1, <2>2
  <1>11. CASE Unflag
    <2>1. TypeBits'
      BY <1>0, <1>11, Zenon DEF TypeBits, Unflag, Flag
    <2>0. liveCard' \in Cards
      BY <1>0, <1>11, CardKept DEF TypeBits, TypeRest, Unflag, Flag
    <2>3. seq' \in Nat /\ phase' \in Phases
      BY <1>0, <1>11 DEF TypeRest, Phases, Unflag, Flag
    <2>2. TypeRest'
      BY <2>0, <2>3, <1>0, <1>11, ItemsAssumption DEF TypeRest, Unflag, Flag
    <2> QED  BY <2>1, <2>2
  <1>12. CASE Unlink
    <2>1. TypeBits'
      BY <1>0, <1>12, Zenon DEF TypeBits, Unlink
    <2>2. TypeRest'
      BY <1>0, <1>12, ItemsAssumption DEF TypeRest, Phases, Unlink
    <2> QED  BY <2>1, <2>2
  <1>13. CASE Release
    <2>1. TypeBits'
      BY <1>0, <1>13, Zenon DEF TypeBits, Release, Quiescent
    <2>2. TypeRest'
      BY <1>0, <1>13, ItemsAssumption DEF TypeRest, Phases, Release, Quiescent
    <2> QED  BY <2>1, <2>2
  <1>14. CASE AllocateRing
    <2>1. TypeBits'
      BY <1>0, <1>14, Zenon DEF TypeBits, AllocateRing
    <2>2. TypeRest'
      BY <1>0, <1>14, ItemsAssumption DEF TypeRest, Phases, AllocateRing
    <2> QED  BY <2>1, <2>2
  <1>15. CASE Arm
    <2>1. TypeBits'
      BY <1>0, <1>15, Zenon DEF TypeBits, Arm
    <2>2. TypeRest'
      BY <1>0, <1>15, ItemsAssumption DEF TypeRest, Phases, Arm
    <2> QED  BY <2>1, <2>2
  <1>16. CASE EnterLive
    <2>1. TypeBits'
      BY <1>0, <1>16, Zenon DEF TypeBits, EnterLive, Flag
    <2>0. liveCard' \in Cards
      BY <1>0, <1>16, CardKept DEF TypeBits, TypeRest, EnterLive, Flag
    <2>3. seq' \in Nat /\ phase' \in Phases
      BY <1>0, <1>16 DEF TypeRest, Phases, EnterLive, Flag
    <2>2. TypeRest'
      BY <2>0, <2>3, <1>0, <1>16, ItemsAssumption DEF TypeRest, EnterLive, Flag
    <2> QED  BY <2>1, <2>2
  <1>17. CASE LeaveLive
    <2>1. TypeBits'
      BY <1>0, <1>17, Zenon DEF TypeBits, LeaveLive
    <2>2. TypeRest'
      BY <1>0, <1>17, ItemsAssumption DEF TypeRest, Phases, LeaveLive
    <2> QED  BY <2>1, <2>2
  <1>18. CASE ExitLive
    <2>1. TypeBits'
      BY <1>0, <1>18, Zenon DEF TypeBits, ExitLive, HoldLast
    <2>2. TypeRest'
      BY <1>0, <1>18, ItemsAssumption DEF TypeRest, Phases, ExitLive, HoldLast
    <2> QED  BY <2>1, <2>2
  <1>19. CASE Unvideo
    <2>1. TypeBits'
      BY <1>0, <1>19, Zenon DEF TypeBits, Unvideo, Flag
    <2>0. liveCard' \in Cards
      BY <1>0, <1>19, CardKept DEF TypeBits, TypeRest, Unvideo, Flag
    <2>3. seq' \in Nat /\ phase' \in Phases
      BY <1>0, <1>19 DEF TypeRest, Phases, Unvideo, Flag
    <2>2. TypeRest'
      BY <2>0, <2>3, <1>0, <1>19, ItemsAssumption DEF TypeRest, Unvideo, Flag
    <2> QED  BY <2>1, <2>2
  <1>20. CASE FreeRing
    <2>1. TypeBits'
      BY <1>0, <1>20, Zenon DEF TypeBits, FreeRing, Quiescent
    <2>2. TypeRest'
      BY <1>0, <1>20, ItemsAssumption DEF TypeRest, Phases, FreeRing, Quiescent
    <2> QED  BY <2>1, <2>2
  <1> QED
    BY <1>1, <1>2, <1>3, <1>4, <1>5, <1>6, <1>7, <1>8, <1>9, <1>10, <1>11, <1>12, <1>13, <1>14,
       <1>15, <1>16, <1>17, <1>18, <1>19, <1>20 DEF Worker

LEMMA Core1Type == TypeOK /\ Core1 => TypeOK'
  <1> SUFFICES ASSUME TypeOK, Core1  PROVE TypeBits' /\ TypeRest'
    BY Zenon DEF TypeOK, TypeBits, TypeRest
  <1>0. TypeBits /\ TypeRest
    BY TypeParts
  <1> USE DEF Tick, Core0Still, Dark, shown, memory
  <1>1. CASE Look
    <2>1. TypeBits'
      BY <1>0, <1>1, Zenon DEF TypeBits, Look
    <2>2. TypeRest'
      BY <1>0, <1>1, ItemsAssumption DEF TypeRest, Phases, Look
    <2> QED  BY <2>1, <2>2
  <1>2. CASE Copy
    <2>1. TypeBits'
      BY <1>0, <1>2, Zenon DEF TypeBits, Copy
    <2>0. temp' \in Cards
      BY <1>0, <1>2, CardKept DEF TypeBits, TypeRest, Copy
    <2>2. TypeRest'
      BY <2>0, <1>0, <1>2, ItemsAssumption DEF TypeRest, Copy
    <2> QED  BY <2>1, <2>2
  <1>3. CASE Copying
    <2>1. TypeBits'
      BY <1>0, <1>3, Zenon DEF TypeBits, Copying
    <2>0. temp' \in Cards
      BY <1>0, <1>3, CardKept DEF TypeBits, TypeRest, Copying
    <2>2. TypeRest'
      BY <2>0, <1>0, <1>3, ItemsAssumption DEF TypeRest, Copying
    <2> QED  BY <2>1, <2>2
  <1>4. CASE Check
    <2>1. TypeBits'
      BY <1>0, <1>4, Zenon DEF TypeBits, Check
    <2>0. card' \in Cards
      BY <1>0, <1>4, CardKept DEF TypeBits, TypeRest, Check
    <2>2. TypeRest'
      BY <2>0, <1>0, <1>4, ItemsAssumption DEF TypeRest, Check
    <2> QED  BY <2>1, <2>2
  <1>5. CASE Decide
    <2>0. dirty' \in BOOLEAN
      BY <1>0, <1>5 DEF TypeBits, TypeRest, Phases, Decide
    <2>1. TypeBits'
      BY <2>0, <1>0, <1>5, Zenon DEF TypeBits, Decide
    <2>2. TypeRest'
      BY <1>0, <1>5, ItemsAssumption DEF TypeRest, Phases, Decide
    <2> QED  BY <2>1, <2>2
  <1>6. CASE Peek
    <2>1. TypeBits'
      BY <1>0, <1>6, Zenon DEF TypeBits, Peek
    <2>2. TypeRest'
      BY <1>0, <1>6, ItemsAssumption DEF TypeRest, Phases, Peek
    <2> QED  BY <2>1, <2>2
  <1>7. CASE Peeking
    <2>1. TypeBits'
      BY <1>0, <1>7, Zenon DEF TypeBits, Peeking
    <2>2. TypeRest'
      BY <1>0, <1>7, ItemsAssumption DEF TypeRest, Phases, Peeking
    <2> QED  BY <2>1, <2>2
  <1>8. CASE Render
    <2>1. TypeBits'
      BY <1>0, <1>8, Zenon DEF TypeBits, Render
    <2>2. TypeRest'
      BY <1>0, <1>8, ItemsAssumption DEF TypeRest, Phases, Render
    <2> QED  BY <2>1, <2>2
  <1>9. CASE Blank
    <2>1. TypeBits'
      BY <1>0, <1>9, Zenon DEF TypeBits, Blank, Done
    <2>2. TypeRest'
      BY <1>0, <1>9, ItemsAssumption DEF TypeRest, Phases, Blank, Done
    <2> QED  BY <2>1, <2>2
  <1>10. CASE Frame
    <2>1. TypeBits'
      BY <1>0, <1>10, Zenon DEF TypeBits, Frame, Done
    <2>2. TypeRest'
      BY <1>0, <1>10, ItemsAssumption DEF TypeRest, Phases, Frame, Done
    <2> QED  BY <2>1, <2>2
  <1>11. CASE Framed
    <2>1. TypeBits'
      BY <1>0, <1>11, Zenon DEF TypeBits, Framed, Done
    <2>2. TypeRest'
      BY <1>0, <1>11, ItemsAssumption DEF TypeRest, Phases, Framed, Done
    <2> QED  BY <2>1, <2>2
  <1>12. CASE DrawCard
    <2>1. TypeBits'
      BY <1>0, <1>12, Zenon DEF TypeBits, DrawCard
    <2>2. TypeRest'
      BY <1>0, <1>12, ItemsAssumption DEF TypeRest, Phases, DrawCard
    <2> QED  BY <2>1, <2>2
  <1>13. CASE Drawn
    <2>1. TypeBits'
      BY <1>0, <1>13, Zenon DEF TypeBits, Drawn, Done
    <2>2. TypeRest'
      BY <1>0, <1>13, ItemsAssumption DEF TypeRest, Phases, Drawn, Done
    <2> QED  BY <2>1, <2>2
  <1> QED
    BY <1>1, <1>2, <1>3, <1>4, <1>5, <1>6, <1>7, <1>8, <1>9, <1>10, <1>11, <1>12, <1>13 DEF
       Core1

--------------------------------------------------------------------------------
(* The memory the two cores share.                                                 *)
LEMMA WorkerMemory == Memory /\ Worker => Memory'
  <1> SUFFICES ASSUME Memory, Worker  PROVE Memory'
    OBVIOUS
  <1> USE DEF Memory, Flagged, DrawnFrom, RingFirst, Drawing, At, Core1Still, memory, core1
  <1>1. CASE Acquire
    BY <1>1 DEF Acquire
  <1>2. CASE Prepare
    BY <1>2 DEF Prepare, Quiescent, Flag
  <1>3. CASE Fetch
    BY <1>3 DEF Fetch
  <1>4. CASE Fetched
    BY <1>4 DEF Fetched
  <1>5. CASE Publish
    BY <1>5 DEF Publish
  <1>6. CASE Published
    BY <1>6 DEF Published
  <1>7. CASE ShowCard
    BY <1>7 DEF ShowCard
  <1>8. CASE Dwell
    BY <1>8 DEF Dwell
  <1>9. CASE Cut
    BY <1>9 DEF Cut
  <1>10. CASE CutOver
    BY <1>10 DEF CutOver, Quiescent, CutShown
  <1>11. CASE Unflag
    BY <1>11 DEF Unflag, Flag
  <1>12. CASE Unlink
    BY <1>12 DEF Unlink
  <1>13. CASE Release
    BY <1>13 DEF Release, Quiescent
  <1>14. CASE AllocateRing
    BY <1>14 DEF AllocateRing
  <1>15. CASE Arm
    BY <1>15 DEF Arm
  <1>16. CASE EnterLive
    BY <1>16 DEF EnterLive, Flag
  <1>17. CASE LeaveLive
    BY <1>17 DEF LeaveLive
  <1>18. CASE ExitLive
    BY <1>18 DEF ExitLive, HoldLast
  <1>19. CASE Unvideo
    BY <1>19 DEF Unvideo, Flag
  <1>20. CASE FreeRing
    BY <1>20 DEF FreeRing, Quiescent
  <1> QED
    BY <1>1, <1>2, <1>3, <1>4, <1>5, <1>6, <1>7, <1>8, <1>9, <1>10, <1>11, <1>12, <1>13, <1>14,
       <1>15, <1>16, <1>17, <1>18, <1>19, <1>20 DEF Worker

LEMMA Core1Memory == Memory /\ TypeOK /\ Core1 => Memory'
  <1> SUFFICES ASSUME Memory, TypeOK, Core1  PROVE Memory'
    OBVIOUS
  <1>0. streaming \in BOOLEAN /\ dirty \in BOOLEAN /\ phase \in Phases
    BY DEF TypeOK
  <1> USE DEF Memory, Flagged, DrawnFrom, RingFirst, Drawing, Tick, Core0Still, Dark, memory,
     Phases
  <1>1. CASE Look
    BY <1>1, <1>0 DEF Look
  <1>2. CASE Copy
    BY <1>2, <1>0 DEF Copy
  <1>3. CASE Copying
    BY <1>3, <1>0 DEF Copying
  <1>4. CASE Check
    BY <1>4, <1>0 DEF Check
  <1>5. CASE Decide
    BY <1>5, <1>0 DEF Decide
  <1>6. CASE Peek
    BY <1>6, <1>0 DEF Peek
  <1>7. CASE Peeking
    BY <1>7, <1>0 DEF Peeking
  <1>8. CASE Render
    BY <1>8, <1>0 DEF Render
  <1>9. CASE Blank
    BY <1>9, <1>0 DEF Blank, Done
  <1>10. CASE Frame
    BY <1>10, <1>0 DEF Frame, Done
  <1>11. CASE Framed
    BY <1>11, <1>0 DEF Framed, Done
  <1>12. CASE DrawCard
    BY <1>12, <1>0 DEF DrawCard
  <1>13. CASE Drawn
    BY <1>13, <1>0 DEF Drawn, Done
  <1> QED
    BY <1>1, <1>2, <1>3, <1>4, <1>5, <1>6, <1>7, <1>8, <1>9, <1>10, <1>11, <1>12, <1>13 DEF
       Core1

--------------------------------------------------------------------------------
(* The card and its copy.  The worker writes the card in two steps, the number odd *)
(* in between, or flips one of its flags and moves the number on by two.           *)
Flip == wpc # "publishing" /\ wpc' # "publishing" /\ \E b \in BOOLEAN : Flag("poster", b) \/ Flag("video", b)
NoWrite == (wpc = "publishing" <=> wpc' = "publishing") /\ UNCHANGED <<seq, liveCard>>

LEMMA WorkerWrites == Worker => Publish \/ Published \/ Flip \/ NoWrite
  <1> SUFFICES ASSUME Worker  PROVE Publish \/ Published \/ Flip \/ NoWrite
    OBVIOUS
  <1>1. CASE Prepare \/ Unflag \/ EnterLive \/ Unvideo
    BY <1>1, Zenon DEF Prepare, Unflag, EnterLive, Unvideo, Flip, NoWrite, At, shown
  <1>2. CASE ~(Prepare \/ Unflag \/ EnterLive \/ Unvideo)
    BY <1>2 DEF Worker, NoWrite, At, shown, Acquire, Fetch, Fetched, ShowCard, Dwell, Cut,
       CutOver, Unlink, Release, AllocateRing, Arm, LeaveLive, ExitLive, FreeRing, HoldLast
  <1> QED  BY <1>1, <1>2

LEMMA WorkerCopied == IInv /\ Worker => Copied'
  <1> SUFFICES ASSUME IInv, Worker  PROVE Copied'
    OBVIOUS
  <1> USE DEF Copied, core1
  <1>0. /\ seq \in Nat /\ s1 \in Nat /\ lastSeq \in Nat /\ liveCard \in Cards
        /\ UNCHANGED core1
    BY WorkerKeeps, TypeParts DEF IInv, TypeRest
  <1>1. SeqLock /\ CopyOfNow /\ CardWhole /\ CardKnown
    BY DEF IInv
  <1>2. ASSUME seq' = seq + 1 \/ seq' = seq + 2
        PROVE  CopyOfNow' /\ CardWhole' /\ CardKnown'
    <2>1. seq' # s1 /\ (seq' # lastSeq \/ seq' % 2 # 0)
      BY <1>0, <1>1, <1>2 DEF SeqLock
    <2> QED  BY <2>1, <1>0, <1>1 DEF CopyOfNow, CardWhole, CardKnown
  <1>3. CASE NoWrite
    BY <1>0, <1>1, <1>3 DEF NoWrite, SeqLock, CopyOfNow, CardWhole, CardKnown
  <1>4. CASE Publish
    <2>1. wpc = "publish" /\ wpc' = "publishing" /\ seq' = seq + 1
      BY <1>4 DEF Publish, At
    <2>2. seq % 2 = 0 /\ seq' % 2 = 1
      BY <2>1, <1>0, <1>1, Parity DEF SeqLock
    <2>3. SeqLock'
      BY <2>1, <2>2, <1>0, <1>1 DEF SeqLock
    <2> QED  BY <1>2, <2>1, <2>3
  <1>5. CASE Published
    <2>1. wpc = "publishing" /\ wpc' = "publish3" /\ liveCard'.of = liveCard'.title
      BY <1>5 DEF Published, At
    <2>2. seq' = seq + 1 /\ seq' % 2 = 0
      BY <1>5, <2>1, <1>0, <1>1, Parity DEF SeqLock, Published
    <2>3. SeqLock'
      BY <2>1, <2>2, <1>0, <1>1 DEF SeqLock
    <2> QED  BY <1>2, <2>2, <2>3
  <1>6. CASE Flip
    <2>1. wpc # "publishing" /\ wpc' # "publishing" /\ seq' = seq + 2
      BY <1>6, Zenon DEF Flip, Flag
    <2>2. liveCard'.of = liveCard.of /\ liveCard'.title = liveCard.title
      <3>1. PICK b \in BOOLEAN : Flag("poster", b) \/ Flag("video", b)
        BY <1>6, Zenon DEF Flip
      <3> QED  BY <3>1, <1>0 DEF Flag, Cards
    <2>3. seq' % 2 = 0
      BY <2>1, <1>0, <1>1, Parity DEF SeqLock
    <2>4. SeqLock'
      BY <2>1, <2>2, <2>3, <1>0, <1>1 DEF SeqLock
    <2> QED  BY <1>2, <2>1, <2>4
  <1> QED  BY <1>3, <1>4, <1>5, <1>6, WorkerWrites

LEMMA Core1Copied == IInv /\ Core1 => Copied'
  <1> SUFFICES ASSUME IInv, Core1  PROVE Copied'
    OBVIOUS
  <1> USE DEF Copied, Tick
  <1>0. /\ seq \in Nat /\ s1 \in Nat /\ lastSeq \in Nat
        /\ liveCard \in Cards /\ temp \in Cards
        /\ cpc \in {"idle", "copy", "copying", "check", "decide", "peek", "peeking", "render",
                    "blank", "frame", "framing", "card", "drawing"}
    BY TypeParts DEF IInv, TypeRest
  <1>1. SeqLock /\ CopyOfNow /\ CardWhole /\ CardKnown
    BY DEF IInv
  <1>2. UNCHANGED <<seq, liveCard, wpc>>
    BY Core1Keeps DEF worker, shown
  <1>3. CASE Look
    BY <1>0, <1>1, <1>2, <1>3, Parity DEF Look, SeqLock, CopyOfNow, CardWhole, CardKnown
  <1>4. CASE Copy
    BY <1>0, <1>1, <1>2, <1>4 DEF Copy, Cards, SeqLock, CopyOfNow, CardWhole, CardKnown
  <1>5. CASE Copying
    BY <1>0, <1>1, <1>2, <1>5 DEF Copying, Cards, SeqLock, CopyOfNow, CardWhole, CardKnown
  <1>6. CASE Check
    BY <1>0, <1>1, <1>2, <1>6 DEF Check, SeqLock, CopyOfNow, CardWhole, CardKnown
  <1>7. CASE ~(Look \/ Copy \/ Copying \/ Check)
    <2>1. /\ UNCHANGED <<s1, temp, card, lastSeq>>
          /\ cpc \notin {"idle", "copy", "copying", "check"}
          /\ cpc' \notin {"copy", "copying", "check"}
      <3>1. CASE Decide
        BY <3>1 DEF Decide
      <3>2. CASE Peek
        BY <3>2 DEF Peek
      <3>3. CASE Peeking
        BY <3>3 DEF Peeking
      <3>4. CASE Render
        BY <3>4, TypeParts DEF Render, IInv, TypeRest, Phases
      <3>5. CASE Blank
        BY <3>5 DEF Blank, Done
      <3>6. CASE Frame
        BY <3>6 DEF Frame, Done
      <3>7. CASE Framed
        BY <3>7 DEF Framed, Done
      <3>8. CASE DrawCard
        BY <3>8 DEF DrawCard
      <3>9. CASE Drawn
        BY <3>9 DEF Drawn, Done
      <3> QED
        BY <3>1, <3>2, <3>3, <3>4, <3>5, <3>6, <3>7, <3>8, <3>9, <1>7 DEF Core1
    <2> QED  BY <2>1, <1>1, <1>2 DEF SeqLock, CopyOfNow, CardWhole, CardKnown
  <1> QED  BY <1>3, <1>4, <1>5, <1>6, <1>7

--------------------------------------------------------------------------------
(* The poster and the text beside it.                                              *)
LEMMA WorkerPoster == IInv /\ Worker => PosterOf'
  <1> SUFFICES ASSUME IInv, Worker  PROVE PosterOf'
    OBVIOUS
  <1>0. PosterOf /\ liveCard \in Cards
    BY TypeParts DEF IInv, TypeRest
  <1> USE DEF PosterOf, Shown, Stripped, Cards, At, Busy, shown, memory
  <1>1. CASE Acquire
    BY <1>1, <1>0 DEF Acquire
  <1>2. CASE Prepare
    BY <1>2, <1>0 DEF Prepare, Quiescent, Flag
  <1>3. CASE Fetch
    BY <1>3, <1>0 DEF Fetch
  <1>4. CASE Fetched
    BY <1>4, <1>0 DEF Fetched
  <1>5. CASE Publish
    BY <1>5, <1>0 DEF Publish
  <1>6. CASE Published
    BY <1>6, <1>0 DEF Published
  <1>7. CASE ShowCard
    BY <1>7, <1>0 DEF ShowCard
  <1>8. CASE Dwell
    BY <1>8, <1>0 DEF Dwell
  <1>9. CASE Cut
    BY <1>9, <1>0 DEF Cut
  <1>10. CASE CutOver
    BY <1>10, <1>0 DEF CutOver, Quiescent, CutShown
  <1>11. CASE Unflag
    BY <1>11, <1>0 DEF Unflag, Flag
  <1>12. CASE Unlink
    BY <1>12, <1>0 DEF Unlink
  <1>13. CASE Release
    BY <1>13, <1>0 DEF Release, Quiescent
  <1>14. CASE AllocateRing
    BY <1>14, <1>0 DEF AllocateRing
  <1>15. CASE Arm
    BY <1>15, <1>0 DEF Arm
  <1>16. CASE EnterLive
    BY <1>16, <1>0 DEF EnterLive, Flag
  <1>17. CASE LeaveLive
    BY <1>17, <1>0 DEF LeaveLive
  <1>18. CASE ExitLive
    BY <1>18, <1>0 DEF ExitLive, HoldLast
  <1>19. CASE Unvideo
    BY <1>19, <1>0 DEF Unvideo, Flag
  <1>20. CASE FreeRing
    BY <1>20, <1>0 DEF FreeRing, Quiescent
  <1> QED
    BY <1>1, <1>2, <1>3, <1>4, <1>5, <1>6, <1>7, <1>8, <1>9, <1>10, <1>11, <1>12, <1>13, <1>14,
       <1>15, <1>16, <1>17, <1>18, <1>19, <1>20 DEF Worker

LEMMA WorkerPhase == IInv /\ Worker => PhaseOf'
  <1> SUFFICES ASSUME IInv, Worker  PROVE PhaseOf'
    OBVIOUS
  <1>0. /\ PhaseOf /\ liveCard \in Cards
        /\ wpc \in Stripped => ~liveCard.poster
    BY TypeParts DEF IInv, TypeRest, PosterOf
  <1>1. wpc' = "publishing" => seq' # s1
    <2>1. CASE Publish
      BY <2>1, TypeParts DEF Publish, IInv, TypeRest, Copied, SeqLock
    <2>2. CASE ~Publish
      BY <2>2 DEF Worker, At, Acquire, Prepare, Fetch, Fetched, Published, ShowCard, Dwell,
         Cut, CutOver, Unflag, Unlink, Release, AllocateRing, Arm, EnterLive, LeaveLive,
         ExitLive, Unvideo, FreeRing, HoldLast
    <2> QED  BY <2>1, <2>2
  <1> USE DEF PhaseOf, Early, Stripped, Cards, At, Busy, Core1Still, shown, memory, core1
  <1>2. CASE Acquire
    BY <1>2, <1>0, <1>1 DEF Acquire
  <1>3. CASE Prepare
    BY <1>3, <1>0, <1>1 DEF Prepare, Quiescent, Flag
  <1>4. CASE Fetch
    BY <1>4, <1>0, <1>1 DEF Fetch
  <1>5. CASE Fetched
    BY <1>5, <1>0, <1>1 DEF Fetched
  <1>6. CASE Publish
    BY <1>6, <1>0, <1>1 DEF Publish
  <1>7. CASE Published
    BY <1>7, <1>0, <1>1 DEF Published
  <1>8. CASE ShowCard
    BY <1>8, <1>0, <1>1 DEF ShowCard
  <1>9. CASE Dwell
    BY <1>9, <1>0, <1>1 DEF Dwell
  <1>10. CASE Cut
    BY <1>10, <1>0, <1>1 DEF Cut
  <1>11. CASE CutOver
    BY <1>11, <1>0, <1>1 DEF CutOver, Quiescent, CutShown
  <1>12. CASE Unflag
    BY <1>12, <1>0, <1>1 DEF Unflag, Flag
  <1>13. CASE Unlink
    BY <1>13, <1>0, <1>1 DEF Unlink
  <1>14. CASE Release
    BY <1>14, <1>0, <1>1 DEF Release, Quiescent
  <1>15. CASE AllocateRing
    BY <1>15, <1>0, <1>1 DEF AllocateRing
  <1>16. CASE Arm
    BY <1>16, <1>0, <1>1 DEF Arm
  <1>17. CASE EnterLive
    BY <1>17, <1>0, <1>1 DEF EnterLive, Flag
  <1>18. CASE LeaveLive
    BY <1>18, <1>0, <1>1 DEF LeaveLive
  <1>19. CASE ExitLive
    BY <1>19, <1>0, <1>1 DEF ExitLive, HoldLast
  <1>20. CASE Unvideo
    BY <1>20, <1>0, <1>1 DEF Unvideo, Flag
  <1>21. CASE FreeRing
    BY <1>21, <1>0, <1>1 DEF FreeRing, Quiescent
  <1> QED
    BY <1>2, <1>3, <1>4, <1>5, <1>6, <1>7, <1>8, <1>9, <1>10, <1>11, <1>12, <1>13, <1>14,
       <1>15, <1>16, <1>17, <1>18, <1>19, <1>20, <1>21 DEF Worker

LEMMA Core1Phase == IInv /\ Core1 => PhaseOf'
  <1> SUFFICES ASSUME IInv, Core1  PROVE PhaseOf'
    OBVIOUS
  <1>0. /\ PhaseOf /\ liveCard \in Cards /\ temp \in Cards /\ phase \in Phases
        /\ UNCHANGED <<wpc, stayed, phase, liveCard, seq>>
    BY TypeParts, Core1Keeps DEF IInv, TypeRest, worker, shown
  <1> USE DEF PhaseOf, Cards, Tick, Phases
  <1>1. CASE Look
    BY <1>1, <1>0 DEF Look
  <1>2. CASE Copy
    BY <1>2, <1>0 DEF Copy
  <1>3. CASE Copying
    BY <1>3, <1>0 DEF Copying
  <1>4. CASE Check
    BY <1>4, <1>0 DEF Check
  <1>5. CASE Decide
    BY <1>5, <1>0 DEF Decide
  <1>6. CASE Peek
    BY <1>6, <1>0 DEF Peek
  <1>7. CASE Peeking
    BY <1>7, <1>0 DEF Peeking
  <1>8. CASE Render
    BY <1>8, <1>0 DEF Render
  <1>9. CASE Blank
    BY <1>9, <1>0 DEF Blank, Done
  <1>10. CASE Frame
    BY <1>10, <1>0 DEF Frame, Done
  <1>11. CASE Framed
    BY <1>11, <1>0 DEF Framed, Done
  <1>12. CASE DrawCard
    BY <1>12, <1>0 DEF DrawCard
  <1>13. CASE Drawn
    BY <1>13, <1>0 DEF Drawn, Done
  <1> QED
    BY <1>1, <1>2, <1>3, <1>4, <1>5, <1>6, <1>7, <1>8, <1>9, <1>10, <1>11, <1>12, <1>13 DEF
       Core1

(* What the invariant is for: between Core 1's look at the sequence number and its *)
(* drawing, either the number has moved or its card is the live one.               *)
LEMMA Beside == IInv => PosterBesideItsCard
  <1> SUFFICES ASSUME IInv, cpc = "drawing", card.poster, pointer = "good", seq = s1
               PROVE  pixels = card.of \/ stayed
    BY DEF PosterBesideItsCard
  <1>1. CASE wpc = "publishing"
    BY <1>1 DEF IInv, PhaseOf, Early
  <1>2. CASE wpc # "publishing"
    <2>1. seq % 2 = 0 /\ lastSeq = seq
      BY <1>2, Parity, TypeParts DEF IInv, TypeRest, Copied, SeqLock, CopyOfNow
    <2>2. card = liveCard
      BY <2>1 DEF IInv, Copied, CardKnown
    <2> QED  BY <2>2 DEF IInv, PosterOf
  <1> QED  BY <1>1, <1>2

(* Withdrawing the engine, or doing nothing, touches nothing the two cores share.  *)
LEMMA NothingShared ==
    ASSUME IInv, want' \in BOOLEAN,
           UNCHANGED <<wpc, item, has, fetched, shown, memory, core1, blit, blanked, pointer, stayed>>
    PROVE  IInv'
  <1> USE DEF shown, memory, core1
  <1>1. TypeOK'
    <2>1. TypeBits'
      BY TypeParts, Zenon DEF IInv, TypeBits
    <2>2. TypeRest'
      BY TypeParts DEF IInv, TypeRest
    <2> QED  BY <2>1, <2>2, Zenon DEF TypeOK, TypeBits, TypeRest
  <1>2. Memory' /\ Copied'
    BY DEF IInv, Memory, Flagged, DrawnFrom, RingFirst, Copied, SeqLock, CopyOfNow,
           CardWhole, CardKnown
  <1>3. PosterOf' /\ PhaseOf'
    BY DEF IInv, PosterOf, PhaseOf
  <1> QED  BY <1>1, <1>2, <1>3 DEF IInv

LEMMA NextInv == IInv /\ [Next]_vars => IInv'
  <1> SUFFICES ASSUME IInv, [Next]_vars  PROVE IInv'
    OBVIOUS
  <1>1. CASE Worker
    BY <1>1, WorkerType, WorkerMemory, WorkerCopied, WorkerPoster, WorkerPhase DEF IInv
  <1>2. CASE Core1
    <2>1. PosterOf'
      BY <1>2, Core1Keeps DEF IInv, PosterOf, worker, shown, memory
    <2> QED  BY <1>2, <2>1, Core1Type, Core1Memory, Core1Copied, Core1Phase DEF IInv
  <1>3. CASE Withdraw
    BY <1>3, NothingShared DEF Withdraw
  <1>4. CASE UNCHANGED vars
    <2>1. want' \in BOOLEAN
      BY <1>4, TypeParts DEF IInv, TypeBits, vars, worker
    <2> QED  BY <1>4, <2>1, NothingShared DEF vars, worker
  <1> QED  BY <1>1, <1>2, <1>3, <1>4 DEF Next

--------------------------------------------------------------------------------
(* Every behaviour stays inside the invariant, for any number of items.            *)
THEOREM Invariant == Spec => []IInv
  BY InitInv, NextInv, PTL DEF Spec

(* The variables of the two cores keep the types of the firmware's.                *)
THEOREM TypeCorrect == Spec => []TypeOK
  <1>1. IInv => TypeOK
    BY DEF IInv
  <1> QED  BY <1>1, Invariant, PTL

(* Core 1 never reads a poster that Core 0 has freed: freePosterAfterBlank() takes *)
(* the pointer away before it waits for the drawing.                               *)
THEOREM PosterSafe == Spec => []PosterNotDangling
  <1>1. IInv => PosterNotDangling
    BY DEF IInv, Memory, DrawnFrom, PosterNotDangling
  <1> QED  BY <1>1, Invariant, PTL

(* Core 1 never decodes a frame from a ring without storage.                       *)
THEOREM RingSafe == Spec => []RingThereWhenDecoded
  <1>1. IInv => RingThereWhenDecoded
    BY DEF IInv, Memory, RingFirst, RingThereWhenDecoded
  <1> QED  BY <1>1, Invariant, PTL

(* The card Core 1 keeps is never half of one and half of another.                 *)
THEOREM CardNeverTorn == Spec => []CardWhole
  <1>1. IInv => CardWhole
    BY DEF IInv, Copied
  <1> QED  BY <1>1, Invariant, PTL

(* A poster is drawn beside its own text, but for the two cases the code allows.   *)
THEOREM PosterBeside == Spec => []PosterBesideItsCard
  BY Beside, Invariant, PTL
================================================================================
