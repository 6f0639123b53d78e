----------------------------- MODULE ShowcaseCard ------------------------------
(* What a Media Showcase engine shows, item after item, on a board without PSRAM   *)
(* (src/engines/MediaShowcaseEngines.cpp, showcase/ShowcaseStreamPlayer.cpp).      *)
(* The worker on Core 0 writes the card under a sequence lock, fetches its poster  *)
(* into a buffer that the card's drawing reads, frees that buffer to make room for *)
(* the ring of the stream, and frees the ring when the stream is over.  Core 1     *)
(* copies the card, draws the card, the black cut or the frames, and raises a flag *)
(* around every drawing: the worker frees nothing while the flag is up.            *)
EXTENDS Naturals

CONSTANT Items       \* bound on the items of the turn
ASSUME ItemsAssumption == Items \in Nat \ {0}

VARIABLES
    want,       \* m_wantActive
    wpc,        \* where the worker is
    item,       \* the item it works on, 0 before the first
    has,        \* what the item brings: a poster, a stream
    fetched,    \* card.hasPoster of the card it is about to publish
    phase,      \* m_phase
    seq,        \* m_seq, odd while the card is being written
    liveCard,   \* m_liveCard; "title" stands for its text, written after "of"
    poster,     \* m_poster565 is not null
    pixels,     \* the item whose poster fills the buffer, 0 when none does
    ring,       \* the ring has its storage
    streaming,  \* m_execMode is SpscRing
    blit,       \* m_renderBlitSeq is odd
    blanked,    \* m_blankPresentedSeq has moved since the cut began
    cpc,        \* where Core 1 is in its tick
    s1, temp,   \* its copy of the card and the sequence number it began with
    card,       \* m_renderCard
    lastSeq, lastPhase, dirty,
    pointer,    \* the poster it is drawing from: "none", "good", "dangling"
    stayed      \* the last item ended with its card still on the panel

worker == <<want, wpc, item, has, fetched>>
shown  == <<phase, seq, liveCard>>
memory == <<poster, pixels, ring, streaming>>
core1  == <<cpc, s1, temp, card, lastSeq, lastPhase, dirty>>
vars == <<worker, shown, memory, core1, blit, blanked, pointer, stayed>>

NoCard == [of |-> 0, title |-> 0, poster |-> FALSE, video |-> FALSE]
Cards == [of: 0..Items, title: 0..Items, poster: BOOLEAN, video: BOOLEAN]
Phases == {"Card", "StreamBlank", "LiveStream", "StreamEndHold"}

TypeOK ==
    /\ {want, fetched, poster, ring, streaming, blit, blanked, dirty, stayed} \subseteq BOOLEAN
    /\ wpc \in {"acquire", "prepare", "fetch", "fetching", "publish", "publishing", "publish3",
                "dwell", "cut", "cutting", "unflag", "unlink", "release", "ring", "arm",
                "enter", "live", "exit", "hold", "unvideo", "settle", "gone"}
    /\ item \in 0..Items /\ has \in [poster: BOOLEAN, stream: BOOLEAN]
    /\ phase \in Phases /\ lastPhase \in Phases \cup {"none"}
    /\ seq \in Nat /\ s1 \in Nat /\ lastSeq \in Nat
    /\ {liveCard, temp, card} \subseteq Cards
    /\ pixels \in 0..Items
    /\ cpc \in {"idle", "copy", "copying", "check", "decide", "peek", "peeking", "render",
                "blank", "frame", "framing", "card", "drawing"}
    /\ pointer \in {"none", "good", "dangling"}

(* A turn that has just begun: activate() has allocated the poster buffer.         *)
Init ==
    /\ want = TRUE /\ wpc = "acquire" /\ item = 0 /\ fetched = FALSE
    /\ has = [poster |-> FALSE, stream |-> FALSE]
    /\ phase = "Card" /\ seq = 0 /\ liveCard = NoCard
    /\ poster = TRUE /\ pixels = 0 /\ ring = FALSE /\ streaming = FALSE
    /\ blit = FALSE /\ blanked = FALSE
    /\ cpc = "idle" /\ s1 = 0 /\ temp = NoCard /\ card = NoCard
    /\ lastSeq = 1 /\ lastPhase = "none" /\ dirty = FALSE
    /\ pointer = "none" /\ stayed = FALSE

--------------------------------------------------------------------------------
(* Core 0. *)
At(from, to) == wpc = from /\ wpc' = to
Busy == UNCHANGED <<want, item, has, fetched>>
Core1Still == UNCHANGED <<core1, pointer>>

(* The seq-locked write of one field of the card.                                  *)
Flag(field, value) ==
    /\ liveCard' = [liveCard EXCEPT ![field] = value]
    /\ seq' = seq + 2

(* waitRenderBlitQuiescent(): no drawing takes the 50 ms the wait is bounded by.   *)
NotAwaited == TRUE                                                 \* mutant
Quiescent == ~blit

(* The next item of the server.                                                    *)
Acquire ==
    /\ wpc = "acquire" /\ UNCHANGED <<want, shown, memory, blit, blanked>>
    /\ \/ /\ want /\ item < Items /\ wpc' = "prepare"
          /\ item' = item + 1 /\ has' \in [poster: BOOLEAN, stream: BOOLEAN]
          /\ fetched' = FALSE
       \/ ~want /\ wpc' = "gone" /\ UNCHANGED <<item, has, fetched>>
    /\ Core1Still /\ UNCHANGED stayed

(* executeAcquiredItem(), before the card goes out: a stream that is still armed   *)
(* is disarmed, the ring freed, and a poster buffer allocated again if need be.    *)
Prepare ==
    /\ At("prepare", "fetch") /\ Quiescent
    /\ IF streaming \/ liveCard.video
       THEN /\ phase' = "StreamEndHold" /\ streaming' = FALSE /\ Flag("video", FALSE)
       ELSE UNCHANGED <<shown, streaming>>
    /\ ring' = FALSE
    /\ \/ UNCHANGED <<poster, pixels>>
       \/ has.poster /\ ~poster /\ poster' = TRUE /\ pixels' = 0
    /\ Busy /\ Core1Still /\ UNCHANGED <<blit, blanked, stayed>>

(* fetchBinaryPosterRgb565() writes the buffer while it receives.                  *)
Fetch ==
    /\ wpc = "fetch" /\ wpc' = (IF has.poster /\ poster THEN "fetching" ELSE "publish")
    /\ IF has.poster /\ poster
       THEN pixels' = 0 ELSE UNCHANGED pixels
    /\ Busy /\ Core1Still
    /\ UNCHANGED <<shown, poster, ring, streaming, blit, blanked, stayed>>
Fetched ==
    /\ At("fetching", "publish")
    /\ \/ pixels' = item /\ fetched' = TRUE
       \/ UNCHANGED <<pixels, fetched>>
    /\ Core1Still
    /\ UNCHANGED <<want, item, has, shown, poster, ring, streaming, blit, blanked, stayed>>

(* m_liveCard = card, between two increments of the sequence number.               *)
PublishUnmarked ==                                                 \* mutant
    /\ At("publish", "publishing") /\ seq' = seq
    /\ liveCard' = [liveCard EXCEPT !.of = item]
    /\ Busy /\ Core1Still /\ UNCHANGED <<phase, memory, blit, blanked, stayed>>
Publish ==
    /\ At("publish", "publishing") /\ seq' = seq + 1
    /\ liveCard' = [liveCard EXCEPT !.of = item]
    /\ Busy /\ Core1Still /\ UNCHANGED <<phase, memory, blit, blanked, stayed>>
Published ==
    /\ At("publishing", "publish3")
    /\ seq' = IF seq % 2 = 1 THEN seq + 1 ELSE seq + 2
    /\ liveCard' = [of |-> item, title |-> item, poster |-> fetched, video |-> FALSE]
    /\ Busy /\ Core1Still /\ UNCHANGED <<phase, memory, blit, blanked, stayed>>
ShowAfterHold ==                                                   \* mutant
    /\ At("publish3", "dwell") /\ phase' = (IF phase = "StreamBlank" THEN phase ELSE "Card")
    /\ stayed' = FALSE
    /\ Busy /\ Core1Still /\ UNCHANGED <<seq, liveCard, memory, blit, blanked>>
ShowCard ==
    /\ At("publish3", "dwell") /\ phase' = "Card" /\ stayed' = FALSE
    /\ Busy /\ Core1Still /\ UNCHANGED <<seq, liveCard, memory, blit, blanked>>

(* The card stays up while its stream is downloaded, seconds in which Core 1 has   *)
(* copied and shown it; without one, or when the download fails, it is all there is.  *)
Dwell ==
    /\ wpc = "dwell" /\ lastSeq = seq /\ lastPhase = phase /\ wpc' \in {"acquire"} \cup (IF has.stream /\ want THEN {"cut"} ELSE {})
    /\ stayed' = (wpc' = "acquire")
    /\ Busy /\ Core1Still /\ UNCHANGED <<shown, memory, blit, blanked>>

(* blankCardBeforeStream(): Core 1 gets the time to present a black frame.         *)
Cut ==
    /\ At("cut", "cutting") /\ phase' = "StreamBlank" /\ blanked' = FALSE
    /\ Busy /\ Core1Still /\ UNCHANGED <<seq, liveCard, memory, blit, stayed>>
CutShown == blanked \/ ~want
CutOver ==
    /\ At("cutting", "unflag") /\ CutShown /\ Quiescent
    /\ Busy /\ Core1Still /\ UNCHANGED <<shown, memory, blit, blanked, stayed>>

(* freePosterAfterBlank(): the card loses its poster, then the pointer goes, then, *)
(* when no drawing is under way, the memory.                                       *)
Unflag ==
    /\ At("unflag", "unlink")
    /\ IF liveCard.poster THEN Flag("poster", FALSE) ELSE UNCHANGED <<seq, liveCard>>
    /\ Busy /\ Core1Still /\ UNCHANGED <<phase, memory, blit, blanked, stayed>>
Unlink ==
    /\ At("unlink", "release") /\ poster' = FALSE
    /\ Busy /\ Core1Still /\ UNCHANGED <<shown, pixels, ring, streaming, blit, blanked, stayed>>
Release ==
    /\ At("release", "ring") /\ Quiescent
    /\ pointer' = IF pointer = "good" THEN "dangling" ELSE pointer
    /\ pixels' = 0
    /\ Busy /\ UNCHANGED <<shown, poster, ring, streaming, core1, blit, blanked, stayed>>

(* The ring may be refused: the item ends and the panel stays black.               *)
AllocateRing ==
    /\ wpc = "ring"
    /\ \/ wpc' = "arm" /\ ring' = TRUE
       \/ wpc' = "acquire" /\ UNCHANGED ring
    /\ Busy /\ Core1Still
    /\ UNCHANGED <<shown, poster, pixels, streaming, blit, blanked, stayed>>
Arm ==
    /\ At("arm", "enter") /\ streaming' = TRUE
    /\ Busy /\ Core1Still /\ UNCHANGED <<shown, poster, pixels, ring, blit, blanked, stayed>>
EnterLive ==
    /\ At("enter", "live") /\ Flag("video", TRUE) /\ phase' = "LiveStream"
    /\ Busy /\ Core1Still /\ UNCHANGED <<memory, blit, blanked, stayed>>
(* The stream ends, stalls or is stopped.                                          *)
LeaveLive ==
    /\ At("live", "hold") /\ streaming' = FALSE
    /\ Busy /\ Core1Still /\ UNCHANGED <<shown, poster, pixels, ring, blit, blanked, stayed>>
HoldLast(p) ==
    /\ At("hold", "unvideo") /\ phase' = p
    /\ Busy /\ Core1Still /\ UNCHANGED <<seq, liveCard, memory, blit, blanked, stayed>>
BackToCard == HoldLast("Card")                                     \* mutant
ExitLive == HoldLast("StreamEndHold")
Unvideo ==
    /\ At("unvideo", "settle") /\ Flag("video", FALSE)
    /\ Busy /\ Core1Still /\ UNCHANGED <<phase, memory, blit, blanked, stayed>>
FreeRing ==
    /\ At("settle", "acquire") /\ Quiescent /\ ring' = FALSE
    /\ Busy /\ Core1Still
    /\ UNCHANGED <<shown, poster, pixels, streaming, blit, blanked, stayed>>

Worker ==
    \/ Acquire \/ Prepare \/ Fetch \/ Fetched \/ Publish \/ Published \/ ShowCard \/ Dwell
    \/ Cut \/ CutOver \/ Unflag \/ Unlink \/ Release \/ AllocateRing \/ Arm
    \/ EnterLive \/ LeaveLive \/ ExitLive \/ Unvideo \/ FreeRing

--------------------------------------------------------------------------------
(* Core 1: update(), then render(). *)
Core0Still == UNCHANGED <<want, wpc, item, has, fetched, shown, memory, stayed>>
Tick(from, to) == cpc = from /\ cpc' = to
Dark == UNCHANGED <<blit, blanked, pointer>>

(* The card is copied when its sequence number is even and new, and kept if the    *)
(* number has not moved.                                                           *)
Look ==
    /\ cpc = "idle" /\ s1' = seq
    /\ cpc' = IF seq % 2 = 0 /\ seq # lastSeq THEN "copy" ELSE "decide"
    /\ Core0Still /\ Dark /\ UNCHANGED <<temp, card, lastSeq, lastPhase, dirty>>
Copy ==
    /\ Tick("copy", "copying") /\ temp' = [liveCard EXCEPT !.title = temp.title]
    /\ Core0Still /\ Dark /\ UNCHANGED <<s1, card, lastSeq, lastPhase, dirty>>
Copying ==
    /\ Tick("copying", "check") /\ temp' = [temp EXCEPT !.title = liveCard.title]
    /\ Core0Still /\ Dark /\ UNCHANGED <<s1, card, lastSeq, lastPhase, dirty>>
Check ==
    /\ Tick("check", "decide")
    /\ IF seq = s1 THEN card' = temp /\ lastSeq' = s1 /\ dirty' = TRUE
                   ELSE UNCHANGED <<card, lastSeq, dirty>>
    /\ Core0Still /\ Dark /\ UNCHANGED <<s1, temp, lastPhase>>

(* Whether this tick draws; cards animate, frames are due, a held frame and a cut  *)
(* that was presented stay.                                                        *)
Decide ==
    /\ cpc = "decide" /\ lastPhase' = phase
    /\ cpc' = IF phase = "LiveStream" /\ streaming THEN "peek" ELSE "render"
    /\ LET due == dirty \/ phase # lastPhase IN
       dirty' \in CASE phase = "LiveStream" -> {due /\ streaming}
                    [] phase = "StreamEndHold" -> {FALSE}
                    [] phase = "StreamBlank" -> {due}
                    [] phase = "Card" -> {due, TRUE}
    /\ Core0Still /\ Dark /\ UNCHANGED <<s1, temp, card, lastSeq>>
(* shouldMarkCore1Dirty() looks at the mode once more, then into the ring.         *)
Peek ==
    /\ cpc = "peek" /\ cpc' = IF streaming THEN "peeking" ELSE "render"
    /\ Core0Still /\ Dark /\ UNCHANGED <<s1, temp, card, lastSeq, lastPhase, dirty>>
Peeking ==
    /\ Tick("peeking", "render") /\ dirty' \in {dirty, TRUE}
    /\ Core0Still /\ Dark /\ UNCHANGED <<s1, temp, card, lastSeq, lastPhase>>

Render ==
    /\ cpc = "render"
    /\ LET nothing == ~dirty \/ phase = "StreamEndHold" \/ (phase = "LiveStream" /\ ~streaming) IN
       /\ cpc' = CASE nothing -> "idle"
                   [] ~nothing /\ phase = "StreamBlank" -> "blank"
                   [] ~nothing /\ phase = "LiveStream" -> "frame"
                   [] ~nothing /\ phase = "Card" -> "card"
       /\ blit' = ~nothing
       /\ dirty' = (dirty /\ ~nothing)
    /\ Core0Still /\ UNCHANGED <<s1, temp, card, lastSeq, lastPhase, blanked, pointer>>
Done == cpc' = "idle" /\ blit' = FALSE /\ dirty' = FALSE
Blank ==
    /\ cpc = "blank" /\ Done /\ blanked' = TRUE
    /\ Core0Still /\ UNCHANGED <<s1, temp, card, lastSeq, lastPhase, pointer>>
(* renderFrameCore1() looks at the mode again, now that the flag is up.            *)
Frame ==
    /\ cpc = "frame"
    /\ IF streaming THEN cpc' = "framing" /\ UNCHANGED <<blit, dirty>> ELSE Done
    /\ Core0Still /\ UNCHANGED <<s1, temp, card, lastSeq, lastPhase, blanked, pointer>>
Framed ==
    /\ cpc = "framing" /\ Done
    /\ Core0Still /\ UNCHANGED <<s1, temp, card, lastSeq, lastPhase, blanked, pointer>>
DrawCard ==
    /\ Tick("card", "drawing") /\ pointer' = IF poster THEN "good" ELSE "none"
    /\ Core0Still /\ UNCHANGED <<s1, temp, card, lastSeq, lastPhase, dirty, blit, blanked>>
Drawn ==
    /\ cpc = "drawing" /\ Done /\ pointer' = "none"
    /\ Core0Still /\ UNCHANGED <<s1, temp, card, lastSeq, lastPhase, blanked>>

Core1 ==
    \/ Look \/ Copy \/ Copying \/ Check \/ Decide \/ Peek \/ Peeking \/ Render
    \/ Blank \/ Frame \/ Framed \/ DrawCard \/ Drawn

(* deactivate() and onConfigChanged() begin by withdrawing the engine.             *)
Withdraw ==
    /\ want /\ cpc = "idle" /\ want' = FALSE
    /\ UNCHANGED <<wpc, item, has, fetched, shown, memory, core1, blit, blanked, pointer, stayed>>

Next == Worker \/ Core1 \/ Withdraw
(* Every wait of the worker for Core 1 is bounded by time: it is never shut out.     *)
Spec == Init /\ [][Next]_vars /\ SF_vars(Worker) /\ WF_vars(Core1)

--------------------------------------------------------------------------------
(* No drawing reads a poster that was freed: the worker takes the pointer away and *)
(* then waits for the drawing that may have it (MediaShowcaseEngines.cpp:693-706,   *)
(* 3079-3092).                                                                     *)
PosterNotDangling == pointer # "dangling"

(* No frame is decoded from a ring without storage: the mode goes before the       *)
(* storage, with a wait in between (ShowcaseStreamPlayer.cpp:972-985).              *)
RingThereWhenDecoded == cpc = "framing" => ring

(* What is drawn is a card as it was published, never the head of one and the tail *)
(* of another.                                                                     *)
CardWhole == card.of = card.title

(* A poster is drawn beside the text of its own item, unless the item before had   *)
(* only its card to show or the new card came out during this very tick: the last  *)
(* frame of a stream, or its cut, keeps the next poster off the panel until its    *)
(* card is there (MediaShowcaseEngines.cpp:2717).                                  *)
PosterBesideItsCard ==
    cpc = "drawing" /\ card.poster /\ pointer = "good" => pixels = card.of \/ stayed \/ seq # s1

(* The black cut does not last: a stream or the next card follows.                 *)
CutEnds == phase = "StreamBlank" ~> phase # "StreamBlank" \/ ~want \/ item = Items
================================================================================
