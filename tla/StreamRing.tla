------------------------------- MODULE StreamRing ------------------------------
(* The ring through which a showcase clip goes from the SD card on Core 0 to the   *)
(* decoder on Core 1 (src/core/net/DmdzStreamClient.h, DmdzSpscByteRing;           *)
(* src/engines/showcase/ShowcaseStreamPlayer.cpp).  Its indices run from 0 to      *)
(* twice the capacity, so that a full ring and an empty one differ.  The producer  *)
(* moves batches, unless the decoder asks for the rest of its frame; the decoder   *)
(* takes whole frames, and frames longer than the ring in pieces.  A read of the   *)
(* card that fails loses what was on the card: the bytes that follow are not where *)
(* the decoder looks for them.  The n-th byte put into the ring is the number n.   *)
EXTENDS Naturals, Sequences

CONSTANTS
    Capacity,   \* the bytes of the ring
    Frames,     \* the payload lengths of the frames
    Batch,      \* free bytes that make a batch worth moving: 512
    Chunk,      \* the most one read of the card brings: 2048
    Pass,       \* the most one pass of the producer moves: 4096
    Trigger,    \* bytes from which a frame longer than the ring is begun
    Noise       \* what two bytes that are not a length may read as
ASSUME CapacityAssumption == Capacity \in Nat /\ Capacity >= 2
ASSUME FramesAssumption == Frames \in Seq(Nat)
ASSUME BatchAssumption == Batch \in 1..Capacity
ASSUME ChunkAssumption == Chunk \in Nat \ {0} /\ Pass \in Nat \ {0}
ASSUME TriggerAssumption == Trigger \in 2..Capacity
ASSUME NoiseAssumption == Noise \in SUBSET Nat /\ Noise # {}

(* Each frame is its length in two bytes, then its payload.                        *)
Wire(f) == 2 + Frames[f]
End[f \in 0..Len(Frames)] == IF f = 0 THEN 0 ELSE End[f - 1] + Wire(f)
Total == End[Len(Frames)]
ASSUME TotalAssumption == Total \in Nat

VARIABLES
    buf, head, tail,
    topUp,      \* m_spscConsumerNeedsTopUp
    ppc, room, passed,
    armed,      \* the decoder may play
    onCard,     \* sdWritePos: bytes of the clip on the card
    read,       \* sdReadPos
    sent,       \* bytes put into the ring
    gap,        \* those before the first one that was lost; Total if none was
    cpc, take,
    rest,       \* m_core1DecPartialRem
    misread,    \* what the next two bytes read as, if they are not a length
    frame,      \* frames shown
    over,       \* a frame could not be decoded, or there is nothing more to come
    got,        \* bytes that left the ring
    fed         \* the bytes the decoder was fed last

producer == <<ppc, room, passed, armed, onCard, read, sent, gap>>
decoder == <<cpc, take, rest, frame, got, fed>>
vars == <<buf, head, tail, topUp, producer, decoder, misread, over>>

--------------------------------------------------------------------------------
(* DmdzSpscByteRing. *)
OffsetOf(i) == IF i >= Capacity THEN i - Capacity ELSE i
(* Indices that wrap at the capacity: a full ring would look empty.                *)
AdvanceCell(i, n) == IF i + n >= Capacity THEN i + n - Capacity ELSE i + n  \* mutant
Advance(i, n) == IF i + n >= 2 * Capacity THEN i + n - 2 * Capacity ELSE i + n
Used == IF tail >= head THEN tail - head ELSE 2 * Capacity - head + tail
Free == Capacity - Used
Least(a, b) == IF a < b THEN a ELSE b
(* contiguousWriteCap() *)
Contiguous == Least(Free, Capacity - OffsetOf(tail))
(* How far a cell is from the next one to be read.                                 *)
Ahead(i) == IF i >= OffsetOf(head) THEN i - OffsetOf(head) ELSE i + Capacity - OffsetOf(head)

TypeOK ==
    /\ buf \in [0..(Capacity - 1) -> Nat]
    /\ head \in 0..(2 * Capacity - 1) /\ tail \in 0..(2 * Capacity - 1)
    /\ topUp \in BOOLEAN
    /\ ppc \in {"check", "room", "read", "commit"}
    /\ room \in 0..Capacity /\ passed \in Nat /\ onCard \in Nat /\ read \in Nat
    /\ armed \in BOOLEAN /\ sent \in Nat /\ gap \in Nat
    /\ misread \in Nat /\ over \in BOOLEAN
    /\ cpc \in {"idle", "look", "begin", "feed", "consume"}
    /\ take \in 0..Capacity /\ rest \in Nat /\ frame \in Nat /\ got \in Nat
    /\ fed \in SUBSET Nat

(* Some of the clip is on the card; the ring is allocated and filled before the    *)
(* decoder is armed.                                                               *)
Init ==
    /\ buf = [i \in 0..(Capacity - 1) |-> 0] /\ head = 0 /\ tail = 0
    /\ topUp = FALSE
    /\ ppc = "room" /\ room = 0 /\ passed = 0 /\ armed = FALSE
    /\ onCard \in 1..Total /\ read = 0 /\ sent = 0 /\ gap = Total
    /\ cpc = "idle" /\ take = 0 /\ rest = 0 /\ misread = 0 /\ frame = 0 /\ over = FALSE
    /\ got = 0 /\ fed = {}

--------------------------------------------------------------------------------
(* The length of the next frame is known from its first two bytes; after a gap     *)
(* they are any two bytes of the clip.                                             *)
Playing == armed /\ ~over /\ frame < Len(Frames)
Aligned == got + 2 <= gap
Payload == IF Aligned THEN Frames[frame + 1] ELSE misread
Known == Playing /\ Used >= 2
Whole == 2 + Payload <= Capacity

(* hasBufferedFrameInSpscRing() and shouldMarkCore1Dirty(): is there anything to   *)
(* draw?                                                                           *)
Ready ==
    \/ rest > 0 /\ Used > 0
    \/ rest = 0 /\ Known /\ Whole /\ Used >= 2 + Payload
    \/ rest = 0 /\ Known /\ ~Whole /\ Used >= Trigger

--------------------------------------------------------------------------------
(* Core 0. *)
Pump(from, to) == ppc = from /\ ppc' = to
DecoderStill == UNCHANGED <<head, topUp, decoder>>

(* The rest of the clip is still being downloaded.                                 *)
Download ==
    /\ ppc = "check" /\ onCard < Total /\ onCard' \in (onCard + 1)..Total
    /\ DecoderStill
    /\ UNCHANGED <<buf, tail, ppc, room, passed, armed, read, sent, gap, misread, over>>

BatchOnly == Free >= Batch                                         \* mutant
ShouldRefill == Free >= Batch \/ (Free > 0 /\ topUp)
CheckRing ==
    /\ Pump("check", "room") /\ Playing /\ read < onCard /\ ShouldRefill
    /\ DecoderStill
    /\ UNCHANGED <<buf, tail, room, passed, armed, onCard, read, sent, gap, misread, over>>
(* pumpSdToRing(), which fills the ring before the decoder is armed.               *)
Most == IF armed THEN Pass ELSE Capacity
ToRead == Least(Least(Contiguous, onCard - read), Least(Most - passed, Chunk))
PassOver == ppc' = "check" /\ armed' = TRUE /\ room' = 0 /\ passed' = 0
FindRoom ==
    /\ ppc = "room"
    /\ IF ToRead > 0 THEN ppc' = "read" /\ room' = ToRead /\ UNCHANGED <<passed, armed>>
       ELSE PassOver
    /\ DecoderStill /\ UNCHANGED <<buf, tail, onCard, read, sent, gap, misread, over>>
(* The card may deliver less than it was asked for.                                *)
ReadCard ==
    /\ Pump("read", "commit")
    /\ \E n \in 1..room :
        /\ buf' = [i \in 0..(Capacity - 1) |->
                      IF i >= OffsetOf(tail) /\ i < OffsetOf(tail) + n
                      THEN sent + (i - OffsetOf(tail)) ELSE buf[i]]
        /\ room' = n
    /\ DecoderStill /\ UNCHANGED <<tail, passed, armed, onCard, read, sent, gap, misread, over>>
(* Or nothing: a pass that fails goes on behind all that is on the card, except    *)
(* the one before the decoder is armed.                                            *)
ReadFails ==
    /\ ppc = "read" /\ PassOver
    /\ read' = (IF armed THEN onCard ELSE read)
    /\ gap' = (IF armed THEN Least(gap, sent) ELSE gap)
    /\ misread' \in IF armed /\ Used < 2 THEN Noise ELSE {misread}
    /\ DecoderStill /\ UNCHANGED <<buf, tail, onCard, sent, over>>
Commit ==
    /\ Pump("commit", "room")
    /\ tail' = Advance(tail, Least(room, Free)) /\ room' = 0
    /\ read' = read + room /\ passed' = passed + room /\ sent' = sent + room
    /\ DecoderStill /\ UNCHANGED <<buf, armed, onCard, gap, misread, over>>
(* All that will come has come, and the decoder does nothing with it any more.     *)
GiveUp ==
    /\ ppc = "check" /\ Playing /\ read = onCard /\ onCard = Total
    /\ cpc = "idle" /\ ~Ready /\ over' = TRUE
    /\ DecoderStill /\ UNCHANGED <<buf, tail, producer, misread>>

Producer == CheckRing \/ FindRoom \/ ReadCard \/ ReadFails \/ Commit \/ GiveUp

--------------------------------------------------------------------------------
(* Core 1. *)
ProducerStill == UNCHANGED <<buf, tail, producer>>

(* It draws what there is, and asks for the rest of what is not there yet.         *)
Mark ==
    /\ cpc = "idle" /\ Playing
    /\ cpc' = IF Ready THEN "look" ELSE "idle"
    /\ topUp' = IF Ready THEN FALSE ELSE topUp \/ rest > 0 \/ Used > 0
    /\ ProducerStill /\ UNCHANGED <<head, take, rest, frame, got, fed, misread, over>>

(* renderFrameCore1(), which another reason to draw may call as well.              *)
Look ==
    /\ cpc \in {"idle", "look"} /\ Playing
    /\ \/ /\ rest > 0 /\ Used > 0
          /\ cpc' = "feed" /\ take' = Least(Used, rest) /\ UNCHANGED topUp
       \/ /\ rest = 0 /\ Known /\ Whole /\ Used >= 2 + Payload
          /\ cpc' = "feed" /\ take' = 2 + Payload /\ UNCHANGED topUp
       \/ /\ rest = 0 /\ Known /\ ~Whole
          /\ cpc' = "begin" /\ take' = 2 /\ UNCHANGED topUp
       \/ /\ ~(rest > 0 /\ Used > 0)
          /\ ~(rest = 0 /\ Known /\ (~Whole \/ Used >= 2 + Payload))
          /\ cpc' = "idle" /\ topUp' = (topUp \/ rest > 0 \/ Used > 0) /\ UNCHANGED take
    /\ ProducerStill /\ UNCHANGED <<head, rest, frame, got, fed, misread, over>>

Fed(n) == fed' = {buf[i] : i \in {j \in 0..(Capacity - 1) : Ahead(j) < n}}
Consumed(n) == head' = Advance(head, n) /\ got' = got + n

(* A frame longer than the ring: its length is taken off, then the same call looks *)
(* at what there is of its payload.  No frame has some of the lengths misread.     *)
Begin ==
    /\ cpc = "begin" /\ Consumed(2) /\ Fed(2) /\ take' = 0
    /\ \/ cpc' = "look" /\ rest' = Payload /\ UNCHANGED <<topUp, over>>
       \/ cpc' = "idle" /\ ~Aligned /\ over' = TRUE /\ topUp' = FALSE /\ UNCHANGED rest
    /\ ProducerStill /\ UNCHANGED <<frame, misread>>
Feed ==
    /\ cpc = "feed" /\ cpc' = "consume"
    /\ ProducerStill /\ UNCHANGED <<head, topUp, take, rest, frame, got, fed, misread, over>>
(* consumeRead(); the frame is shown when its last byte was fed.  One of which     *)
(* bytes are missing shows something, or cannot be decoded; what is found only at  *)
(* the end of one longer than the ring leaves it out.                              *)
Consume ==
    /\ cpc = "consume" /\ cpc' = "idle" /\ take' = 0
    /\ Consumed(take) /\ Fed(take)
    /\ \/ /\ rest' = IF rest > 0 THEN rest - take ELSE 0
          /\ \/ frame' = IF rest' = 0 THEN frame + 1 ELSE frame
             \/ rest > 0 /\ rest' = 0 /\ got' > gap /\ UNCHANGED frame
          /\ topUp' = (rest' > 0) /\ UNCHANGED over
       \/ got' > gap /\ rest' = 0 /\ topUp' = FALSE /\ over' = TRUE /\ UNCHANGED frame
    /\ misread' \in IF rest' = 0 /\ got' + 2 > gap /\ gap < Total THEN Noise ELSE {misread}
    /\ ProducerStill

Consumer == Mark \/ Look \/ Begin \/ Feed \/ Consume

Next == Download \/ Producer \/ Consumer
Spec ==
    /\ Init /\ [][Next]_vars
    /\ WF_vars(Download) /\ WF_vars(Producer) /\ WF_vars(Consumer)

--------------------------------------------------------------------------------
(* The bytes that wait in the ring are the next ones put there, in order: no write *)
(* of Core 0 reaches a cell that Core 1 has yet to read, whatever the two read of  *)
(* each other's index and when (DmdzStreamClient.h:148-330).                       *)
UnreadIntact ==
    /\ Used <= Capacity
    /\ \A i \in 0..(Capacity - 1) : Ahead(i) < Used => buf[i] = got + Ahead(i)

(* The ring is a bounded channel of bytes.                                         *)
Channel == INSTANCE ByteChannel WITH sent <- got + Used, received <- got, delivered <- fed
ImplementsChannel == Channel!Spec

(* Every frame is shown: the batches of the producer never wait for a decoder that *)
(* waits for the rest of its frame (ShowcaseStreamPlayer.cpp:493-534).  Only a read *)
(* of the card that failed loses frames (:872-874, :940-942), and the session ends *)
(* all the same.                                                                   *)
EveryFrameShown == <>(frame = Len(Frames) \/ (over /\ gap < Total))
================================================================================
