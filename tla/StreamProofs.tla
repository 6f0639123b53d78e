--------------------------- MODULE StreamProofs ---------------------------
(* The two sources of clips.  A clip of the card comes through the ring, which     *)
(* never overwrites or reorders what the decoder has yet to read, and is a bounded *)
(* channel of bytes, for every capacity, clip and size of read.  A clip of the     *)
(* network comes through the session of the game that is played, which is never    *)
(* for another game, however many messages the console sends.                      *)
EXTENDS StreamRing, InGameSession, Integers, TLAPS

--------------------------------------------------------------------------------
(* Producer's half: what Core 0 has measured and not yet committed still fits,     *)
(* because the decoder only ever makes more room.                                  *)
ProducerInv ==
    /\ sent = got + Used
    /\ read =< onCard /\ passed =< Most
    /\ ppc \in {"read", "commit"} =>
        /\ room \in 1..Free
        /\ room =< Capacity - OffsetOf(tail)
        /\ room =< onCard - read /\ room =< Most - passed
    /\ ppc = "commit" =>
        \A i \in 0..(Capacity - 1) :
            i >= OffsetOf(tail) /\ i < OffsetOf(tail) + room
                => buf[i] = sent + (i - OffsetOf(tail))

(* Consumer's half: what Core 1 has seen in the ring stays there until it takes it.*)
ConsumerInv ==
    /\ cpc = "begin" => Used >= 2
    /\ cpc \in {"begin", "feed", "consume"} => frame < Len(Frames)
    /\ cpc \in {"feed", "consume"} =>
        /\ take \in 1..Used
        /\ rest > 0 => take =< rest

IInv == TypeOK /\ UnreadIntact /\ ProducerInv /\ ConsumerInv

--------------------------------------------------------------------------------
(* The arithmetic of the two indices. *)
Cells == 0..(Capacity - 1)

(* The indices name cells, and the ring is never fuller than it is long.           *)
LEMMA RingBounds ==
    ASSUME TypeOK, Used =< Capacity
    PROVE  /\ OffsetOf(head) \in Cells /\ OffsetOf(tail) \in Cells
           /\ Used \in 0..Capacity /\ Free \in 0..Capacity
           /\ \A i \in Cells : Ahead(i) \in Cells
  BY CapacityAssumption DEF TypeOK, Cells, OffsetOf, Used, Free, Ahead

(* The cells behind the tail are the free ones: those from the tail on that lie    *)
(* before the end of the buffer are the next ones to be read after the used ones.  *)
LEMMA FreeCells ==
    ASSUME TypeOK, Used =< Capacity, NEW i \in Cells, NEW n \in 0..Free,
           n =< Capacity - OffsetOf(tail)
    PROVE  /\ (i >= OffsetOf(tail) /\ i < OffsetOf(tail) + n)
                 <=> (Ahead(i) >= Used /\ Ahead(i) < Used + n)
           /\ i >= OffsetOf(tail) /\ i < OffsetOf(tail) + n
                 => Ahead(i) = Used + (i - OffsetOf(tail))
  BY CapacityAssumption DEF TypeOK, Cells, OffsetOf, Used, Free, Ahead

(* A commit of free bytes makes exactly those bytes used.                          *)
LEMMA CommitMoves ==
    ASSUME TypeOK, Used =< Capacity, NEW n \in 0..Free, tail' = Advance(tail, n), head' = head
    PROVE  /\ tail' \in 0..(2 * Capacity - 1)
           /\ Used' = Used + n
           /\ \A i \in Cells : Ahead(i)' = Ahead(i)
  BY CapacityAssumption DEF TypeOK, Cells, OffsetOf, Used, Free, Ahead, Advance

(* A read of used bytes frees exactly those bytes and brings the others nearer.    *)
LEMMA ConsumeMoves ==
    ASSUME TypeOK, Used =< Capacity, NEW n \in 0..Used, head' = Advance(head, n), tail' = tail
    PROVE  /\ head' \in 0..(2 * Capacity - 1)
           /\ Used' = Used - n
           /\ \A i \in Cells : Ahead(i)' < Used' => Ahead(i) = Ahead(i)' + n
  BY CapacityAssumption DEF TypeOK, Cells, OffsetOf, Used, Free, Ahead, Advance

(* The decoder is fed the next bytes of the clip, all of them.                     *)
LEMMA FedBytes ==
    ASSUME TypeOK, UnreadIntact, NEW n \in 0..Used, Fed(n)
    PROVE  fed' = got..(got + n - 1)
  <1>1. Used \in 0..Capacity /\ OffsetOf(head) \in Cells /\ \A i \in Cells : Ahead(i) \in Cells
    BY RingBounds DEF UnreadIntact
  <1>2. ASSUME NEW b \in fed'  PROVE b \in got..(got + n - 1)
    <2>1. PICK i \in Cells : Ahead(i) < n /\ b = buf[i]
      BY <1>2 DEF Fed, Cells
    <2>2. b = got + Ahead(i)
      BY <1>1, <2>1 DEF UnreadIntact, Cells
    <2>3. Ahead(i) \in Nat /\ n \in Nat /\ got \in Nat
      BY <1>1 DEF TypeOK, Cells
    <2> QED  BY <2>1, <2>2, <2>3
  <1>3. ASSUME NEW b \in got..(got + n - 1)  PROVE b \in fed'
    <2> DEFINE k == b - got
               i == IF OffsetOf(head) + k < Capacity THEN OffsetOf(head) + k
                    ELSE OffsetOf(head) + k - Capacity
    <2>0. n \in Nat /\ n =< Used /\ Used =< Capacity /\ Used \in Nat /\ got \in Nat
      BY <1>1 DEF TypeOK
    <2>1. k \in Nat /\ k < n /\ k < Used /\ k \in Cells /\ b = got + k
      BY <1>3, <2>0, CapacityAssumption DEF Cells
    <2>2. i \in Cells /\ Ahead(i) = k
      BY <1>1, <2>1, CapacityAssumption DEF Cells, Ahead
    <2>3. buf[i] = b
      BY <2>1, <2>2 DEF UnreadIntact, Cells
    <2> QED  BY <1>1, <2>1, <2>2, <2>3 DEF Fed, Cells
  <1> QED  BY <1>2, <1>3

--------------------------------------------------------------------------------
(* The invariant. *)
LEMMA InitInv == Init => IInv
  BY CapacityAssumption, FramesAssumption, ChunkAssumption, TotalAssumption
  DEF Init, IInv, TypeOK, UnreadIntact, ProducerInv, ConsumerInv, Used, Free, OffsetOf, Ahead,
      Most

(* Nothing that changes neither the ring nor what was read of it disturbs its      *)
(* contents.                                                                       *)
LEMMA RingUntouched ==
    ASSUME UNCHANGED <<buf, head, tail, got>>, UnreadIntact
    PROVE  UnreadIntact' /\ Used' = Used /\ Free' = Free /\ OffsetOf(tail)' = OffsetOf(tail)
  BY DEF UnreadIntact, Used, Free, OffsetOf, Ahead

LEMMA DownloadInv == IInv /\ Download => IInv'
  <1> SUFFICES ASSUME IInv, Download  PROVE IInv'
    OBVIOUS
  <1> USE DEF IInv, Download, DecoderStill, decoder
  <1>1. onCard' \in Nat /\ onCard' > onCard
    BY TotalAssumption DEF TypeOK
  <1>2. UnreadIntact' /\ Used' = Used /\ Free' = Free /\ OffsetOf(tail)' = OffsetOf(tail)
    BY RingUntouched
  <1>3. TypeOK'
    BY <1>1 DEF TypeOK
  <1>4. ProducerInv'
    BY <1>1, <1>2 DEF ProducerInv, TypeOK, Most
  <1>5. ConsumerInv'
    BY <1>2 DEF ConsumerInv
  <1> QED  BY <1>2, <1>3, <1>4, <1>5

LEMMA CheckRingInv == IInv /\ CheckRing => IInv'
  <1> SUFFICES ASSUME IInv, CheckRing  PROVE IInv'
    OBVIOUS
  <1> USE DEF IInv, CheckRing, Pump, DecoderStill, decoder
  <1>2. UnreadIntact' /\ Used' = Used /\ Free' = Free /\ OffsetOf(tail)' = OffsetOf(tail)
    BY RingUntouched
  <1>3. TypeOK'
    BY DEF TypeOK
  <1>4. ProducerInv'
    BY <1>2 DEF ProducerInv, Most
  <1>5. ConsumerInv'
    BY <1>2 DEF ConsumerInv
  <1> QED  BY <1>2, <1>3, <1>4, <1>5

(* The lesser of two is no more than either.                                        *)
LEMMA LeastBounds ==
    ASSUME NEW a \in Nat, NEW b \in Nat
    PROVE  Least(a, b) \in Nat /\ Least(a, b) =< a /\ Least(a, b) =< b
  BY DEF Least

(* The pass moves as much as it may, and what is left of it is a number.           *)
LEMMA MostType ==
    ASSUME TypeOK, ProducerInv
    PROVE  Most \in Nat /\ Most - passed \in Nat /\ onCard - read \in Nat
  BY CapacityAssumption, ChunkAssumption DEF TypeOK, ProducerInv, Most

LEMMA FindRoomInv == IInv /\ FindRoom => IInv'
  <1> SUFFICES ASSUME IInv, FindRoom  PROVE IInv'
    OBVIOUS
  <1> USE DEF IInv, FindRoom, DecoderStill, decoder
  <1>1. /\ OffsetOf(tail) \in Cells /\ Used \in 0..Capacity /\ Free \in 0..Capacity
    BY RingBounds DEF UnreadIntact
  <1>2. UnreadIntact' /\ Used' = Used /\ Free' = Free /\ OffsetOf(tail)' = OffsetOf(tail)
    BY RingUntouched
  <1>3. /\ ToRead \in 0..Capacity /\ ToRead =< Free
        /\ ToRead =< Capacity - OffsetOf(tail)
        /\ ToRead =< onCard - read /\ ToRead =< Most - passed
    <2> DEFINE card == onCard - read
               pass == Most - passed
    <2>1. card \in Nat /\ pass \in Nat /\ Chunk \in Nat /\ Capacity \in Nat
      BY MostType, CapacityAssumption, ChunkAssumption
    <2>2. Contiguous \in Nat /\ Contiguous =< Free /\ Contiguous =< Capacity - OffsetOf(tail)
      <3>1. Free \in Nat /\ Capacity - OffsetOf(tail) \in Nat
        BY <1>1, <2>1 DEF Cells
      <3> QED  BY <3>1, LeastBounds DEF Contiguous
    <2>3. ToRead = Least(Least(Contiguous, card), Least(pass, Chunk))
      BY DEF ToRead
    <2> HIDE DEF card, pass
    <2>4. /\ Least(Contiguous, card) \in Nat /\ Least(Contiguous, card) =< Contiguous
          /\ Least(Contiguous, card) =< card
      BY <2>1, <2>2, LeastBounds
    <2>5. Least(pass, Chunk) \in Nat /\ Least(pass, Chunk) =< pass
      BY <2>1, LeastBounds
    <2>6. ToRead \in Nat /\ ToRead =< Least(Contiguous, card) /\ ToRead =< Least(pass, Chunk)
      BY <2>3, <2>4, <2>5, LeastBounds
    <2>7. ToRead =< Contiguous /\ ToRead =< card /\ ToRead =< pass
      BY ONLY <2>1, <2>2, <2>4, <2>5, <2>6
    <2>8. ToRead \in 0..Capacity /\ ToRead =< Free /\ ToRead =< Capacity - OffsetOf(tail)
      BY ONLY <1>1, <2>1, <2>2, <2>6, <2>7 DEF Cells
    <2> QED  BY ONLY <2>7, <2>8 DEF card, pass
  <1>4. UNCHANGED <<buf, head, tail, onCard, read, sent, got>>
    OBVIOUS
  <1>5. ASSUME ToRead > 0, ppc' = "read", room' = ToRead, UNCHANGED <<passed, armed>>
        PROVE  TypeOK' /\ ProducerInv'
    <2>1. TypeOK'
      BY <1>3, <1>5 DEF TypeOK
    <2>2. ToRead \in 1..Free
      BY <1>1, <1>3, <1>5
    <2>3. Most' = Most
      BY <1>5 DEF Most
    <2>4. sent' = (got + Used)' /\ read' =< onCard' /\ passed' =< Most'
      BY <1>2, <1>4, <1>5, <2>3 DEF ProducerInv
    <2>5. /\ room' \in 1..Free' /\ room' =< Capacity - OffsetOf(tail)'
          /\ room' =< onCard' - read' /\ room' =< Most' - passed'
      BY <1>2, <1>3, <1>4, <1>5, <2>2, <2>3
    <2>6. ProducerInv'
      BY <1>5, <2>4, <2>5 DEF ProducerInv
    <2> QED  BY <2>1, <2>6
  <1>6. ASSUME PassOver  PROVE TypeOK' /\ ProducerInv'
    <2>1. ppc' = "check" /\ armed' = TRUE /\ room' = 0 /\ passed' = 0
      BY <1>6 DEF PassOver
    <2>2. TypeOK'
      BY <2>1, CapacityAssumption DEF TypeOK
    <2>3. passed' =< Most'
      BY <2>1, ChunkAssumption DEF Most
    <2>4. sent' = (got + Used)' /\ read' =< onCard'
      BY <1>2, <1>4 DEF ProducerInv
    <2>5. ProducerInv'
      BY <2>1, <2>3, <2>4 DEF ProducerInv
    <2> QED  BY <2>2, <2>5
  <1>7. TypeOK' /\ ProducerInv'
    BY <1>5, <1>6
  <1>8. ConsumerInv'
    BY <1>2 DEF ConsumerInv
  <1> QED  BY <1>2, <1>7, <1>8

(* A pass that failed ends like one that is over, wherever it goes on.             *)
LEMMA ReadFailsInv == IInv /\ ReadFails => IInv'
  <1> SUFFICES ASSUME IInv, ReadFails  PROVE IInv'
    OBVIOUS
  <1> USE DEF IInv, ReadFails, PassOver, DecoderStill, decoder
  <1>1. UnreadIntact' /\ Used' = Used /\ Free' = Free /\ OffsetOf(tail)' = OffsetOf(tail)
    BY RingUntouched
  <1>2. gap' \in Nat /\ misread' \in Nat
    BY LeastBounds, NoiseAssumption DEF TypeOK
  <1>3. read' \in {read, onCard}
    OBVIOUS
  <1>4. TypeOK'
    BY <1>2, <1>3, CapacityAssumption DEF TypeOK
  <1>5. ProducerInv'
    <2>1. read' =< onCard'
      BY <1>3 DEF ProducerInv, TypeOK
    <2>2. passed' =< Most'
      BY ChunkAssumption DEF Most
    <2> QED  BY <1>1, <2>1, <2>2 DEF ProducerInv
  <1>6. ConsumerInv'
    BY <1>1 DEF ConsumerInv
  <1> QED  BY <1>1, <1>4, <1>5, <1>6

(* Giving up leaves the ring and what is left of the clip as they are.             *)
LEMMA GiveUpInv == IInv /\ GiveUp => IInv'
  <1> SUFFICES ASSUME IInv, GiveUp  PROVE IInv'
    OBVIOUS
  <1> USE DEF IInv, GiveUp, DecoderStill, decoder, producer
  <1>1. UnreadIntact' /\ Used' = Used /\ Free' = Free /\ OffsetOf(tail)' = OffsetOf(tail)
    BY RingUntouched
  <1>2. TypeOK'
    BY DEF TypeOK
  <1>3. ProducerInv'
    BY <1>1 DEF ProducerInv, Most
  <1>4. ConsumerInv'
    BY <1>1 DEF ConsumerInv
  <1> QED  BY <1>1, <1>2, <1>3, <1>4

LEMMA ReadCardInv == IInv /\ ReadCard => IInv'
  <1> SUFFICES ASSUME IInv, ReadCard  PROVE IInv'
    OBVIOUS
  <1> USE DEF IInv, ReadCard, Pump, DecoderStill, decoder
  <1>1. /\ OffsetOf(tail) \in Cells /\ Used \in 0..Capacity /\ Free \in 0..Capacity
        /\ \A i \in Cells : Ahead(i) \in Cells
    BY RingBounds DEF UnreadIntact
  <1>2. PICK n \in 1..room :
          /\ buf' = [i \in 0..(Capacity - 1) |->
                        IF i >= OffsetOf(tail) /\ i < OffsetOf(tail) + n
                        THEN sent + (i - OffsetOf(tail)) ELSE buf[i]]
          /\ room' = n
    OBVIOUS
  <1>3. Used' = Used /\ Free' = Free /\ OffsetOf(tail)' = OffsetOf(tail)
        /\ \A i \in Cells : Ahead(i)' = Ahead(i)
    BY DEF Used, Free, OffsetOf, Ahead
  <1>4. n \in 1..Free /\ n =< Capacity - OffsetOf(tail) /\ n \in 0..Capacity
        /\ n =< onCard - read /\ n =< Most - passed
    <2>1. /\ room \in 1..Free /\ room =< Capacity - OffsetOf(tail)
          /\ room =< onCard - read /\ room =< Most - passed
      BY DEF ProducerInv
    <2>2. /\ n \in Nat /\ n >= 1 /\ n =< room /\ room \in Nat /\ Free \in Nat
          /\ Free =< Capacity /\ OffsetOf(tail) \in Nat /\ onCard \in Nat /\ read \in Nat
          /\ passed \in Nat /\ Most \in Nat /\ Capacity \in Nat
      BY <1>1, <1>2, MostType, CapacityAssumption DEF TypeOK, Cells
    <2> QED  BY <2>1, <2>2
  <1>5. \A i \in Cells : Ahead(i) < Used => buf'[i] = buf[i]
    <2> SUFFICES ASSUME NEW i \in Cells, Ahead(i) < Used  PROVE buf'[i] = buf[i]
      OBVIOUS
    <2>1. ~(i >= OffsetOf(tail) /\ i < OffsetOf(tail) + n)
      BY <1>1, <1>4, FreeCells DEF UnreadIntact, Cells
    <2> QED  BY <1>2, <2>1 DEF Cells
  <1>6. UnreadIntact'
    BY <1>1, <1>3, <1>5 DEF UnreadIntact, Cells
  <1>7. TypeOK'
    <2>1. \A i \in Cells : i >= OffsetOf(tail) => sent + (i - OffsetOf(tail)) \in Nat
      <3>1. sent \in Nat /\ OffsetOf(tail) \in Nat
        BY <1>1 DEF TypeOK, Cells
      <3> QED  BY <3>1 DEF Cells
    <2>2. buf' \in [0..(Capacity - 1) -> Nat]
      BY <1>2, <2>1 DEF TypeOK, Cells
    <2> QED  BY <1>2, <1>4, <2>2 DEF TypeOK
  <1>8. ProducerInv'
    <2>1. \A i \in Cells : i >= OffsetOf(tail) /\ i < OffsetOf(tail) + n
                             => buf'[i] = sent + (i - OffsetOf(tail))
      BY <1>2 DEF Cells
    <2> QED  BY <1>2, <1>3, <1>4, <2>1 DEF ProducerInv, Cells, Most
  <1>9. ConsumerInv'
    BY <1>3 DEF ConsumerInv
  <1> QED  BY <1>6, <1>7, <1>8, <1>9

LEMMA CommitInv == IInv /\ Commit => IInv'
  <1> SUFFICES ASSUME IInv, Commit  PROVE IInv'
    OBVIOUS
  <1> USE DEF IInv, Commit, Pump, DecoderStill, decoder
  <1>1. /\ OffsetOf(tail) \in Cells /\ Used \in 0..Capacity /\ Free \in 0..Capacity
        /\ \A i \in Cells : Ahead(i) \in Cells
    BY RingBounds DEF UnreadIntact
  <1>2. room \in 1..Free /\ Least(room, Free) = room /\ room =< Capacity - OffsetOf(tail)
        /\ room =< onCard - read /\ room =< Most - passed
    BY <1>1 DEF ProducerInv, TypeOK, Least
  <1>3. /\ tail' \in 0..(2 * Capacity - 1) /\ Used' = Used + room
        /\ \A i \in Cells : Ahead(i)' = Ahead(i)
    BY <1>1, <1>2, CommitMoves DEF UnreadIntact
  <1>4. UnreadIntact'
    <2>1. Used' =< Capacity
      BY <1>1, <1>2, <1>3, CapacityAssumption DEF Free
    <2>2. ASSUME NEW i \in Cells, Ahead(i) < Used + room  PROVE buf[i] = got + Ahead(i)
      <3>1. CASE Ahead(i) < Used
        BY <3>1 DEF UnreadIntact, Cells
      <3>2. CASE ~(Ahead(i) < Used)
        <4>1. Ahead(i) >= Used
          BY <1>1, <3>2 DEF Cells
        <4>2. room \in 0..Free
          BY <1>1, <1>2
        <4>3. i >= OffsetOf(tail) /\ i < OffsetOf(tail) + room
              /\ Ahead(i) = Used + (i - OffsetOf(tail))
          BY <1>2, <2>2, <4>1, <4>2, FreeCells DEF UnreadIntact
        <4>4. buf[i] = sent + (i - OffsetOf(tail)) /\ sent = got + Used
          BY <4>3 DEF ProducerInv, Cells
        <4> QED  BY <1>1, <4>3, <4>4 DEF TypeOK, Cells
      <3> QED  BY <3>1, <3>2
    <2> QED  BY <1>3, <2>1, <2>2 DEF UnreadIntact, Cells
  <1>5. TypeOK'
    BY <1>1, <1>2, <1>3, CapacityAssumption DEF TypeOK
  <1>6. ProducerInv'
    <2>1. sent' = got' + Used'
      BY <1>1, <1>2, <1>3 DEF ProducerInv, TypeOK
    <2>2. read' =< onCard' /\ passed' =< Most'
      <3>1. Most' = Most /\ Most \in Nat
        BY MostType DEF Most
      <3> QED  BY <1>1, <1>2, <3>1 DEF ProducerInv, TypeOK
    <2> QED  BY <2>1, <2>2 DEF ProducerInv
  <1>7. ConsumerInv'
    BY <1>1, <1>2, <1>3 DEF ConsumerInv, TypeOK
  <1> QED  BY <1>4, <1>5, <1>6, <1>7

LEMMA MarkInv == IInv /\ Mark => IInv'
  <1> SUFFICES ASSUME IInv, Mark  PROVE IInv'
    OBVIOUS
  <1> USE DEF IInv, Mark, ProducerStill, producer
  <1>1. UnreadIntact' /\ Used' = Used /\ Free' = Free /\ OffsetOf(tail)' = OffsetOf(tail)
    BY RingUntouched
  <1>2. TypeOK'
    BY DEF TypeOK
  <1>3. ProducerInv'
    BY <1>1 DEF ProducerInv, Most
  <1>4. ConsumerInv'
    BY <1>1 DEF ConsumerInv
  <1> QED  BY <1>1, <1>2, <1>3, <1>4

(* The length of the next frame is a number, the decoder's or the clip's.          *)
LEMMA PayloadType ==
    ASSUME TypeOK, frame < Len(Frames)
    PROVE  Payload \in Nat
  BY FramesAssumption DEF TypeOK, Payload

LEMMA LookInv == IInv /\ Look => IInv'
  <1> SUFFICES ASSUME IInv, Look  PROVE IInv'
    OBVIOUS
  <1> USE DEF IInv, ProducerStill, producer
  <1>1. UnreadIntact' /\ Used' = Used /\ Free' = Free /\ OffsetOf(tail)' = OffsetOf(tail)
    BY RingUntouched DEF Look
  <1>2. Used \in 0..Capacity /\ frame < Len(Frames) /\ rest \in Nat /\ take \in 0..Capacity
    BY RingBounds DEF Look, Playing, UnreadIntact, TypeOK
  <1>3. Payload \in Nat
    BY <1>2, PayloadType
  <1>4. /\ take' \in 0..Capacity /\ topUp' \in BOOLEAN
        /\ cpc' \in {"idle", "begin", "feed"}
        /\ cpc' = "begin" => Used >= 2
        /\ cpc' = "feed" => take' \in 1..Used /\ (rest > 0 => take' =< rest)
    <2>1. CASE /\ rest > 0 /\ Used > 0
               /\ cpc' = "feed" /\ take' = Least(Used, rest) /\ topUp' = topUp
      <3>1. take' \in Nat /\ take' =< Used /\ take' =< rest /\ take' > 0
        BY <1>2, <2>1 DEF Least
      <3> QED  BY <1>2, <2>1, <3>1, CapacityAssumption DEF TypeOK
    <2>2. CASE /\ rest = 0 /\ Used >= 2 + Payload
               /\ cpc' = "feed" /\ take' = 2 + Payload /\ topUp' = topUp
      <3>1. 2 + Payload \in Nat /\ 2 + Payload >= 2
        BY <1>3
      <3> QED  BY <1>2, <2>2, <3>1, CapacityAssumption DEF TypeOK
    <2>3. CASE Used >= 2 /\ cpc' = "begin" /\ take' = 2 /\ topUp' = topUp
      BY <1>2, <2>3, CapacityAssumption DEF TypeOK
    <2>4. CASE cpc' = "idle" /\ take' = take /\ topUp' \in BOOLEAN
      BY <1>2, <2>4
    <2>5. (topUp \/ rest > 0 \/ Used > 0) \in BOOLEAN
      OBVIOUS
    <2> QED  BY <2>1, <2>2, <2>3, <2>4, <2>5 DEF Look, Known
  <1>5. TypeOK'
    BY <1>4 DEF TypeOK, Look
  <1>6. ProducerInv'
    BY <1>1 DEF ProducerInv, Look, Most
  <1>7. ConsumerInv'
    BY <1>1, <1>2, <1>4 DEF ConsumerInv, Look
  <1> QED  BY <1>1, <1>5, <1>6, <1>7

(* What both takes of the decoder leave of the ring.                               *)
LEMMA TakeInv ==
    ASSUME IInv, NEW n \in 1..Used, Consumed(n), ProducerStill
    PROVE  /\ UnreadIntact' /\ ProducerInv'
           /\ head' \in 0..(2 * Capacity - 1) /\ got' \in Nat
           /\ Used' = Used - n
  <1> USE DEF IInv, Consumed, ProducerStill, producer
  <1>1. /\ OffsetOf(tail) \in Cells /\ Used \in 0..Capacity /\ Free \in 0..Capacity
        /\ \A i \in Cells : Ahead(i) \in Cells
    BY RingBounds DEF UnreadIntact
  <1>2. /\ head' \in 0..(2 * Capacity - 1) /\ Used' = Used - n
        /\ \A i \in Cells : Ahead(i)' < Used' => Ahead(i) = Ahead(i)' + n
    BY <1>1, ConsumeMoves DEF UnreadIntact
  <1>3. got' \in Nat
    BY <1>1 DEF TypeOK
  <1>4. UnreadIntact'
    <2>1. Used' =< Capacity
      <3>1. n \in Nat /\ Used \in Nat /\ Used =< Capacity
        BY <1>1
      <3> QED  BY <1>2, <3>1, CapacityAssumption
    <2>2. \A i \in Cells : Ahead(i)' \in Int
      BY <1>2, CapacityAssumption DEF Ahead, OffsetOf, Cells
    <2>3. ASSUME NEW i \in Cells, Ahead(i)' < Used'  PROVE buf[i] = got' + Ahead(i)'
      <3>1. Ahead(i) = Ahead(i)' + n
        BY <1>2, <2>3
      <3>2. Ahead(i) < Used
        BY <1>1, <1>2, <2>2, <2>3, <3>1
      <3>3. buf[i] = got + Ahead(i)
        BY <3>2 DEF UnreadIntact, Cells
      <3> QED  BY <1>1, <2>2, <3>1, <3>3 DEF TypeOK
    <2> QED  BY <2>1, <2>3 DEF UnreadIntact, Cells
  <1>5. ProducerInv'
    <2>1. Free' = Free + n /\ OffsetOf(tail)' = OffsetOf(tail)
      BY <1>1, <1>2, CapacityAssumption DEF Free, OffsetOf
    <2>2. sent' = got' + Used'
      BY <1>1, <1>2 DEF ProducerInv, TypeOK
    <2> QED  BY <1>1, <2>1, <2>2 DEF ProducerInv, TypeOK, Most
  <1> QED  BY <1>2, <1>3, <1>4, <1>5

(* What the decoder is fed are bytes of the clip.                                  *)
LEMMA FedType ==
    ASSUME TypeOK, NEW n, Fed(n)
    PROVE  fed' \in SUBSET Nat
  BY DEF Fed, TypeOK

LEMMA BeginInv == IInv /\ Begin => IInv'
  <1> SUFFICES ASSUME IInv, Begin  PROVE IInv'
    OBVIOUS
  <1>1. 2 \in 1..Used /\ frame < Len(Frames)
    BY RingBounds DEF IInv, Begin, ConsumerInv, UnreadIntact
  <1>2. /\ UnreadIntact' /\ ProducerInv' /\ Used' = Used - 2
        /\ head' \in 0..(2 * Capacity - 1) /\ got' \in Nat
    BY <1>1, TakeInv DEF Begin
  <1>3. rest' \in Nat /\ over' \in BOOLEAN /\ topUp' \in BOOLEAN /\ cpc' \in {"look", "idle"}
    BY <1>1, PayloadType DEF Begin, IInv, TypeOK
  <1>4. fed' \in SUBSET Nat
    BY FedType DEF Begin, IInv
  <1>5. TypeOK'
    BY <1>2, <1>3, <1>4, CapacityAssumption DEF IInv, TypeOK, Begin, ProducerStill, producer
  <1>6. ConsumerInv'
    BY DEF Begin, ConsumerInv
  <1> QED  BY <1>2, <1>5, <1>6 DEF IInv

LEMMA FeedInv == IInv /\ Feed => IInv'
  <1> SUFFICES ASSUME IInv, Feed  PROVE IInv'
    OBVIOUS
  <1> USE DEF IInv, Feed, ProducerStill, producer
  <1>1. UnreadIntact' /\ Used' = Used /\ Free' = Free /\ OffsetOf(tail)' = OffsetOf(tail)
    BY RingUntouched
  <1>2. TypeOK'
    BY DEF TypeOK
  <1>3. ProducerInv'
    BY <1>1 DEF ProducerInv, Most
  <1>4. ConsumerInv'
    BY <1>1 DEF ConsumerInv
  <1> QED  BY <1>1, <1>2, <1>3, <1>4

LEMMA ConsumeInv == IInv /\ Consume => IInv'
  <1> SUFFICES ASSUME IInv, Consume  PROVE IInv'
    OBVIOUS
  <1>1. take \in 1..Used /\ (rest > 0 => take =< rest) /\ frame < Len(Frames)
    BY DEF IInv, Consume, ConsumerInv
  <1>2. /\ UnreadIntact' /\ ProducerInv'
        /\ head' \in 0..(2 * Capacity - 1) /\ got' \in Nat
    BY <1>1, TakeInv DEF Consume
  <1>3. rest' \in Nat /\ frame' \in Nat /\ over' \in BOOLEAN /\ topUp' \in BOOLEAN
    <2>1. rest \in Nat /\ take \in Nat /\ frame \in Nat /\ over \in BOOLEAN
      BY DEF IInv, TypeOK
    <2>2. CASE /\ rest' = (IF rest > 0 THEN rest - take ELSE 0)
               /\ frame' = frame + 1 \/ frame' = frame
               /\ topUp' = (rest' > 0) /\ over' = over
      <3>1. rest' \in Nat /\ frame' \in Nat
        BY <1>1, <2>1, <2>2
      <3>2. (rest' > 0) \in BOOLEAN
        OBVIOUS
      <3> QED  BY Zenon, <2>1, <2>2, <3>1, <3>2
    <2>3. CASE rest' = 0 /\ topUp' = FALSE /\ over' = TRUE /\ frame' = frame
      BY <2>1, <2>3
    <2> QED  BY <2>2, <2>3 DEF Consume
  <1>7. misread' \in Nat
    BY NoiseAssumption DEF Consume, IInv, TypeOK
  <1>4. fed' \in SUBSET Nat
    BY FedType DEF Consume, IInv
  <1>5. TypeOK'
    BY <1>2, <1>3, <1>4, <1>7, CapacityAssumption
    DEF IInv, TypeOK, Consume, ProducerStill, producer
  <1>6. ConsumerInv'
    BY DEF Consume, ConsumerInv
  <1> QED  BY <1>2, <1>5, <1>6 DEF IInv

LEMMA StutterInv == IInv /\ UNCHANGED vars => IInv'
  <1> SUFFICES ASSUME IInv, UNCHANGED vars  PROVE IInv'
    OBVIOUS
  <1> USE DEF IInv, vars, producer, decoder
  <1>1. UnreadIntact' /\ Used' = Used /\ Free' = Free /\ OffsetOf(tail)' = OffsetOf(tail)
    BY RingUntouched
  <1>2. TypeOK'
    BY DEF TypeOK
  <1>3. ProducerInv'
    BY <1>1 DEF ProducerInv, Most
  <1>4. ConsumerInv'
    BY <1>1 DEF ConsumerInv
  <1> QED  BY <1>1, <1>2, <1>3, <1>4

LEMMA NextInv == IInv /\ [Next]_vars => IInv'
  BY DownloadInv, CheckRingInv, FindRoomInv, ReadCardInv, ReadFailsInv, CommitInv, GiveUpInv,
     MarkInv, LookInv, BeginInv, FeedInv, ConsumeInv, StutterInv
  DEF Next, Producer, Consumer

LEMMA InductiveInvariant == Spec => []IInv
  <1>1. Init => IInv
    BY InitInv
  <1>2. IInv /\ [Next]_vars => IInv'
    BY NextInv
  <1> QED  BY <1>1, <1>2, PTL DEF Spec

(* Every variable of the ring, of its producer and of its consumer keeps its type, *)
(* the indices below twice the capacity among them.                                *)
THEOREM RingTypeCorrect == Spec => []TypeOK
  BY InductiveInvariant, PTL DEF IInv

(* No byte that Core 1 has yet to read is overwritten or moved by Core 0.          *)
THEOREM UnreadBytesStay == Spec => []UnreadIntact
  BY InductiveInvariant, PTL DEF IInv

--------------------------------------------------------------------------------
(* The ring implements the channel of ByteChannel.                                 *)
LEMMA ChannelInit == Init => Channel!Init
  BY DEF Init, Channel!Init, Used

(* Only a commit sends, and what it sends fits.                                    *)
LEMMA CommitSends == IInv /\ Commit => Channel!Next
  <1> SUFFICES ASSUME IInv, Commit  PROVE Channel!Next
    OBVIOUS
  <1> USE DEF IInv, Commit, Pump, DecoderStill, decoder
  <1>1. Used \in 0..Capacity /\ Free \in 0..Capacity /\ got \in Nat
    BY RingBounds DEF UnreadIntact, TypeOK
  <1>2. room \in 1..Free /\ Least(room, Free) = room
    BY <1>1 DEF ProducerInv, Least
  <1>3. room \in 0..Free /\ room \in 1..Capacity /\ Used + room =< Capacity
    BY <1>1, <1>2, CapacityAssumption DEF Free
  <1>4. Used' = Used + room
    BY <1>2, <1>3, CommitMoves DEF UnreadIntact
  <1>5. Channel!Send(room)
    BY <1>1, <1>3, <1>4 DEF Channel!Send
  <1> QED  BY <1>3, <1>5 DEF Channel!Next

(* A take of the decoder receives the next bytes.                                  *)
LEMMA TakeReceives ==
    ASSUME IInv, NEW n \in 1..Used, Consumed(n), Fed(n), ProducerStill
    PROVE  Channel!Next
  <1>1. Used \in 0..Capacity /\ got \in Nat
    BY RingBounds DEF IInv, UnreadIntact, TypeOK
  <1>2. n \in 0..Used /\ n \in 1..Capacity
    BY <1>1, CapacityAssumption
  <1>3. fed' = got..(got + n - 1)
    BY <1>2, FedBytes DEF IInv
  <1>4. Used' = Used - n /\ got' = got + n
    BY TakeInv DEF Consumed
  <1>5. Channel!Receive(n)
    BY <1>1, <1>2, <1>3, <1>4 DEF Channel!Receive
  <1> QED  BY <1>2, <1>5 DEF Channel!Next

LEMMA BeginReceives == IInv /\ Begin => Channel!Next
  <1> SUFFICES ASSUME IInv, Begin  PROVE Channel!Next
    OBVIOUS
  <1>1. 2 \in 1..Used
    BY RingBounds DEF IInv, Begin, ConsumerInv, UnreadIntact
  <1> QED  BY <1>1, TakeReceives DEF Begin

LEMMA ConsumeReceives == IInv /\ Consume => Channel!Next
  <1> SUFFICES ASSUME IInv, Consume  PROVE Channel!Next
    OBVIOUS
  <1>1. take \in 1..Used
    BY DEF IInv, Consume, ConsumerInv
  <1> QED  BY <1>1, TakeReceives DEF Consume

(* No other step shows.                                                            *)
LEMMA OthersStutter ==
    ASSUME UNCHANGED <<head, tail, got, fed>>
    PROVE  UNCHANGED <<got + Used, got, fed>>
  BY DEF Used

LEMMA StepRefines == IInv /\ [Next]_vars => [Channel!Next]_<<got + Used, got, fed>>
  <1> SUFFICES ASSUME IInv, [Next]_vars  PROVE [Channel!Next]_<<got + Used, got, fed>>
    OBVIOUS
  <1>1. CASE Commit
    BY <1>1, CommitSends
  <1>2. CASE Begin
    BY <1>2, BeginReceives
  <1>3. CASE Consume
    BY <1>3, ConsumeReceives
  <1>4. CASE Download \/ CheckRing \/ FindRoom \/ ReadCard \/ ReadFails \/ GiveUp
    BY <1>4, OthersStutter
    DEF Download, CheckRing, FindRoom, ReadCard, ReadFails, GiveUp, DecoderStill, decoder
  <1>5. CASE Mark \/ Look \/ Feed
    BY <1>5, OthersStutter DEF Mark, Look, Feed, ProducerStill
  <1>6. CASE UNCHANGED vars
    BY <1>6, OthersStutter DEF vars, decoder
  <1> QED  BY <1>1, <1>2, <1>3, <1>4, <1>5, <1>6 DEF Next, Producer, Consumer

(* What leaves the ring is what entered it, in order, with never more than its     *)
(* capacity in between: the ring of Core 0 and Core 1 is a bounded byte channel.   *)
THEOREM RingImplementsChannel == Spec => ImplementsChannel
  <1>1. Init => Channel!Init
    BY ChannelInit
  <1>2. IInv /\ [Next]_vars => [Channel!Next]_<<got + Used, got, fed>>
    BY StepRefines
  <1> QED  BY <1>1, <1>2, InductiveInvariant, PTL DEF Spec, ImplementsChannel, Channel!Spec

--------------------------------------------------------------------------------
(* The session of the game that is played.  Tokens only grow, and Core 1 takes a   *)
(* new one before it touches the job that belongs to the old one.                  *)
Rewriting == {"quiet", "token", "fields", "void", "clear"}
Tokens ==
    /\ token =< events /\ slot.token =< token
    /\ c1 = "bump" => token < events
    /\ c1 \in {"quiet", "token", "void"} => slot.token < token
    /\ c1 \in Rewriting => token # 0
    /\ token = 0 => slot = NoJob

(* A copy of the job that bears the token of now, and was not taken in the middle  *)
(* of a change, is the job of now.                                                 *)
CopyIsJob ==
    wpc # "none" =>
        /\ job.token =< token
        /\ ~odd /\ job.token = token => c1 \notin Rewriting /\ slot = job

(* Only a launch is posted, and what follows is about the same job.                *)
Posted == {"post", "prepare", "session", "live", "played", "pause"}
LaunchOnly == wpc \in Posted => job.active

GameInv == GameTypeOK /\ Tokens /\ CopyIsJob /\ LaunchOnly

(* The type invariant in three parts: the Boolean variables, numbers, places.      *)
GameBits ==
    /\ latch \in BOOLEAN /\ dispatched \in BOOLEAN /\ allowed \in BOOLEAN
    /\ checked \in BOOLEAN /\ stop \in BOOLEAN /\ wants \in BOOLEAN /\ engaged \in BOOLEAN
    /\ mayPlay \in BOOLEAN /\ dirty \in BOOLEAN /\ settled \in BOOLEAN
    /\ missed \in BOOLEAN /\ odd \in BOOLEAN /\ lost \in BOOLEAN
GameRest ==
    /\ token \in 0..Events /\ done \in 0..Events /\ purged \in 0..Events
    /\ queue \in 0..Events /\ events \in 0..Events
    /\ slot \in Jobs /\ job \in Jobs
GamePlaces ==
    /\ c1 \in {"idle", "quiet", "token", "fields", "wake", "ensure", "drop", "bump",
               "void", "clear", "halt"}
    /\ wpc \in {"none", "top", "probe", "read", "purge", "free", "take", "post", "clean", "prepare",
                "session", "live", "played", "pause", "after", "after free", "look",
                "latch"} \cup Leaving

LEMMA GameTypeParts == GameTypeOK <=> GameBits /\ GameRest /\ GamePlaces
  BY Zenon DEF GameTypeOK, GameBits, GameRest, GamePlaces
LEMMA GameTypePartsNext == GameBits' /\ GameRest' /\ GamePlaces' => GameTypeOK'
  BY Zenon DEF GameTypeOK, GameBits, GameRest, GamePlaces

LEMMA NoJobTyped == NoJob \in Jobs
  BY EventsAssumption DEF NoJob, Jobs

LEMMA GameInitInv == GameInit => GameInv
  <1> SUFFICES ASSUME GameInit  PROVE GameInv
    OBVIOUS
  <1>1. GameBits
    BY DEF GameInit, GameBits
  <1>2. GameRest
    BY NoJobTyped, EventsAssumption DEF GameInit, GameRest
  <1>3. GamePlaces
    BY DEF GameInit, GamePlaces
  <1>4. Tokens /\ CopyIsJob /\ LaunchOnly
    BY DEF GameInit, Tokens, CopyIsJob, LaunchOnly, NoJob, Rewriting, Posted
  <1> QED  BY <1>1, <1>2, <1>3, <1>4, GameTypeParts DEF GameInv

--------------------------------------------------------------------------------
(* Core 1.  Most of its steps leave the worker and its copy alone, and what they   *)
(* do to the token and the job is all that matters.                                *)
LEMMA Numbers ==
    ASSUME GameRest
    PROVE  token \in Nat /\ events \in Nat /\ slot.token \in Nat /\ job.token \in Nat
  BY EventsAssumption DEF GameRest, Jobs

LEMMA Core1Step ==
    ASSUME GameInv, GameBits', GameRest', GamePlaces', Tokens', UNCHANGED <<job, odd, wpc>>,
           \/ token < token'
           \/ UNCHANGED <<token, slot>> /\ c1' \notin Rewriting
           \/ token' = token /\ c1 \in Rewriting
    PROVE  GameInv'
  <1>1. GameRest
    BY GameTypeParts DEF GameInv
  <1>2. CopyIsJob'
    <2> SUFFICES ASSUME wpc # "none"
                 PROVE  /\ job.token =< token'
                        /\ ~odd /\ job.token = token' => c1' \notin Rewriting /\ slot' = job
      BY DEF CopyIsJob
    <2>1. job.token \in Nat /\ token \in Nat /\ token' \in Nat
      BY <1>1, EventsAssumption DEF GameRest, Jobs
    <2>2. job.token =< token /\ (~odd /\ job.token = token => c1 \notin Rewriting /\ slot = job)
      BY DEF GameInv, CopyIsJob
    <2>3. CASE token < token'
      BY <2>1, <2>2, <2>3
    <2>4. CASE UNCHANGED <<token, slot>> /\ c1' \notin Rewriting
      BY <2>2, <2>4
    <2>5. CASE token' = token /\ c1 \in Rewriting
      BY <2>2, <2>5
    <2> QED  BY <2>3, <2>4, <2>5
  <1>3. LaunchOnly'
    BY DEF GameInv, LaunchOnly
  <1> QED  BY <1>2, <1>3, GameTypePartsNext DEF GameInv

(* A message of the console: a launch takes its token at once, the others are to.  *)
LEMMA MessageInv == GameInv /\ (Launch \/ Leave \/ Edit \/ Replace) => GameInv'
  <1> SUFFICES ASSUME GameInv, Launch \/ Leave \/ Edit \/ Replace  PROVE GameInv'
    OBVIOUS
  <1>0. GameBits /\ GameRest /\ GamePlaces
    BY GameTypeParts DEF GameInv
  <1>1. /\ c1 = "idle" /\ events' = events + 1 /\ events < Events
        /\ UNCHANGED <<slot, latch, engaged, missed, job, mayPlay, done, purged, dirty, settled,
                       odd, wpc, queue, lost>>
        /\ allowed' \in {allowed, TRUE, FALSE} /\ checked' \in {checked, FALSE}
        /\ stop' \in {stop, TRUE} /\ wants' \in {wants, FALSE}
    <2>1. c1 = "idle" /\ events' = events + 1 /\ events < Events
      BY Zenon DEF Launch, Leave, Edit, Replace, Event
    <2>2. UNCHANGED <<slot, latch, engaged, missed, job, mayPlay, done, purged, dirty, settled,
                      odd, wpc, queue, lost>>
      BY DEF Launch, Leave, Edit, Replace, WorkerStill, worker, server
    <2>3. CASE Launch
      BY <2>1, <2>2, <2>3 DEF Launch
    <2>4. CASE Leave
      BY <2>1, <2>2, <2>4 DEF Leave, Dropped
    <2>5. CASE Edit
      BY <2>1, <2>2, <2>5 DEF Edit, Dropped
    <2>6. CASE Replace
      BY <2>1, <2>2, <2>6 DEF Replace
    <2> QED  BY <2>3, <2>4, <2>5, <2>6
  <1>2. dispatched' \in BOOLEAN
    BY <1>0 DEF Launch, Leave, Edit, Replace, Event, GameBits
  <1>3. \/ token' = events' /\ c1' = "quiet"
        \/ token' = token /\ c1' \in {"idle", "wake", "bump", "halt"}
    BY DEF Launch, Leave, Edit, Replace, Event, Dropped
  <1>4. GameBits'
    <2>1. allowed' \in BOOLEAN /\ checked' \in BOOLEAN
      BY Zenon, <1>0, <1>1 DEF GameBits
    <2>2. stop' \in BOOLEAN /\ wants' \in BOOLEAN
      BY Zenon, <1>0, <1>1 DEF GameBits
    <2>3. /\ latch' = latch /\ engaged' = engaged /\ mayPlay' = mayPlay /\ dirty' = dirty
          /\ settled' = settled /\ missed' = missed /\ odd' = odd /\ lost' = lost
      BY <1>1
    <2> QED  BY Zenon, <1>0, <1>2, <2>1, <2>2, <2>3 DEF GameBits
  <1>5. GameRest'
    BY <1>0, <1>1, <1>3, EventsAssumption DEF GameRest
  <1>p. GamePlaces'
    BY <1>0, <1>1, <1>3 DEF GamePlaces
  <1>6. token =< events /\ events' = events + 1 /\ token \in Nat /\ events \in Nat
        /\ slot.token =< token /\ slot.token \in Nat
    BY <1>0, <1>1, Numbers DEF GameInv, Tokens
  <1>7. Tokens'
    BY <1>1, <1>3, <1>6 DEF GameInv, Tokens, Rewriting
  <1>8. \/ token < token'
        \/ UNCHANGED <<token, slot>> /\ c1' \notin Rewriting
    BY <1>1, <1>3, <1>6 DEF Rewriting
  <1> QED  BY <1>1, <1>4, <1>5, <1>p, <1>7, <1>8, Core1Step

(* The handler of a message, one store at a time, and what follows it.             *)
LEMMA HandlerInv ==
    ASSUME GameInv,
           Quiet \/ WriteToken \/ WriteActive \/ Bump \/ VoidToken \/ Void \/ Wake
           \/ Replaced \/ Show
    PROVE  GameInv'
  <1>0. GameBits /\ GameRest /\ GamePlaces
    BY GameTypeParts DEF GameInv
  <1>1. /\ UNCHANGED <<job, mayPlay, done, purged, dirty, settled, odd, queue, lost, allowed,
                       checked, missed, events>>
        /\ UNCHANGED wpc
    BY DEF Quiet, WriteToken, WriteActive, Bump, VoidToken, Void, Wake, Replaced, Show,
           WorkerStill, worker, server
  <1>2. /\ latch' \in BOOLEAN /\ dispatched' \in BOOLEAN /\ stop' \in BOOLEAN
        /\ wants' \in BOOLEAN /\ engaged' \in BOOLEAN
    BY <1>0 DEF Quiet, WriteToken, WriteActive, Bump, VoidToken, Void, Wake, Replaced, Show,
                GameBits
  <1>3. GameBits'
    BY <1>0, <1>1, <1>2 DEF GameBits
  <1>4. GamePlaces'
    BY <1>0, <1>1 DEF Quiet, WriteToken, WriteActive, Bump, VoidToken, Void, Wake, Replaced,
                      Show, Step, GamePlaces
  <1>5. /\ token' \in {token, events}
        /\ \/ slot' \in {slot, NoJob}
           \/ slot' = [slot EXCEPT !.game = token, !.token = token]
           \/ slot' = [slot EXCEPT !.active = TRUE, !.cancel = FALSE]
           \/ slot' = [slot EXCEPT !.token = token]
           \/ slot' = [slot EXCEPT !.active = FALSE, !.cancel = TRUE, !.game = 0]
    BY DEF Quiet, WriteToken, WriteActive, Bump, VoidToken, Void, Wake, Replaced, Show
  <1>6. GameRest'
    <2>1. slot' \in Jobs
      <3>1. slot \in Jobs /\ token \in 0..Events /\ 0 \in 0..Events
        BY <1>0, EventsAssumption DEF GameRest
      <3> QED  BY <3>1, <1>5, NoJobTyped DEF Jobs
    <2> QED  BY <1>0, <1>1, <1>5, <2>1 DEF GameRest
  <1>7. /\ token \in Nat /\ events \in Nat /\ slot.token \in Nat
        /\ token =< events /\ slot.token =< token /\ slot \in Jobs
    BY <1>0, EventsAssumption DEF GameRest, Jobs, GameInv, Tokens
  <1> DEFINE goal == /\ Tokens'
                     /\ \/ token < token'
                        \/ UNCHANGED <<token, slot>> /\ c1' \notin Rewriting
                        \/ token' = token /\ c1 \in Rewriting
  <1>8. ASSUME Quiet  PROVE goal
    BY <1>1, <1>7, <1>8 DEF Quiet, Step, GameInv, Tokens, Rewriting
  <1>9. ASSUME WriteToken  PROVE goal
    <2>1. /\ c1 = "token" /\ c1' = "fields" /\ UNCHANGED <<token, events>>
          /\ slot' = [slot EXCEPT !.game = token, !.token = token]
      BY <1>1, <1>9 DEF WriteToken, Step
    <2>2. slot'.token = token
      BY <2>1, <1>7 DEF Jobs
    <2>3. token # 0
      BY <2>1 DEF GameInv, Tokens, Rewriting
    <2> QED  BY <1>7, <2>1, <2>2, <2>3 DEF Tokens, Rewriting
  <1>10. ASSUME WriteActive  PROVE goal
    <2>1. /\ c1 = "fields" /\ c1' = "wake" /\ UNCHANGED <<token, events>>
          /\ slot' = [slot EXCEPT !.active = TRUE, !.cancel = FALSE]
      BY <1>1, <1>10 DEF WriteActive, Step
    <2>2. slot'.token = slot.token
      BY <2>1, <1>7 DEF Jobs
    <2>3. token # 0
      BY <2>1 DEF GameInv, Tokens, Rewriting
    <2> QED  BY <1>7, <2>1, <2>2, <2>3 DEF Tokens, Rewriting
  <1>11. ASSUME Bump  PROVE goal
    <2>1. /\ c1 = "bump" /\ c1' = "void" /\ token' = events /\ UNCHANGED <<slot, events>>
      BY <1>1, <1>11 DEF Bump, Step
    <2>2. token < events
      BY <2>1 DEF GameInv, Tokens
    <2> QED  BY <1>7, <2>1, <2>2 DEF Tokens, Rewriting
  <1>12. ASSUME VoidToken  PROVE goal
    <2>1. /\ c1 = "void" /\ c1' = "clear" /\ UNCHANGED <<token, events>>
          /\ slot' = [slot EXCEPT !.token = token]
      BY <1>1, <1>12 DEF VoidToken, Step
    <2>2. slot'.token = token
      BY <2>1, <1>7 DEF Jobs
    <2>3. token # 0
      BY <2>1 DEF GameInv, Tokens, Rewriting
    <2> QED  BY <1>7, <2>1, <2>2, <2>3 DEF Tokens, Rewriting
  <1>13. ASSUME Void  PROVE goal
    <2>1. /\ c1 = "clear" /\ c1' \in {"halt", "wake"} /\ UNCHANGED <<token, events>>
          /\ slot' = [slot EXCEPT !.active = FALSE, !.cancel = TRUE, !.game = 0]
      BY <1>1, <1>13 DEF Void
    <2>2. slot'.token = slot.token
      BY <2>1, <1>7 DEF Jobs
    <2>3. token # 0
      BY <2>1 DEF GameInv, Tokens, Rewriting
    <2> QED  BY <1>7, <2>1, <2>2, <2>3 DEF Tokens, Rewriting
  <1>14. ASSUME Wake \/ Show  PROVE goal
    <2>1. c1' \in {"ensure", "idle"} /\ UNCHANGED <<token, slot, events>>
      BY <1>1, <1>14 DEF Wake, Show, Step
    <2> QED  BY <1>7, <2>1 DEF GameInv, Tokens, Rewriting
  <1>15. ASSUME Replaced  PROVE GameInv'
    <2>1. /\ wpc' = "none" /\ c1' = "wake" /\ token' = events /\ slot' = NoJob
          /\ events' = events
      BY <1>1, <1>15 DEF Replaced, Step
    <2>2. Tokens'
      BY <1>7, <2>1 DEF Tokens, Rewriting, NoJob
    <2>3. CopyIsJob' /\ LaunchOnly'
      BY <2>1 DEF CopyIsJob, LaunchOnly, Posted
    <2> QED  BY <1>3, <1>4, <1>6, <2>2, <2>3, GameTypePartsNext DEF GameInv
  <1>16. goal => GameInv'
    BY <1>1, <1>3, <1>4, <1>6, Core1Step
  <1> QED  BY <1>8, <1>9, <1>10, <1>11, <1>12, <1>13, <1>14, <1>15, <1>16

(* A worker begins with the copy that no task has written, which is of no job.     *)
LEMMA EnsureInv == GameInv /\ Ensure => GameInv'
  <1> SUFFICES ASSUME GameInv, Ensure  PROVE GameInv'
    OBVIOUS
  <1>0. GameBits /\ GameRest /\ GamePlaces
    BY GameTypeParts DEF GameInv
  <1>1. /\ UNCHANGED <<token, slot, latch, dispatched, allowed, stop, wants, engaged, mayPlay,
                       odd, queue, lost, events>>
        /\ c1 = "ensure" /\ c1' = "idle"
    BY DEF Ensure, Step, server
  <1>2. \/ /\ wpc' = "top" /\ job' = NoJob /\ done' = 0 /\ purged' = 0
           /\ dirty' = FALSE /\ settled' = FALSE /\ checked' = FALSE
        \/ UNCHANGED <<wpc, done, purged, dirty, settled, checked, job>>
    BY DEF Ensure, Fresh
  <1>3. missed' \in BOOLEAN
    <2>1. CASE missed' = TRUE
      BY <2>1
    <2>2. CASE missed' = FALSE
      BY <2>2
    <2>3. CASE missed' = (wpc \in Leaving)
      BY <2>3
    <2> QED  BY <2>1, <2>2, <2>3 DEF Ensure, Fresh
  <1>4. GameBits'
    BY <1>0, <1>1, <1>2, <1>3 DEF GameBits
  <1>5. GameRest'
    BY <1>0, <1>1, <1>2, NoJobTyped, EventsAssumption DEF GameRest
  <1>6. GamePlaces'
    BY <1>0, <1>1, <1>2 DEF GamePlaces
  <1>7. token \in Nat
    BY <1>0, Numbers
  <1>8. Tokens'
    BY <1>1 DEF GameInv, Tokens, Rewriting
  <1>9. CopyIsJob'
    <2>1. CASE wpc' = "top" /\ job' = NoJob
      <3>1. job'.token = 0 /\ (token = 0 => slot = job')
        BY <2>1 DEF GameInv, Tokens, NoJob
      <3> QED  BY <1>1, <1>7, <3>1 DEF CopyIsJob, Rewriting
    <2>2. CASE UNCHANGED <<wpc, job>>
      BY <1>1, <2>2 DEF GameInv, CopyIsJob, Rewriting
    <2> QED  BY <1>2, <2>1, <2>2
  <1>10. LaunchOnly'
    BY <1>2 DEF GameInv, LaunchOnly, Posted
  <1> QED  BY <1>4, <1>5, <1>6, <1>8, <1>9, <1>10, GameTypePartsNext DEF GameInv

--------------------------------------------------------------------------------
(* The worker.  Between two copies its steps change neither the job nor its copy.  *)
LEMMA WorkerStep ==
    ASSUME GameInv, GameBits', GameRest', GamePlaces',
           UNCHANGED <<token, slot, c1, events, job, odd>>,
           wpc # "none", wpc' \in Posted => wpc \in Posted \/ job.active
    PROVE  GameInv'
  <1>1. Tokens'
    BY DEF GameInv, Tokens
  <1>2. CopyIsJob'
    BY DEF GameInv, CopyIsJob
  <1>3. LaunchOnly'
    BY DEF GameInv, LaunchOnly
  <1> QED  BY <1>1, <1>2, <1>3, GameTypePartsNext DEF GameInv

(* What the steps of the worker but the reading of the job do to the values.       *)
LEMMA WorkTyped ==
    ASSUME GameBits, GameRest,
           Top \/ Probe \/ Purge \/ FreeOld \/ Take \/ Post \/ Clean \/ Prepare
           \/ Session \/ Live \/ Played \/ Pause \/ After \/ FreeNew \/ LookAgain \/ Latch
           \/ LastPurge \/ LastFree \/ Gone
    PROVE  /\ UNCHANGED <<token, slot, c1, events, job, odd>>
           /\ GameBits' /\ GameRest'
  <1>1. /\ UNCHANGED <<token, slot, dispatched, allowed, stop, c1, engaged, events, missed>>
        /\ UNCHANGED <<job, odd>>
    BY DEF Top, Probe, Purge, FreeOld, Take, Post, Clean, Prepare, Session, Live, Played, Pause,
           After, FreeNew, LookAgain, Latch, LastPurge, LastFree, Gone, Core1Still, core1, Same
  <1>2. mayPlay' \in {mayPlay, allowed}
    BY DEF Top, Probe, Purge, FreeOld, Take, Post, Clean, Prepare, Session, Live, Played, Pause,
           After, FreeNew, LookAgain, Latch, LastPurge, LastFree, Gone, Same
  <1>3. dirty' \in {dirty, TRUE, FALSE}
    BY DEF Top, Probe, Purge, FreeOld, Take, Post, Clean, Prepare, Session, Live, Played, Pause,
           After, FreeNew, LookAgain, Latch, LastPurge, LastFree, Gone, Cleanup
  <1>4. settled' \in {settled, TRUE, FALSE} /\ checked' \in {checked, TRUE}
    BY DEF Top, Probe, Purge, FreeOld, Take, Post, Clean, Prepare, Session, Live, Played, Pause,
           After, FreeNew, LookAgain, Latch, LastPurge, LastFree, Gone
  <1>5. latch' \in {latch, FALSE} /\ wants' \in {wants, TRUE, FALSE}
    BY DEF Top, Probe, Purge, FreeOld, Take, Post, Clean, Prepare, Session, Live, Played, Pause,
           After, FreeNew, LookAgain, Latch, LastPurge, LastFree, Gone, FreeBuffers
  <1>6. done' \in {done, job.token}
    BY DEF Top, Probe, Purge, FreeOld, Take, Post, Clean, Prepare, Session, Live, Played, Pause,
           After, FreeNew, LookAgain, Latch, LastPurge, LastFree, Gone, Same
  <1>7. purged' \in {purged, token, job.token}
    BY DEF Top, Probe, Purge, FreeOld, Take, Post, Clean, Prepare, Session, Live, Played, Pause,
           After, FreeNew, LookAgain, Latch, LastPurge, LastFree, Gone, Cleanup
  <1>8. queue' \in {queue, 0, job.game} /\ lost' \in {lost, TRUE, FALSE}
    <2>1. Delete => queue' \in {queue, 0} /\ lost' \in {TRUE, FALSE}
      BY DEF Delete
    <2>2. Cleanup => queue' \in {queue, 0} /\ lost' \in {lost, TRUE, FALSE}
      BY <2>1 DEF Cleanup, server
    <2>3. CASE Take \/ Post
      BY <2>1, <2>3 DEF Take, Post, Accepted, server
    <2>4. CASE Purge \/ Clean \/ After \/ LastPurge
      BY <2>2, <2>4 DEF Purge, Clean, After, LastPurge
    <2>5. CASE Top \/ Probe \/ FreeOld \/ Prepare \/ Session \/ Live \/ Played \/ Pause
               \/ FreeNew \/ LookAgain \/ Latch \/ LastFree \/ Gone
      BY <2>5 DEF Top, Probe, FreeOld, Prepare, Session, Live, Played, Pause, FreeNew,
                  LookAgain, Latch, LastFree, Gone, server
    <2> QED  BY <2>3, <2>4, <2>5
  <1>9. GameBits'
    <2>1. mayPlay' \in BOOLEAN /\ dirty' \in BOOLEAN /\ settled' \in BOOLEAN
      BY <1>2, <1>3, <1>4 DEF GameBits
    <2>2. checked' \in BOOLEAN /\ latch' \in BOOLEAN /\ wants' \in BOOLEAN
      BY <1>4, <1>5 DEF GameBits
    <2>3. lost' \in BOOLEAN
      BY <1>8 DEF GameBits
    <2> QED  BY <1>1, <2>1, <2>2, <2>3 DEF GameBits
  <1>10. GameRest'
    <2>1. job.token \in 0..Events /\ job.game \in 0..Events /\ 0 \in 0..Events
      BY EventsAssumption DEF GameRest, Jobs
    <2> QED  BY <1>1, <1>6, <1>7, <1>8, <2>1 DEF GameRest
  <1> QED  BY <1>1, <1>9, <1>10

(* Where they go: to the server only with a launch.                                *)
LEMMA WorkPlaces ==
    ASSUME Top \/ Probe \/ Purge \/ FreeOld \/ Take \/ Post \/ Clean \/ Prepare
           \/ Session \/ Live \/ Played \/ Pause \/ After \/ FreeNew \/ LookAgain \/ Latch
           \/ LastPurge \/ LastFree \/ Gone,
           GamePlaces, UNCHANGED c1
    PROVE  /\ GamePlaces'
           /\ wpc # "none"
           /\ wpc' \in Posted => wpc \in Posted \/ job.active
  <1>1. CASE Top \/ Probe \/ Purge \/ FreeOld
    BY <1>1 DEF Top, Probe, Purge, FreeOld, At, GamePlaces, Leaving, Posted
  <1>2. CASE Take
    BY <1>2 DEF Take, GamePlaces, Leaving, Posted
  <1>3. CASE Post \/ Clean \/ Prepare
    BY <1>3 DEF Post, Clean, Prepare, At, GamePlaces, Leaving, Posted
  <1>4. CASE Session \/ Live \/ Played \/ Pause
    BY <1>4 DEF Session, Live, Played, Pause, At, GamePlaces, Leaving, Posted
  <1>5. CASE After \/ FreeNew \/ LookAgain \/ Latch
    BY <1>5 DEF After, FreeNew, LookAgain, Latch, At, GamePlaces, Leaving, Posted
  <1>6. CASE LastPurge \/ LastFree \/ Gone
    BY <1>6 DEF LastPurge, LastFree, Gone, At, GamePlaces, Leaving, Posted
  <1> QED  BY <1>1, <1>2, <1>3, <1>4, <1>5, <1>6

(* The reading of the job: in the middle of a change the copy is marked, at any    *)
(* other time it is the job.                                                       *)
LEMMA ReadInv == GameInv /\ Read => GameInv'
  <1> SUFFICES ASSUME GameInv, Read  PROVE GameInv'
    OBVIOUS
  <1>0. GameBits /\ GameRest /\ GamePlaces
    BY GameTypeParts DEF GameInv
  <1>1. /\ UNCHANGED <<token, slot, dispatched, allowed, stop, c1, engaged, events, missed,
                       mayPlay, done, purged, dirty, settled, latch, checked, wants, queue, lost>>
        /\ wpc = "read"
    BY DEF Read, Core1Still, core1, server
  <1>2. \/ /\ wpc' = "purge" /\ job' = slot
           /\ odd' = (c1 \in {"fields", "clear"} \/ mayPlay # allowed)
        \/ wpc' = "look" /\ UNCHANGED <<job, odd>>
    BY DEF Read
  <1>3. GameBits'
    <2>1. odd' \in BOOLEAN
      BY <1>0, <1>2 DEF GameBits
    <2> QED  BY <1>0, <1>1, <2>1 DEF GameBits
  <1>4. GameRest'
    BY <1>0, <1>1, <1>2 DEF GameRest
  <1>5. GamePlaces'
    BY <1>0, <1>1, <1>2 DEF GamePlaces
  <1>6. Tokens'
    BY <1>1 DEF GameInv, Tokens
  <1>7. CopyIsJob'
    <2>1. CASE UNCHANGED <<job, odd>>
      BY <1>1, <2>1 DEF GameInv, CopyIsJob
    <2>2. CASE job' = slot /\ odd' = (c1 \in {"fields", "clear"} \/ mayPlay # allowed)
      <3>1. /\ token \in Nat /\ slot.token \in Nat /\ slot.token =< token
            /\ c1 \in {"quiet", "token", "void"} => slot.token < token
        BY <1>0, Numbers DEF GameInv, Tokens
      <3>2. ~odd' => c1 \notin {"fields", "clear"}
        BY <2>2
      <3>3. slot.token = token => c1 \notin {"quiet", "token", "void"}
        BY <3>1
      <3> QED  BY <1>1, <2>2, <3>1, <3>2, <3>3 DEF CopyIsJob, Rewriting
    <2> QED  BY <1>2, <2>1, <2>2
  <1>8. LaunchOnly'
    BY <1>2 DEF LaunchOnly, Posted
  <1> QED  BY <1>3, <1>4, <1>5, <1>6, <1>7, <1>8, GameTypePartsNext DEF GameInv

LEMMA WorkInv == GameInv /\ Work => GameInv'
  <1> SUFFICES ASSUME GameInv, Work  PROVE GameInv'
    OBVIOUS
  <1>0. GameBits /\ GameRest /\ GamePlaces
    BY GameTypeParts DEF GameInv
  <1>1. CASE Read
    BY <1>1, ReadInv
  <1>2. CASE Top \/ Probe \/ Purge \/ FreeOld \/ Take \/ Post \/ Clean \/ Prepare
             \/ Session \/ Live \/ Played \/ Pause \/ After \/ FreeNew \/ LookAgain \/ Latch
             \/ LastPurge \/ LastFree \/ Gone
    <2>1. /\ UNCHANGED <<token, slot, c1, events, job, odd>>
          /\ GameBits' /\ GameRest'
      BY <1>0, <1>2, WorkTyped
    <2>2. /\ GamePlaces' /\ wpc # "none"
          /\ wpc' \in Posted => wpc \in Posted \/ job.active
      BY <1>0, <1>2, <2>1, WorkPlaces
    <2> QED  BY <2>1, <2>2, WorkerStep
  <1> QED  BY <1>1, <1>2 DEF Work

LEMMA GameNextInv == GameInv /\ [GameNext]_gameVars => GameInv'
  <1> SUFFICES ASSUME GameInv, [GameNext]_gameVars  PROVE GameInv'
    OBVIOUS
  <1>1. CASE Launch \/ Leave \/ Edit \/ Replace
    BY <1>1, MessageInv
  <1>2. CASE Handling
    BY <1>2, HandlerInv, EnsureInv DEF Handling
  <1>3. CASE Work
    BY <1>3, WorkInv
  <1>4. CASE UNCHANGED gameVars
    <2>1. UNCHANGED <<token, slot, dispatched, allowed, stop, c1, job, mayPlay, done, purged,
                      dirty, settled, odd, latch, checked, wants, engaged, wpc, queue, lost,
                      events, missed>>
      BY <1>4 DEF gameVars, core1, worker, server
    <2>2. GameTypeOK'
      <3>1. GameBits /\ GameRest /\ GamePlaces
        BY GameTypeParts DEF GameInv
      <3>2. GameBits'
        BY <2>1, <3>1 DEF GameBits
      <3>3. GameRest'
        BY <2>1, <3>1 DEF GameRest
      <3>4. GamePlaces'
        BY <2>1, <3>1 DEF GamePlaces
      <3> QED  BY <3>2, <3>3, <3>4, GameTypePartsNext
    <2> QED  BY <2>1, <2>2 DEF GameInv, Tokens, CopyIsJob, LaunchOnly
  <1> QED  BY <1>1, <1>2, <1>3, <1>4 DEF GameNext

THEOREM GameSpecInv == GameSpec => []GameInv
  BY GameInitInv, GameNextInv, PTL DEF GameSpec

(* Every variable of the session keeps its kind, whatever the two cores do.        *)
THEOREM GameTypeCorrect == GameSpec => []GameTypeOK
  <1>1. GameInv => GameTypeOK
    BY DEF GameInv
  <1> QED  BY <1>1, GameSpecInv, PTL

(* A session that no token stops is for the game that is being played: the copy    *)
(* that bears the token of now is the job of now, and only a launch gets as far as *)
(* a session (FrontendSyncEngine.cpp:981-999, 1110-1117).                          *)
THEOREM PlayedGame == GameSpec => []PlayedGameOnly
  <1>1. GameInv => PlayedGameOnly
    <2> SUFFICES ASSUME GameInv, wpc \in {"session", "live", "played", "pause"}, ~Stale, ~odd
                 PROVE  slot.game = job.game /\ slot.active
      BY DEF PlayedGameOnly
    <2>1. job.active
      BY DEF GameInv, LaunchOnly, Posted
    <2>2. slot = job
      BY DEF GameInv, CopyIsJob, Stale
    <2> QED  BY <2>1, <2>2
  <1> QED  BY <1>1, GameSpecInv, PTL
================================================================================
