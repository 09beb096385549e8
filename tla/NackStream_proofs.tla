------------------------- MODULE NackStream_proofs --------------------------
(***************************************************************************)
(* Proofs about nack_generator in its stream, for every sequence number    *)
(* width, ring size, retry limit, clock and network: the types of its      *)
(* state; that its window fits its ring and the ring says which packets of *)
(* the window are missing (StreamInv); and from that, how often, when and  *)
(* for which packets it asks.                                              *)
(***************************************************************************)
EXTENDS NackStream, ModularArithmetic

(***************************************************************************)
(* Sequence number arithmetic.                                             *)
(***************************************************************************)
\* A remainder is below its divisor.
LEMMA ModInRange ==
    ASSUME NEW a \in Nat, NEW m \in Nat \ {0} PROVE a % m \in 0 .. m - 1
OBVIOUS

\* get_index stays inside _buffer for every sequence number.
LEMMA IndexIsSlot == ASSUME NEW s \in Seq16 PROVE get_index(s) \in Slots
BY ModInRange, NackAssumption DEF Seq16, Slots, get_index, SeqMod

\* The number a packet carries on the wire is a sequence number.
LEMMA PacketIsSeq == ASSUME NEW n \in Packets PROVE n % SeqMod \in Seq16
BY ModInRange, NackAssumption, StreamAssumption DEF Packets, Seq16, SeqMod

\* uint16_t subtraction of at most a window gives a sequence number.
LEMMA SeqMinusIsSeq == ASSUME NEW a \in Seq16, NEW k \in 0 .. HistorySize PROVE SeqMinus(a, k) \in Seq16
BY NackAssumption DEF Seq16, SeqMinus, SeqMod

\* A number k behind another is at distance k, across the wrap too.
LEMMA DistanceOfSeqMinus ==
    ASSUME NEW a \in Seq16, NEW k \in 0 .. HistorySize PROVE seq_distance(SeqMinus(a, k), a) = k
BY NackAssumption DEF Seq16, SeqMinus, SeqMod, seq_distance

\* Short distances add up, across the wrap too.
LEMMA DistancesAdd ==
    ASSUME NEW a \in Seq16, NEW b \in Seq16, NEW c \in Seq16,
           seq_distance(a, b) \in 0 .. HistorySize - 1, seq_distance(b, c) \in 0 .. HistorySize - 1
    PROVE  seq_distance(a, c) = seq_distance(a, b) + seq_distance(b, c)
BY NackAssumption DEF Seq16, SeqMod, seq_distance

\* seq_distance of a number to itself is zero.
LEMMA DistanceToSelf == ASSUME NEW a \in Seq16 PROVE seq_distance(a, a) = 0
BY NackAssumption DEF Seq16, SeqMod, seq_distance

\* After receive_packet's last statement the window fits the ring again.
LEMMA SlideFits ==
    ASSUME NEW low \in Seq16, NEW high \in Seq16, seq_distance(low, high) \in Nat
    PROVE  /\ Slide(low, high) \in Seq16
           /\ seq_distance(Slide(low, high), high) \in 0 .. HistorySize - 1
<1>1. CASE seq_distance(low, high) >= HistorySize
  BY <1>1, SeqMinusIsSeq, DistanceOfSeqMinus, NackAssumption DEF Slide
<1>2. CASE ~(seq_distance(low, high) >= HistorySize)
  BY <1>2, NackAssumption DEF Slide
<1> QED BY <1>1, <1>2

(***************************************************************************)
(* The ring.                                                               *)
(***************************************************************************)
\* Marking a number as received keeps the ring a ring of nack_info.
LEMMA MarkKeepsRing ==
    ASSUME NEW buf \in [Slots -> NackInfo], NEW s \in Seq16
    PROVE  MarkReceived(buf, s) \in [Slots -> NackInfo]
BY IndexIsSlot DEF MarkReceived, NackInfo

\* A cleared slot is a nack_info.
LEMMA NoInfoIsInfo == NoInfo \in NackInfo
BY NackAssumption DEF NoInfo, NackInfo

\* Clearing the slots of a gap keeps the ring a ring of nack_info.
LEMMA ResetKeepsRing ==
    ASSUME buffer \in [Slots -> NackInfo], NEW s PROVE Reset(s) \in [Slots -> NackInfo]
BY NoInfoIsInfo DEF Reset

\* A visited slot counts at most MaxRetries requests.
LEMMA VisitKeepsInfo ==
    ASSUME NEW info \in NackInfo, NEW t \in Nat PROVE Visit(info, t) \in NackInfo
<1>1. CASE Due(info, t)
  <2>1. info.retry_count + 1 \in 0 .. MaxRetries
    BY <1>1, NackAssumption DEF Due, GivenUp, NackInfo
  <2> QED BY <1>1, <2>1 DEF Visit, NackInfo
<1>2. CASE ~Due(info, t)
  <2> DEFINE r == info.received \/ GivenUp(info)
  <2>1. r \in BOOLEAN
    OBVIOUS
  <2>2. Visit(info, t) = [info EXCEPT !.received = r]
    BY <1>2 DEF Visit
  <2> HIDE DEF r
  <2> QED BY <2>1, <2>2 DEF NackInfo
<1> QED BY <1>1, <1>2

-----------------------------------------------------------------------------
Fits == TypeOK /\ WindowFitsRing

\* receive_packet keeps the types and the window, in each of its four cases.
LEMMA ReceiveFits == ASSUME Fits, NEW s \in Seq16, receive_packet(s) PROVE Fits'
<1> USE NackAssumption
<1>1. buffer \in [Slots -> NackInfo] /\ highest \in Seq16 /\ lowest \in Seq16
      /\ seq_distance(lowest, highest) \in 0 .. HistorySize - 1
  BY DEF Fits, TypeOK, WindowFitsRing
<1>2. initialized' \in BOOLEAN /\ UNCHANGED <<rtt, nacks>>
  BY DEF receive_packet, Fits, TypeOK
<1>3. buffer' \in [Slots -> NackInfo]
  BY <1>1, MarkKeepsRing, ResetKeepsRing, NoInfoIsInfo DEF receive_packet
<1>4. \/ ~initialized /\ highest' = s /\ lowest' = s
      \/ initialized /\ seq_distance(highest, s) <= 0 /\ UNCHANGED <<highest, lowest>>
      \/ /\ initialized /\ seq_distance(highest, s) >= HistorySize
         /\ highest' = s /\ lowest' = Slide(SeqMinus(s, HistorySize - 1), s)
      \/ /\ initialized /\ seq_distance(highest, s) \in 1 .. HistorySize - 1
         /\ highest' = s /\ lowest' = Slide(lowest, s)
  BY DEF receive_packet
<1>5. /\ highest' \in Seq16 /\ lowest' \in Seq16
      /\ seq_distance(lowest', highest') \in 0 .. HistorySize - 1
  <2>1. CASE ~initialized /\ highest' = s /\ lowest' = s
    BY <2>1, DistanceToSelf
  <2>2. CASE UNCHANGED <<highest, lowest>>
    BY <1>1, <2>2
  <2>3. CASE highest' = s /\ lowest' = Slide(SeqMinus(s, HistorySize - 1), s)
    <3>1. /\ SeqMinus(s, HistorySize - 1) \in Seq16
          /\ seq_distance(SeqMinus(s, HistorySize - 1), s) = HistorySize - 1
      BY SeqMinusIsSeq, DistanceOfSeqMinus
    <3> QED BY <2>3, <3>1, SlideFits
  <2>4. CASE /\ seq_distance(highest, s) \in 1 .. HistorySize - 1
             /\ highest' = s /\ lowest' = Slide(lowest, s)
    <3>1. seq_distance(lowest, s) \in Nat
      BY <1>1, <2>4, DistancesAdd
    <3> QED BY <1>1, <2>4, <3>1, SlideFits
  <2> QED BY <1>4, <2>1, <2>2, <2>3, <2>4
<1> QED BY <1>1, <1>2, <1>3, <1>5 DEF Fits, TypeOK, WindowFitsRing

\* get_nacks keeps the types and the window: the retry count it raises was
\* below the limit.
LEMMA PollFits == ASSUME Fits, NEW t \in Nat, get_nacks(t) PROVE Fits'
<1>1. buffer' \in [Slots -> NackInfo]
  BY VisitKeepsInfo DEF get_nacks, Fits, TypeOK
<1>2. nacks' \in SUBSET Seq16
  <2>1. Scanned \subseteq Seq16
    <3>1. Span \in Int /\ Span <= HistorySize
      BY NackAssumption DEF Fits, TypeOK, Span, WindowFitsRing, SeqMod
    <3> QED BY <3>1, SeqMinusIsSeq, NackAssumption DEF Scanned, Fits, TypeOK
  <2> QED BY <2>1 DEF get_nacks
<1> QED BY <1>1, <1>2 DEF get_nacks, Fits, TypeOK, WindowFitsRing

\* The clock, besides the generator.
StreamFits == Fits /\ now \in Nat

\* The invariant holds before the first packet.
LEMMA StreamFitsInit == StreamInit => StreamFits
<1> SUFFICES ASSUME StreamInit PROVE StreamFits
  OBVIOUS
<1>1. 0 \in Seq16
  BY NackAssumption DEF Seq16, SeqMod
<1>2. TypeOK
  BY <1>1, NoInfoIsInfo, NackAssumption DEF StreamInit, Init, TypeOK
<1>3. WindowFitsRing
  BY <1>1, DistanceToSelf, NackAssumption DEF StreamInit, Init, WindowFitsRing
<1> QED BY <1>2, <1>3 DEF StreamInit, StreamFits, Fits

\* Arrivals, polls and RTT updates keep the invariant.
LEMMA StreamFitsStep == ASSUME StreamFits, [StreamNext]_streamVars PROVE StreamFits'
<1>1. ASSUME NEW n \in Packets, Arrive(n) PROVE StreamFits'
  BY <1>1, PacketIsSeq, ReceiveFits DEF StreamFits, Arrive
<1>2. CASE Poll
  <2>1. now' \in Nat
    BY <1>2, StreamAssumption DEF Poll, StreamFits
  <2> QED BY <1>2, <2>1, PollFits DEF Poll, StreamFits
<1>3. CASE RttUpdate
  <2>1. PICK r \in RttSamples : update_rtt(r)
    BY <1>3 DEF RttUpdate
  <2>2. rtt' \in Nat
    BY <2>1, StreamAssumption DEF update_rtt, StreamFits, Fits, TypeOK
  <2> QED BY <1>3, <2>1, <2>2 DEF RttUpdate, update_rtt, StreamFits, Fits, TypeOK, WindowFitsRing
<1>4. CASE UNCHANGED streamVars
  BY <1>4 DEF streamVars, nackVars, StreamFits, Fits, TypeOK, WindowFitsRing
<1> QED BY <1>1, <1>2, <1>3, <1>4 DEF StreamNext

\* The inductive invariant of the stream: types and a window that fits.
THEOREM StreamFitsAlways == StreamSpec => []StreamFits
BY StreamFitsInit, StreamFitsStep, PTL DEF StreamSpec

\* The generator's state is well typed whatever the network and the reception
\* reports do: no retry count passes _max_retries, no index leaves the ring.
THEOREM NackTypeCorrect == StreamSpec => []TypeOK
<1>1. StreamFits => TypeOK
  BY DEF StreamFits, Fits
<1> QED BY <1>1, StreamFitsAlways, PTL

\* The window never holds more numbers than the ring has slots, across jumps,
\* reordering and wraps of the sequence number.
THEOREM WindowAlwaysFits == StreamSpec => []WindowFitsRing
<1>1. StreamFits => WindowFitsRing
  BY DEF StreamFits, Fits
<1> QED BY <1>1, StreamFitsAlways, PTL

-----------------------------------------------------------------------------
(***************************************************************************)
(* The ring against the packets themselves: the highest number is that of  *)
(* the newest packet, the window starts no earlier than the stream, and    *)
(* the slot of each packet strictly inside the window says what really     *)
(* happened to that packet and to no other one.                            *)
(***************************************************************************)
Inside(n) == n > Lowest /\ n < newest
SlotOf(n) == buffer[n % HistorySize]

\* The slot of a missing packet holds the requests for that packet.
SlotMatches(n) ==
    /\ SlotOf(n).retry_count = asked[n].count
    /\ SlotOf(n).nacked <=> asked[n].count > 0
    /\ SlotOf(n).nacked => SlotOf(n).last_nack_time = asked[n].last
    /\ SlotOf(n).received => asked[n].count >= MaxRetries

RingMatches ==
    /\ first \in Packets /\ newest \in Packets /\ first <= Lowest
    /\ highest = newest % SeqMod
    /\ newest \in arrived
    /\ \A n \in arrived : n > newest - HistorySize /\ n <= newest
    /\ \A n \in arrived : SlotOf(n).received
    /\ \A n \in Packets : n > newest => asked[n].count = 0
    /\ \A n \in Packets : Inside(n) /\ n \notin arrived => SlotMatches(n)

NothingYet == newest = -1 /\ arrived = {} /\ \A n \in Packets : asked[n].count = 0

Requests == [count : 0 .. MaxRetries, last : Nat]

StreamInv ==
    /\ StreamFits
    /\ asked \in [Packets -> Requests] /\ arrived \subseteq Packets
    /\ initialized <=> first # -1
    /\ IF first = -1 THEN NothingYet ELSE RingMatches

(***************************************************************************)
(* Packets and their numbers on the wire.                                  *)
(***************************************************************************)
\* A packet's slot is the one of its number.
LEMMA SlotOfPacket == ASSUME NEW n \in Nat PROVE get_index(n % SeqMod) = n % HistorySize
<1>1. n \in Int /\ SeqMod \in Nat \ {0} /\ HistorySize \in Nat \ {0} /\ SeqMod % HistorySize = 0
  BY NackAssumption DEF SeqMod
<1> QED BY <1>1, ModMod, Zenon DEF get_index

\* A packet's slot is in the ring.
LEMMA SlotInRing == ASSUME NEW n \in Nat PROVE n % HistorySize \in Slots
BY ModInRange, NackAssumption DEF Slots

\* Packets less than a window apart have different slots.
LEMMA SlotsDiffer ==
    ASSUME NEW a \in Nat, NEW b \in Nat, a - b < HistorySize, b - a < HistorySize, a # b
    PROVE  a % HistorySize # b % HistorySize
<1>1. a \in Int /\ b \in Int /\ HistorySize \in Nat \ {0}
  BY NackAssumption
<1> QED BY <1>1, ModUnique, Zenon

\* The signed distance of two numbers is that of their packets.
LEMMA DistanceOfPackets ==
    ASSUME NEW a \in Nat, NEW b \in Nat, b - a < Half, a - b < Half
    PROVE  seq_distance(a % SeqMod, b % SeqMod) = b - a
<1> DEFINE p == a \div SeqMod
           q == b \div SeqMod
           r == a % SeqMod
           s == b % SeqMod
<1>1. SeqMod \in Nat \ {0} /\ Half \in Nat /\ SeqMod = 2 * Half
  BY NackAssumption DEF SeqMod
<1>2. /\ p \in Int /\ r \in 0 .. SeqMod - 1 /\ a = SeqMod * p + r
      /\ q \in Int /\ s \in 0 .. SeqMod - 1 /\ b = SeqMod * q + s
  <2>1. a \in Int /\ b \in Int
    OBVIOUS
  <2> QED BY <1>1, <2>1, DivMod, Zenon
<1> HIDE DEF p, q, r, s
<1>3. b - a = SeqMod * (q - p) + (s - r)
  BY <1>1, <1>2
<1>4. q - p \in {-1, 0, 1}
  <2>1. CASE q - p >= 2
    <3>1. SeqMod * (q - p) >= SeqMod * 2
      BY <1>1, <1>2, <2>1
    <3> QED BY <1>1, <1>2, <1>3, <3>1
  <2>2. CASE q - p <= -2
    <3>1. SeqMod * (q - p) <= SeqMod * (-2)
      BY <1>1, <1>2, <2>2
    <3> QED BY <1>1, <1>2, <1>3, <3>1
  <2> QED BY <1>2, <2>1, <2>2
<1>5. b - a \in {s - r, s - r + SeqMod, s - r - SeqMod}
  BY <1>1, <1>2, <1>3, <1>4
<1>6. seq_distance(r, s) = b - a
  BY <1>1, <1>2, <1>5 DEF seq_distance
<1> QED BY <1>6 DEF r, s

\* uint16_t subtraction goes back from packet to packet.
LEMMA SeqMinusOfPacket ==
    ASSUME NEW n \in Nat, NEW i \in 0 .. HistorySize, i <= n
    PROVE  SeqMinus(n % SeqMod, i) = (n - i) % SeqMod
<1> DEFINE p == n \div SeqMod
           r == n % SeqMod
<1>1. SeqMod \in Nat \ {0} /\ HistorySize <= SeqMod
  BY NackAssumption DEF SeqMod
<1>2. p \in Int /\ r \in 0 .. SeqMod - 1 /\ n = SeqMod * p + r
  <2>1. n \in Int
    OBVIOUS
  <2> QED BY <1>1, <2>1, DivMod, Zenon
<1> HIDE DEF p, r
<1>3. CASE r >= i
  <2>1. n - i = SeqMod * p + (r - i) /\ r - i \in 0 .. SeqMod - 1 /\ n - i \in Int
    BY <1>2, <1>3, <1>1
  <2>2. (n - i) % SeqMod = r - i
    BY <1>1, <1>2, <2>1, ModIs
  <2> QED BY <1>3, <2>2 DEF SeqMinus, r
<1>4. CASE r < i
  <2>1. n - i = SeqMod * (p - 1) + (r - i + SeqMod)
    BY <1>1, <1>2, <1>4
  <2>2. r - i + SeqMod \in 0 .. SeqMod - 1 /\ n - i \in Int /\ p - 1 \in Int
    BY <1>1, <1>2, <1>4, NackAssumption
  <2>3. (n - i) % SeqMod = r - i + SeqMod
    BY <1>1, <2>1, <2>2, ModIs
  <2>4. ~(r >= i)
    BY <1>1, <1>2, <1>4, NackAssumption
  <2> QED BY <2>3, <2>4 DEF SeqMinus, r
<1> QED BY <1>2, <1>3, <1>4, NackAssumption

\* The slots that receive_packet clears are those of the packets in between.
LEMMA ClearedSlots ==
    ASSUME NEW m \in Nat, NEW n \in Nat, highest = m % SeqMod, n - m \in 1 .. HistorySize - 1
    PROVE  /\ \A k \in Nat : m < k /\ k < n => Reset(n % SeqMod)[k % HistorySize] = NoInfo
           /\ \A k \in Nat : k <= m /\ k > n - HistorySize
                 => Reset(n % SeqMod)[k % HistorySize] = buffer[k % HistorySize]
<1> DEFINE gap == { get_index((highest + i) % SeqMod) : i \in 1 .. n - m - 1 }
<1>0. SeqMod \in Nat \ {0} /\ HistorySize \in Nat \ {0}
  BY NackAssumption DEF SeqMod
<1>1. seq_distance(highest, n % SeqMod) = n - m
  BY DistanceOfPackets, NackAssumption
<1>2. Reset(n % SeqMod) = [k \in Slots |-> IF k \in gap THEN NoInfo ELSE buffer[k]]
  BY <1>1 DEF Reset
<1>3. \A i \in 1 .. n - m - 1 : get_index((highest + i) % SeqMod) = (m + i) % HistorySize
  <2> SUFFICES ASSUME NEW i \in 1 .. n - m - 1
               PROVE  get_index((highest + i) % SeqMod) = (m + i) % HistorySize
    OBVIOUS
  <2>1. (highest + i) % SeqMod = (m + i) % SeqMod
    <3>1. m \in Int /\ i \in Int
      OBVIOUS
    <3> QED BY <1>0, <3>1, ModPlus, Zenon
  <2>2. m + i \in Nat
    OBVIOUS
  <2> QED BY <2>1, <2>2, SlotOfPacket
<1> HIDE DEF gap
<1>4. ASSUME NEW k \in Nat, m < k, k < n PROVE k % HistorySize \in gap
  <2>1. k - m \in 1 .. n - m - 1 /\ m + (k - m) = k
    BY <1>4
  <2>2. get_index((highest + (k - m)) % SeqMod) = k % HistorySize
    BY <1>3, <2>1
  <2> QED BY <2>1, <2>2 DEF gap
<1>5. ASSUME NEW k \in Nat, k <= m, k > n - HistorySize PROVE k % HistorySize \notin gap
  <2> SUFFICES ASSUME NEW i \in 1 .. n - m - 1 PROVE k % HistorySize # (m + i) % HistorySize
    BY <1>3 DEF gap
  <2>1. m + i \in Nat /\ m + i # k /\ k - (m + i) < HistorySize /\ (m + i) - k < HistorySize
    BY <1>0, <1>5
  <2> QED BY <2>1, SlotsDiffer
<1> QED BY <1>2, <1>4, <1>5, SlotInRing

(***************************************************************************)
(* Arrivals, in the cases of receive_packet.                               *)
(***************************************************************************)
\* The distance receive_packet sees is the one between the packets.
LEMMA ArrivalDistance ==
    ASSUME RingMatches, NEW n \in Packets, n - newest \in -Reach .. Reach
    PROVE  seq_distance(highest, n % SeqMod) = n - newest
BY DistanceOfPackets, NackAssumption, StreamAssumption DEF RingMatches, Packets

\* Marking a packet as received touches its own slot and no other one.
LEMMA MarkedSlots ==
    ASSUME NEW buf \in [Slots -> NackInfo], NEW n \in Nat
    PROVE  /\ MarkReceived(buf, n % SeqMod)[n % HistorySize].received
           /\ \A m \in Nat : buf[m % HistorySize].received
                 => MarkReceived(buf, n % SeqMod)[m % HistorySize].received
           /\ \A m \in Nat : m # n /\ m - n < HistorySize /\ n - m < HistorySize
                 => MarkReceived(buf, n % SeqMod)[m % HistorySize] = buf[m % HistorySize]
<1> DEFINE k == n % HistorySize
<1>1. k \in Slots
  BY SlotInRing
<1>2. MarkReceived(buf, n % SeqMod) = [buf EXCEPT ![k].received = TRUE]
  BY SlotOfPacket DEF MarkReceived
<1>3. ASSUME NEW m \in Nat, m # n, m - n < HistorySize, n - m < HistorySize
      PROVE  m % HistorySize # k
  BY <1>3, SlotsDiffer
<1>4. buf[k] \in NackInfo
  BY <1>1
<1> HIDE DEF k
<1>5. [buf EXCEPT ![k].received = TRUE][k].received
  BY <1>1, <1>4 DEF NackInfo
<1>6. ASSUME NEW j \in Slots, j # k PROVE [buf EXCEPT ![k].received = TRUE][j] = buf[j]
  BY <1>1, <1>6
<1>7. \A m \in Nat : m % HistorySize \in Slots
  BY SlotInRing
<1> QED BY <1>1, <1>2, <1>3, <1>5, <1>6, <1>7 DEF k

\* The first packet: the window is that packet alone.
LEMMA FirstArrival ==
    ASSUME StreamInv, NEW n \in Packets, Arrive(n), first = -1, StreamFits'
    PROVE  StreamInv'
<1>1. ~initialized /\ NothingYet /\ buffer \in [Slots -> NackInfo]
  BY DEF StreamInv, StreamFits, Fits, TypeOK
<1>2. /\ initialized' = TRUE /\ highest' = n % SeqMod /\ lowest' = n % SeqMod
      /\ buffer' = MarkReceived(buffer, n % SeqMod)
  BY <1>1 DEF Arrive, receive_packet
<1>3. n \in Nat /\ n >= 0 /\ -1 \notin Packets
  BY StreamAssumption DEF Packets
<1>4. first' = n /\ newest' = n /\ asked' = asked
  BY <1>1, <1>3 DEF Arrive, NothingYet
<1>5. arrived' = {n}
  BY <1>1, <1>3, <1>4, NackAssumption DEF Arrive, NothingYet, Recent, Packets
<1>6. Lowest' = n
  BY <1>2, <1>3, <1>4, PacketIsSeq, DistanceToSelf DEF Lowest
<1>7. RingMatches'
  BY <1>1, <1>2, <1>3, <1>4, <1>5, <1>6, MarkedSlots, NackAssumption
     DEF RingMatches, Inside, SlotOf, NothingYet, Packets
<1> QED BY <1>2, <1>3, <1>4, <1>5, <1>7 DEF StreamInv

\* A packet that was overtaken, or a copy.
LEMMA LateArrival ==
    ASSUME StreamInv, NEW n \in Packets, Arrive(n), first # -1, n <= newest, StreamFits'
    PROVE  StreamInv'
<1>1. initialized /\ RingMatches /\ buffer \in [Slots -> NackInfo]
  BY DEF StreamInv, StreamFits, Fits, TypeOK
<1>2. n \in Nat /\ newest \in Nat /\ \A m \in Packets : m \in Nat
  BY <1>1, StreamAssumption DEF Packets, RingMatches
<1>3. n - newest \in -Reach .. Reach /\ first' = first /\ newest' = newest /\ asked' = asked
  BY <1>2 DEF Arrive
<1>4. seq_distance(highest, n % SeqMod) = n - newest
  BY <1>1, <1>3, ArrivalDistance
<1>5. /\ UNCHANGED <<initialized, highest, lowest>>
      /\ buffer' = IF n - newest > -HistorySize THEN MarkReceived(buffer, n % SeqMod) ELSE buffer
  <2>1. n - newest <= 0 /\ ~(n - newest >= HistorySize) /\ n - newest \notin 1 .. HistorySize - 1
    BY <1>2, NackAssumption
  <2> QED BY <1>1, <1>4, <2>1 DEF Arrive, receive_packet
<1>6. Lowest' = Lowest
  BY <1>3, <1>5 DEF Lowest
<1>7. arrived' = IF n - newest > -HistorySize THEN arrived \cup {n} ELSE arrived
  <2>1. \A m \in arrived \cup {n} : m \in Nat /\ m \in Packets
    BY <1>2 DEF StreamInv
  <2>2. \A m \in arrived : m \in Recent(newest)
    BY <1>1, <2>1 DEF Recent, RingMatches
  <2>3. n \in Recent(newest) <=> n - newest > -HistorySize
    BY <1>2, NackAssumption DEF Recent
  <2>4. arrived' = (arrived \cup {n}) \cap Recent(newest)
    BY <1>3 DEF Arrive
  <2> QED BY <2>2, <2>3, <2>4
<1>8. CASE n - newest > -HistorySize
  <2>1. buffer' = MarkReceived(buffer, n % SeqMod) /\ arrived' = arrived \cup {n}
    BY <1>5, <1>7, <1>8
  <2>2. \A m \in arrived' : SlotOf(m)'.received
    BY <1>1, <1>2, <2>1, MarkedSlots DEF RingMatches, SlotOf, StreamInv
  <2>3. ASSUME NEW m \in Packets, Inside(m)', m \notin arrived' PROVE SlotMatches(m)'
    <3>1. Inside(m) /\ m \notin arrived /\ m # n /\ m \in Nat
      BY <1>2, <1>3, <1>6, <2>1, <2>3 DEF Inside
    <3>2. m > newest - HistorySize
      BY <1>2, <3>1, NackAssumption DEF Inside, Lowest, StreamInv, StreamFits, Fits, WindowFitsRing
    <3>3. m - n < HistorySize /\ n - m < HistorySize
      BY <1>2, <1>8, <3>1, <3>2, NackAssumption DEF Inside
    <3>4. SlotOf(m)' = SlotOf(m)
      BY <1>1, <1>2, <2>1, <3>1, <3>3, MarkedSlots DEF SlotOf
    <3> QED BY <1>1, <1>3, <3>1, <3>4 DEF SlotMatches, RingMatches
  <2>4. RingMatches'
    BY <1>1, <1>2, <1>3, <1>5, <1>6, <1>8, <2>1, <2>2, <2>3, NackAssumption DEF RingMatches
  <2> QED BY <1>3, <1>5, <2>1, <2>4 DEF StreamInv
<1>9. CASE ~(n - newest > -HistorySize)
  <2>1. buffer' = buffer /\ arrived' = arrived
    BY <1>5, <1>7, <1>9
  <2>2. RingMatches'
    BY <1>1, <1>3, <1>5, <1>6, <2>1 DEF RingMatches, Inside, SlotOf, SlotMatches
  <2> QED BY <1>3, <1>5, <2>1, <2>2 DEF StreamInv
<1> QED BY <1>8, <1>9

\* A packet ahead of the newest one, within the window: the slots of those in
\* between are cleared, the slots of the others keep what they say.
LEMMA NextArrival ==
    ASSUME StreamInv, NEW n \in Packets, Arrive(n), first # -1,
           n - newest \in 1 .. HistorySize - 1, StreamFits'
    PROVE  StreamInv'
<1> DEFINE ring == Reset(n % SeqMod)
<1>1. /\ initialized /\ RingMatches /\ buffer \in [Slots -> NackInfo]
      /\ lowest \in Seq16 /\ highest \in Seq16
      /\ seq_distance(lowest, highest) \in 0 .. HistorySize - 1
  BY DEF StreamInv, StreamFits, Fits, TypeOK, WindowFitsRing
<1>2. n \in Nat /\ newest \in Nat /\ \A m \in Packets : m \in Nat
  BY <1>1, StreamAssumption DEF Packets, RingMatches
<1>3. n - newest \in -Reach .. Reach /\ first' = first /\ newest' = n /\ asked' = asked
  BY <1>2 DEF Arrive
<1>4. seq_distance(highest, n % SeqMod) = n - newest
  BY <1>1, <1>3, ArrivalDistance
<1>5. /\ initialized' = initialized /\ highest' = n % SeqMod /\ lowest' = Slide(lowest, n % SeqMod)
      /\ buffer' = MarkReceived(ring, n % SeqMod)
  <2>1. ~(n - newest <= 0) /\ ~(n - newest >= HistorySize)
    BY <1>2, NackAssumption
  <2> QED BY <1>1, <1>4, <2>1 DEF Arrive, receive_packet
<1>6. ring \in [Slots -> NackInfo]
  BY <1>1, ResetKeepsRing
<1>7. highest = newest % SeqMod
  BY <1>1 DEF RingMatches
<1>8. /\ \A k \in Nat : newest < k /\ k < n => ring[k % HistorySize] = NoInfo
      /\ \A k \in Nat : k <= newest /\ k > n - HistorySize
            => ring[k % HistorySize] = buffer[k % HistorySize]
  BY <1>2, <1>7, ClearedSlots
<1> HIDE DEF ring
<1>9. Lowest' >= Lowest /\ Lowest' > n - HistorySize
  <2>1. n % SeqMod \in Seq16
    BY PacketIsSeq
  <2>2. seq_distance(lowest, n % SeqMod) = seq_distance(lowest, highest) + (n - newest)
    BY <1>1, <1>4, <2>1, DistancesAdd
  <2>3. CASE seq_distance(lowest, n % SeqMod) >= HistorySize
    <3>1. lowest' = SeqMinus(n % SeqMod, HistorySize - 1)
      BY <1>5, <2>3 DEF Slide
    <3>2. seq_distance(lowest', highest') = HistorySize - 1
      BY <1>5, <2>1, <3>1, DistanceOfSeqMinus, NackAssumption
    <3> QED BY <1>1, <1>2, <1>3, <2>2, <2>3, <3>2, NackAssumption DEF Lowest
  <2>4. CASE ~(seq_distance(lowest, n % SeqMod) >= HistorySize)
    <3>1. lowest' = lowest
      BY <1>5, <2>4 DEF Slide
    <3> QED BY <1>1, <1>2, <1>3, <1>5, <2>2, <2>4, <3>1, NackAssumption DEF Lowest
  <2> QED BY <2>3, <2>4
<1>10. Lowest \in Int /\ Lowest' \in Int /\ Lowest <= newest
  BY <1>1, <1>2, <1>3 DEF Lowest, StreamFits, Fits, WindowFitsRing
<1>11. arrived' = { m \in arrived : m > n - HistorySize } \cup {n}
  <2>1. arrived' = (arrived \cup {n}) \cap Recent(n)
    BY <1>3 DEF Arrive
  <2>2. n \in Recent(n)
    BY <1>2, NackAssumption DEF Recent
  <2>3. \A m \in arrived : m \in Recent(n) <=> m > n - HistorySize
    BY DEF Recent, StreamInv
  <2> QED BY <2>1, <2>2, <2>3
<1>12. ASSUME NEW m \in Nat, m <= newest, m > n - HistorySize PROVE SlotOf(m)' = SlotOf(m)
  <2>1. m # n /\ m - n < HistorySize /\ n - m < HistorySize
    BY <1>2, <1>12, NackAssumption
  <2> QED BY <1>2, <1>5, <1>6, <1>8, <1>12, <2>1, MarkedSlots DEF SlotOf
<1>13. ASSUME NEW m \in arrived' PROVE SlotOf(m)'.received
  <2>1. CASE m = n
    BY <1>2, <1>5, <1>6, <2>1, MarkedSlots DEF SlotOf
  <2>2. CASE m # n
    <3>1. m \in arrived /\ m > n - HistorySize /\ m \in Nat /\ m <= newest
      BY <1>1, <1>2, <1>11, <1>13, <2>2 DEF RingMatches, StreamInv
    <3> QED BY <1>1, <1>12, <3>1 DEF RingMatches
  <2> QED BY <2>1, <2>2
<1>14. ASSUME NEW m \in Packets, Inside(m)', m \notin arrived' PROVE SlotMatches(m)'
  <2>1. m \in Nat /\ m > n - HistorySize /\ m < n /\ m > Lowest
    BY <1>2, <1>3, <1>9, <1>10, <1>14, NackAssumption DEF Inside
  <2>2. CASE m <= newest
    <3>1. m \notin arrived /\ m < newest
      BY <1>1, <1>2, <1>11, <1>14, <2>1, <2>2 DEF RingMatches
    <3>2. SlotMatches(m)
      BY <1>1, <2>1, <3>1 DEF RingMatches, Inside
    <3> QED BY <1>3, <1>12, <2>1, <2>2, <3>2 DEF SlotMatches
  <2>3. CASE m > newest
    <3>1. m # n /\ m - n < HistorySize /\ n - m < HistorySize
      BY <1>2, <2>1, NackAssumption
    <3>2. SlotOf(m)' = NoInfo
      BY <1>2, <1>5, <1>6, <1>8, <2>1, <2>3, <3>1, MarkedSlots DEF SlotOf
    <3>3. asked'[m].count = 0
      BY <1>1, <1>3, <2>3 DEF RingMatches
    <3> QED BY <3>2, <3>3 DEF SlotMatches, NoInfo
  <2> QED BY <1>2, <2>1, <2>2, <2>3
<1>15. \A m \in arrived' : m > n - HistorySize /\ m <= n /\ m \in Packets
  BY <1>1, <1>2, <1>11, NackAssumption DEF RingMatches, StreamInv
<1>16. RingMatches'
  <2>1. first' \in Packets /\ newest' \in Packets /\ first' <= Lowest'
    BY <1>1, <1>2, <1>3, <1>9, <1>10 DEF RingMatches
  <2>2. \A m \in Packets : m > n => asked'[m].count = 0
    BY <1>1, <1>2, <1>3 DEF RingMatches
  <2>3. n \in arrived'
    BY <1>11
  <2> QED BY <1>3, <1>5, <1>13, <1>14, <1>15, <2>1, <2>2, <2>3 DEF RingMatches
<1> QED BY <1>1, <1>3, <1>5, <1>15, <1>16 DEF StreamInv

\* A jump past the window: the ring starts over.
LEMMA JumpArrival ==
    ASSUME StreamInv, NEW n \in Packets, Arrive(n), first # -1,
           n - newest >= HistorySize, StreamFits'
    PROVE  StreamInv'
<1> DEFINE ring == [k \in Slots |-> NoInfo]
<1>1. initialized /\ RingMatches /\ highest \in Seq16 /\ WindowFitsRing
  BY DEF StreamInv, StreamFits, Fits, TypeOK
<1>2. n \in Nat /\ newest \in Nat /\ \A m \in Packets : m \in Nat
  BY <1>1, StreamAssumption DEF Packets, RingMatches
<1>3. n - newest \in -Reach .. Reach /\ first' = first /\ newest' = n /\ asked' = asked
  BY <1>2, NackAssumption DEF Arrive
<1>4. seq_distance(highest, n % SeqMod) = n - newest
  BY <1>1, <1>3, ArrivalDistance
<1>5. /\ initialized' = initialized /\ highest' = n % SeqMod
      /\ lowest' = Slide(SeqMinus(n % SeqMod, HistorySize - 1), n % SeqMod)
      /\ buffer' = MarkReceived(ring, n % SeqMod)
  <2>1. ~(n - newest <= 0) /\ n - newest \notin 1 .. HistorySize - 1
    BY <1>2, NackAssumption
  <2> QED BY <1>1, <1>4, <2>1 DEF Arrive, receive_packet
<1>6. ring \in [Slots -> NackInfo] /\ \A m \in Nat : ring[m % HistorySize] = NoInfo
  BY NoInfoIsInfo, SlotInRing
<1> HIDE DEF ring
<1>7. Lowest' = n - (HistorySize - 1)
  <2>1. n % SeqMod \in Seq16
    BY PacketIsSeq
  <2>2. seq_distance(SeqMinus(n % SeqMod, HistorySize - 1), n % SeqMod) = HistorySize - 1
    BY <2>1, DistanceOfSeqMinus, NackAssumption
  <2>3. lowest' = SeqMinus(n % SeqMod, HistorySize - 1)
    BY <1>5, <2>2, NackAssumption DEF Slide
  <2> QED BY <1>3, <1>5, <2>2, <2>3 DEF Lowest
<1>8. arrived' = {n}
  <2>1. arrived' = (arrived \cup {n}) \cap Recent(n)
    BY <1>2, <1>3 DEF Arrive
  <2>2. n \in Recent(n)
    BY <1>2, NackAssumption DEF Recent
  <2>3. \A m \in arrived : m \notin Recent(n)
    BY <1>1, <1>2, NackAssumption DEF Recent, StreamInv, RingMatches
  <2> QED BY <2>1, <2>2, <2>3
<1>9. SlotOf(n)'.received
  BY <1>2, <1>5, <1>6, MarkedSlots DEF SlotOf
<1>10. ASSUME NEW m \in Packets, Inside(m)', m \notin arrived' PROVE SlotMatches(m)'
  <2>1. m \in Nat /\ m > newest /\ m # n /\ m - n < HistorySize /\ n - m < HistorySize
    BY <1>2, <1>3, <1>7, <1>10, NackAssumption DEF Inside
  <2>2. SlotOf(m)' = NoInfo
    BY <1>2, <1>5, <1>6, <2>1, MarkedSlots DEF SlotOf
  <2>3. asked'[m].count = 0
    BY <1>1, <1>3, <2>1 DEF RingMatches
  <2> QED BY <2>2, <2>3 DEF SlotMatches, NoInfo
<1>11. RingMatches'
  <2>1. first' \in Packets /\ newest' \in Packets /\ first' <= Lowest'
    BY <1>1, <1>2, <1>3, <1>7, NackAssumption DEF RingMatches, Lowest, WindowFitsRing
  <2>2. \A m \in Packets : m > n => asked'[m].count = 0
    BY <1>1, <1>2, <1>3, NackAssumption DEF RingMatches
  <2>3. n > n - HistorySize /\ n <= n
    BY <1>2, NackAssumption
  <2> QED BY <1>3, <1>5, <1>8, <1>9, <1>10, <2>1, <2>2, <2>3 DEF RingMatches
<1> QED BY <1>1, <1>3, <1>5, <1>8, <1>11 DEF StreamInv

(***************************************************************************)
(* Polls.                                                                  *)
(***************************************************************************)
\* get_nacks looks at the numbers of the packets strictly inside the window,
\* each at the slot of its own packet, and reports those whose slot is due.
LEMMA ScannedPackets ==
    ASSUME StreamInv, first # -1, Poll
    PROVE  /\ nacks' = { m % SeqMod : m \in { k \in Packets : Inside(k) /\ Due(SlotOf(k), now') } }
           /\ \A m \in Packets : Inside(m) => SlotOf(m)' = Visit(SlotOf(m), now')
           /\ \A m \in arrived : SlotOf(m).received => SlotOf(m)'.received
<1>1. /\ initialized /\ RingMatches /\ WindowFitsRing
      /\ buffer \in [Slots -> NackInfo] /\ highest = newest % SeqMod
  BY DEF StreamInv, StreamFits, Fits, TypeOK, RingMatches
<1>2. newest \in Nat /\ first \in Nat /\ \A m \in Packets : m \in Nat
  BY <1>1, StreamAssumption DEF Packets, RingMatches
<1> DEFINE d == seq_distance(lowest, highest)
<1>3. d \in 0 .. HistorySize - 1 /\ Lowest = newest - d /\ first <= Lowest
  BY <1>1 DEF WindowFitsRing, Lowest, RingMatches
<1>4. Span = d
  BY <1>3, NackAssumption DEF Span
<1> HIDE DEF d
<1>5. Scanned = { m % SeqMod : m \in { k \in Packets : Inside(k) } }
  <2>1. ASSUME NEW i \in 1 .. d - 1
        PROVE  newest - i \in Packets /\ Inside(newest - i)
               /\ SeqMinus(highest, i) = (newest - i) % SeqMod
    <3>1. newest - i \in Nat /\ i \in 0 .. HistorySize /\ i <= newest
      BY <1>2, <1>3, NackAssumption
    <3>2. newest - i \in Packets
      BY <1>1, <1>2, <3>1, StreamAssumption DEF Packets, RingMatches
    <3>3. Inside(newest - i)
      BY <1>2, <1>3, NackAssumption DEF Inside
    <3> QED BY <1>1, <1>2, <3>1, <3>2, <3>3, SeqMinusOfPacket
  <2>2. ASSUME NEW k \in Packets, Inside(k)
        PROVE  \E i \in 1 .. d - 1 : k % SeqMod = SeqMinus(highest, i)
    <3>1. newest - k \in 1 .. d - 1 /\ newest - (newest - k) = k
      BY <1>2, <1>3, <2>2, NackAssumption DEF Inside
    <3> QED BY <2>1, <3>1
  <2> QED BY <1>4, <2>1, <2>2 DEF Scanned
<1>6. \A m \in Packets : get_index(m % SeqMod) = m % HistorySize /\ m % HistorySize \in Slots
  BY <1>2, SlotOfPacket, SlotInRing
<1>7. nacks' = { s \in Scanned : Due(buffer[get_index(s)], now') }
  BY <1>1 DEF Poll, get_nacks
<1>8. buffer' = [k \in Slots |-> IF k \in { get_index(s) : s \in Scanned }
                                 THEN Visit(buffer[k], now') ELSE buffer[k]]
  BY <1>1 DEF Poll, get_nacks
<1>9. nacks' = { m % SeqMod : m \in { k \in Packets : Inside(k) /\ Due(SlotOf(k), now') } }
  BY <1>5, <1>6, <1>7 DEF SlotOf
<1>10. \A m \in Packets : Inside(m) => SlotOf(m)' = Visit(SlotOf(m), now')
  BY <1>5, <1>6, <1>8 DEF SlotOf
<1>11. ASSUME NEW m \in arrived, SlotOf(m).received PROVE SlotOf(m)'.received
  <2>1. m % HistorySize \in Slots
    BY <1>6 DEF StreamInv
  <2>2. SlotOf(m) \in NackInfo /\ ~Due(SlotOf(m), now')
    BY <1>1, <1>11, <2>1 DEF SlotOf, Due
  <2>3. Visit(SlotOf(m), now').received
    BY <1>11, <2>2 DEF Visit, NackInfo
  <2> QED BY <1>8, <1>11, <2>1, <2>3 DEF SlotOf
<1> QED BY <1>9, <1>10, <1>11

\* A number of the window stands for one packet only.
LEMMA PacketOfNumber ==
    ASSUME StreamInv, first # -1, NEW m \in Packets, Inside(m)
    PROVE  PacketOf(m % SeqMod) = m
<1>1. newest \in Nat /\ m \in Nat /\ \A k \in Packets : k \in Nat
  BY StreamAssumption DEF Packets, StreamInv, RingMatches
<1>2. m \in Recent(newest) /\ m <= newest
  BY <1>1, NackAssumption
     DEF Inside, Lowest, Recent, StreamInv, StreamFits, Fits, WindowFitsRing
<1>3. ASSUME NEW k \in Recent(newest), k <= newest, k % SeqMod = m % SeqMod PROVE k = m
  <2>1. k \in Int /\ m \in Int /\ k - m < SeqMod /\ m - k < SeqMod /\ SeqMod \in Nat \ {0}
    BY <1>1, <1>2, <1>3, NackAssumption DEF Recent, SeqMod
  <2> QED BY <1>3, <2>1, ModUnique, Zenon
<1> QED BY <1>2, <1>3 DEF PacketOf

\* What a poll asks for: the packets inside the window whose slot is due.
LEMMA PollAsks ==
    ASSUME StreamInv, Poll
    PROVE  asked' = [n \in Packets |->
               IF first # -1 /\ Inside(n) /\ Due(SlotOf(n), now')
               THEN [count |-> asked[n].count + 1, last |-> now'] ELSE asked[n]]
<1> DEFINE due == { PacketOf(s) : s \in nacks' }
<1>1. asked' = [n \in Packets |-> IF n \in due THEN [count |-> asked[n].count + 1, last |-> now']
                                  ELSE asked[n]]
  BY DEF Poll
<1>2. CASE first = -1
  <2>1. due = {}
    BY <1>2 DEF StreamInv, Poll, get_nacks
  <2> QED BY <1>1, <1>2, <2>1
<1>3. CASE first # -1
  <2>1. due = { k \in Packets : Inside(k) /\ Due(SlotOf(k), now') }
    BY <1>3, ScannedPackets, PacketOfNumber
  <2> HIDE DEF due
  <2> QED BY <1>1, <1>3, <2>1
<1> QED BY <1>2, <1>3

\* Polls keep the slots true to the packets.
LEMMA PollMatches == ASSUME StreamInv, Poll, StreamFits' PROVE StreamInv'
<1>1. now' \in Nat /\ UNCHANGED <<initialized, highest, lowest, first, newest, arrived>>
  BY DEF StreamFits, Poll, get_nacks
<1>2. CASE first = -1
  <2>1. asked' = asked
    BY <1>2, PollAsks DEF StreamInv
  <2> QED BY <1>1, <1>2, <2>1 DEF StreamInv, NothingYet
<1>3. CASE first # -1
  <2>1. RingMatches /\ Lowest' = Lowest /\ buffer \in [Slots -> NackInfo]
    BY <1>1, <1>3 DEF StreamInv, Lowest, StreamFits, Fits, TypeOK
  <2>2. ASSUME NEW n \in Packets, Inside(n), Due(SlotOf(n), now')
        PROVE  /\ n \notin arrived /\ SlotMatches(n) /\ SlotOf(n) \in NackInfo
               /\ asked[n].count + 1 \in 0 .. MaxRetries /\ asked[n] \in Requests
    <3>1. n \notin arrived
      BY <2>1, <2>2 DEF RingMatches, Due
    <3>2. SlotMatches(n)
      BY <2>1, <2>2, <3>1 DEF RingMatches
    <3>3. SlotOf(n) \in NackInfo
      BY <2>1, SlotInRing, StreamAssumption DEF SlotOf, Packets
    <3>4. asked[n] \in Requests
      BY DEF StreamInv
    <3> QED BY <2>2, <3>1, <3>2, <3>3, <3>4, NackAssumption
            DEF SlotMatches, Due, GivenUp, Requests, NackInfo
  <2>3. asked' \in [Packets -> Requests]
    BY <1>1, <1>3, <2>2, PollAsks DEF StreamInv, Requests
  <2>4. ASSUME NEW n \in Packets, Inside(n), n \notin arrived PROVE SlotMatches(n)'
    <3> DEFINE i == SlotOf(n)
    <3>1. SlotMatches(n) /\ SlotOf(n)' = Visit(i, now') /\ i \in NackInfo /\ asked[n] \in Requests
      BY <1>3, <2>1, <2>4, ScannedPackets, SlotInRing, StreamAssumption
         DEF RingMatches, SlotOf, Packets, StreamInv
    <3>2. CASE Due(i, now')
      <4>1. asked'[n] = [count |-> asked[n].count + 1, last |-> now']
        BY <1>3, <2>4, <3>2, PollAsks
      <4>2. /\ SlotOf(n)'.nacked = TRUE /\ SlotOf(n)'.retry_count = i.retry_count + 1
            /\ SlotOf(n)'.last_nack_time = now' /\ ~SlotOf(n)'.received
        BY <3>1, <3>2 DEF Visit, NackInfo, Due
      <4> QED BY <3>1, <4>1, <4>2 DEF SlotMatches, Requests
    <3>3. CASE ~Due(i, now')
      <4>1. asked'[n] = asked[n]
        BY <3>3, PollAsks
      <4>2. /\ SlotOf(n)'.nacked = i.nacked /\ SlotOf(n)'.retry_count = i.retry_count
            /\ SlotOf(n)'.last_nack_time = i.last_nack_time
        BY <3>1, <3>3 DEF Visit, NackInfo
      <4>3. SlotOf(n)'.received => i.received \/ GivenUp(i)
        BY <3>1, <3>3 DEF Visit, NackInfo
      <4> QED BY <3>1, <4>1, <4>2, <4>3 DEF SlotMatches, GivenUp
    <3> QED BY <3>2, <3>3
  <2>5. ASSUME NEW n \in Packets, n > newest PROVE asked'[n].count = 0
    <3>1. ~Inside(n)
      BY <2>1, <2>5, StreamAssumption DEF Inside, RingMatches, Packets
    <3> QED BY <2>1, <2>5, <3>1, PollAsks DEF RingMatches
  <2>6. \A n \in arrived : SlotOf(n)'.received
    BY <1>3, <2>1, ScannedPackets DEF RingMatches
  <2>7. RingMatches'
    BY <1>1, <2>1, <2>4, <2>5, <2>6 DEF RingMatches, Inside
  <2> QED BY <1>1, <1>3, <2>3, <2>7 DEF StreamInv
<1> QED BY <1>2, <1>3

(***************************************************************************)
(* The theorems.                                                           *)
(***************************************************************************)
\* Before the first packet nothing was asked for.
LEMMA StreamInvInit == StreamInit => StreamInv
BY StreamFitsInit, NackAssumption DEF StreamInit, Init, StreamInv, NothingYet, Requests

\* Every step keeps the ring true to the packets.
LEMMA StreamInvStep == ASSUME StreamInv, [StreamNext]_streamVars PROVE StreamInv'
<1>1. StreamFits'
  BY StreamFitsStep DEF StreamInv
<1>2. ASSUME NEW n \in Packets, Arrive(n) PROVE StreamInv'
  <2>1. first # -1 => n \in Nat /\ newest \in Nat
    BY StreamAssumption DEF Packets, StreamInv, RingMatches
  <2>2. first # -1 => n <= newest \/ n - newest \in 1 .. HistorySize - 1 \/ n - newest >= HistorySize
    BY <2>1, NackAssumption
  <2> QED BY <1>1, <1>2, <2>2, FirstArrival, LateArrival, NextArrival, JumpArrival
<1>3. CASE Poll
  BY <1>1, <1>3, PollMatches
<1>4. CASE RttUpdate
  BY <1>1, <1>4 DEF RttUpdate, update_rtt, StreamInv, NothingYet, RingMatches, Inside,
                    SlotMatches, SlotOf, Lowest
<1>5. CASE UNCHANGED streamVars
  BY <1>1, <1>5 DEF streamVars, nackVars, StreamInv, NothingYet, RingMatches, Inside,
                    SlotMatches, SlotOf, Lowest
<1> QED BY <1>2, <1>3, <1>4, <1>5 DEF StreamNext

\* The slots of the ring tell the truth about the packets of the window,
\* through losses, reordering, copies, jumps and wraps.
THEOREM RingAlwaysMatches == StreamSpec => []StreamInv
BY StreamInvInit, StreamInvStep, PTL DEF StreamSpec

\* No packet is ever asked for more than _max_retries times, although a slot
\* is used again for every HistorySize-th packet.
THEOREM RetriesAlwaysBounded == StreamSpec => []RetriesBounded
<1>1. StreamInv => RetriesBounded
  BY NackAssumption DEF StreamInv, RetriesBounded, Requests
<1> QED BY <1>1, RingAlwaysMatches, PTL

\* A step that asks for a packet is a poll, and the packet's slot was due.
LEMMA AskedWhenDue ==
    ASSUME StreamInv, [StreamNext]_streamVars, NEW n \in Packets, Asks(n)
    PROVE  Poll /\ first # -1 /\ Inside(n) /\ Due(SlotOf(n), now')
<1>1. Poll
  <2>1. asked' # asked
    BY DEF Asks, StreamInv, Requests
  <2> QED BY <2>1 DEF StreamNext, Arrive, RttUpdate, streamVars
<1> QED BY <1>1, PollAsks DEF Asks, StreamInv, Requests

\* get_nacks asks only for packets that are really missing: none that
\* arrived, none from before the stream began, none not yet due to arrive.
THEOREM OnlyMissing == StreamSpec => OnlyMissingAsked
<1>1. ASSUME StreamInv, [StreamNext]_streamVars, NEW n \in Packets, Asks(n)
      PROVE  n \notin arrived /\ n > first /\ n < newest
  <2>1. first # -1 /\ Inside(n) /\ Due(SlotOf(n), now')
    BY <1>1, AskedWhenDue
  <2>2. RingMatches /\ Lowest \in Int /\ n \in Int
    BY <1>1, <2>1, StreamAssumption
       DEF StreamInv, RingMatches, Lowest, StreamFits, Fits, WindowFitsRing, Packets
  <2>3. n \notin arrived
    BY <2>1, <2>2 DEF RingMatches, Due
  <2>4. n > first
    BY <2>1, <2>2, StreamAssumption DEF RingMatches, Inside, Packets
  <2> QED BY <2>1, <2>3, <2>4 DEF Inside
<1>2. StreamInv /\ [StreamNext]_streamVars =>
        [\A n \in Packets : Asks(n) => n \notin arrived /\ n > first /\ n < newest]_streamVars
  BY <1>1
<1> QED BY <1>2, RingAlwaysMatches, PTL DEF StreamSpec, OnlyMissingAsked

\* A packet is asked for again only after a round trip and the offset.
THEOREM BackoffAlwaysRespected == StreamSpec => BackoffRespected
<1>1. ASSUME StreamInv, [StreamNext]_streamVars, NEW n \in Packets, Asks(n), asked[n].count > 0
      PROVE  now' - asked[n].last >= rtt + BackoffOffset
  <2>1. first # -1 /\ Inside(n) /\ Due(SlotOf(n), now')
    BY <1>1, AskedWhenDue
  <2>2. SlotMatches(n)
    BY <1>1, <2>1 DEF StreamInv, RingMatches, Due
  <2> QED BY <1>1, <2>1, <2>2 DEF SlotMatches, Due
<1>2. StreamInv /\ [StreamNext]_streamVars =>
        [\A n \in Packets : Asks(n) /\ asked[n].count > 0
            => now' - asked[n].last >= rtt + BackoffOffset]_streamVars
  BY <1>1
<1> QED BY <1>2, RingAlwaysMatches, PTL DEF StreamSpec, BackoffRespected

\* Once the timer of _nack_loop has fired, every packet missing strictly
\* inside the window has been asked for.
THEOREM GapsAlwaysAsked == StreamSpec => GapsAreAsked
<1>1. ASSUME StreamInv, [StreamNext]_streamVars, now' # now, NEW n \in Packets,
             n > Lowest, n < newest, n \notin arrived
      PROVE  asked'[n].count > 0
  <2>1. Poll
    BY <1>1 DEF StreamNext, Arrive, RttUpdate, streamVars
  <2>2. first # -1 /\ Inside(n)
    <3>1. first = -1 => newest = -1
      BY <1>1 DEF StreamInv, NothingYet
    <3>2. n >= 0
      BY StreamAssumption DEF Packets
    <3> QED BY <1>1, <3>1, <3>2, StreamAssumption DEF Inside, Packets
  <2>3. SlotMatches(n) /\ asked[n] \in Requests
    BY <1>1, <2>2 DEF StreamInv, RingMatches
  <2>4. CASE asked[n].count = 0
    <3>1. Due(SlotOf(n), now')
      BY <2>3, <2>4, NackAssumption DEF SlotMatches, Due, GivenUp
    <3> QED BY <1>1, <2>1, <2>2, <2>3, <3>1, PollAsks DEF Requests
  <2>5. CASE asked[n].count > 0
    BY <1>1, <2>1, <2>3, <2>5, PollAsks DEF Requests
  <2> QED BY <2>3, <2>4, <2>5 DEF Requests
<1>2. StreamInv /\ [StreamNext]_streamVars =>
        [now' # now => \A n \in Packets : n > Lowest /\ n < newest /\ n \notin arrived
            => asked'[n].count > 0]_streamVars
  BY <1>1
<1> QED BY <1>2, RingAlwaysMatches, PTL DEF StreamSpec, GapsAreAsked
=============================================================================
