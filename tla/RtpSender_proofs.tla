-------------------------- MODULE RtpSender_proofs --------------------------
(***************************************************************************)
(* Proofs about the sender and the send buffer, for every capacity, number *)
(* of streams, history, number space, and size of packets: the buffer with *)
(* its waiting writers is a bounded FIFO queue, the packet counters add up *)
(* at every await, a retransmission is the packet that was asked for, and  *)
(* a NACK that gets through for a recent packet is answered.               *)
(***************************************************************************)
EXTENDS RtpSender, ModularArithmetic, SequenceTheorems

(***************************************************************************)
(* The send buffer.                                                        *)
(***************************************************************************)
Packet == [kind : {"raw", "rtx", "rtcp"}, s : Nat, n : Nat, size : Nat]

\* b sums up the sizes of the packets of q.
Sums(b, q) ==
    /\ b \in [0 .. Len(q) -> Nat] /\ b[0] = 0
    /\ \A k \in 1 .. Len(q) : b[k] = b[k - 1] + q[k].size

\* Bytes is the sum of the sizes.
LEMMA BytesIsSum ==
    ASSUME NEW q \in Seq(Packet)
    PROVE  \E b : Sums(b, q) /\ Bytes(q) = b[Len(q)]
<1> DEFINE n == Len(q)
           g == [k \in 1 .. n |-> [x \in Nat |-> x + q[k].size]]
           Rec(b) == b = [k \in 0 .. n |-> IF k = 0 THEN 0 ELSE b[k - 1] + q[k].size]
           sum == CHOOSE b : Rec(b)
<1>1. n \in Nat /\ \A k \in 1 .. n : q[k].size \in Nat
  <2>1. n \in Nat /\ \A k \in 1 .. n : q[k] \in Packet
    BY LenProperties, ElementOfSeq
  <2> QED BY <2>1 DEF Packet
<1>2. Bytes(q) = sum[n]
  BY DEF Bytes
<1>3. \A k \in 1 .. n : [x \in Nat |-> x + q[k].size] \in [Nat -> Nat]
  BY <1>1
<1>4. g \in [1 .. n -> [Nat -> Nat]]
  BY <1>3
<1> HIDE DEF n, g
<1>0. PICK f : Solves(f, Nat, 0, n, g)
  <2>1. 0 \in Nat
    OBVIOUS
  <2> QED BY <1>1, <1>4, <2>1, Recursion, Zenon
<1>5. f \in [0 .. n -> Nat] /\ f[0] = 0 /\ \A k \in 1 .. n : f[k] = g[k][f[k - 1]]
  BY <1>0 DEF Solves
<1>6. \A k \in 1 .. n : f[k] = f[k - 1] + q[k].size
  <2> SUFFICES ASSUME NEW k \in 1 .. n PROVE f[k] = f[k - 1] + q[k].size
    OBVIOUS
  <2>1. f[k - 1] \in Nat /\ f[k] = g[k][f[k - 1]]
    BY <1>1, <1>5
  <2>2. g[k] = [x \in Nat |-> x + q[k].size]
    BY DEF g
  <2> QED BY <2>1, <2>2
<1>7. Rec(f)
  BY <1>5, <1>6
<1>8. Rec(sum)
  <2> HIDE DEF Rec
  <2> QED BY <1>7
<1> HIDE DEF sum
<1>9. \A k \in 0 .. n : sum[k] = f[k]
  <2>1. sum[0] = f[0]
    BY <1>1, <1>5, <1>8
  <2>2. \A k \in 1 .. n : sum[k - 1] = f[k - 1] => sum[k] = f[k]
    BY <1>1, <1>6, <1>8
  <2>3. n \in Nat
    BY <1>1
  <2> DEFINE Ok == {k \in 0 .. n : sum[k] = f[k]}
  <2>4. 0 \in Ok /\ \A k \in 1 .. n : k - 1 \in Ok => k \in Ok
    BY <2>1, <2>2, <2>3
  <2>5. \A k \in 0 .. n : k \in Ok
    <3> HIDE DEF Ok
    <3> QED BY <2>3, <2>4, UpTo, Zenon
  <2> QED BY <2>5
<1>10. Sums(f, q) /\ Bytes(q) = f[n]
  BY <1>1, <1>2, <1>5, <1>6, <1>9 DEF Sums, n
<1> QED BY <1>10 DEF n


\* No bytes in an empty buffer; a packet adds its own.
LEMMA BytesAdd ==
    ASSUME NEW q \in Seq(Packet)
    PROVE  /\ Bytes(q) \in Nat /\ Bytes(<< >>) = 0
           /\ \A p \in Packet : Bytes(Append(q, p)) = Bytes(q) + p.size
<1> DEFINE n == Len(q)
<1>0. n \in Nat
  BY LenProperties
<1>1. PICK b : Sums(b, q) /\ Bytes(q) = b[n]
  BY BytesIsSum
<1>2. Bytes(q) \in Nat
  BY <1>0, <1>1 DEF Sums
<1>3. Bytes(<< >>) = 0
  <2>1. << >> \in Seq(Packet) /\ Len(<< >>) = 0
    BY EmptySeq
  <2>2. PICK c : Sums(c, << >>) /\ Bytes(<< >>) = c[Len(<< >>)]
    BY <2>1, BytesIsSum
  <2>3. c[0] = 0
    BY <2>2 DEF Sums
  <2> QED BY <2>1, <2>2, <2>3
<1>4. ASSUME NEW p \in Packet PROVE Bytes(Append(q, p)) = Bytes(q) + p.size
  <2> DEFINE r == Append(q, p)
  <2>1. /\ r \in Seq(Packet) /\ Len(r) = n + 1
        /\ \A k \in 1 .. n : r[k] = q[k]
        /\ r[n + 1] = p
    BY AppendProperties
  <2>2. PICK c : Sums(c, r) /\ Bytes(r) = c[Len(r)]
    BY <2>1, BytesIsSum
  <2> HIDE DEF r, n
  <2>3. \A k \in 0 .. n : c[k] = b[k]
    <3>1. c[0] = b[0]
      BY <1>1, <2>2 DEF Sums
    <3>2. ASSUME NEW k \in 1 .. n, c[k - 1] = b[k - 1] PROVE c[k] = b[k]
      <4>1. c[k] = c[k - 1] + r[k].size
        BY <1>0, <2>1, <2>2 DEF Sums
      <4>2. b[k] = b[k - 1] + q[k].size
        BY <1>1 DEF Sums, n
      <4> QED BY <2>1, <3>2, <4>1, <4>2
    <3>3. n \in Nat
      BY <1>0
    <3> DEFINE Ok == {k \in 0 .. n : c[k] = b[k]}
    <3>4. 0 \in Ok /\ \A k \in 1 .. n : k - 1 \in Ok => k \in Ok
      BY <3>1, <3>2, <3>3
    <3>5. \A k \in 0 .. n : k \in Ok
      <4> HIDE DEF Ok
      <4> QED BY <3>3, <3>4, UpTo, Zenon
    <3> QED BY <3>5
  <2>4. c[n + 1] = c[n] + p.size
    <3>1. c[n + 1] = c[(n + 1) - 1] + r[n + 1].size
      BY <1>0, <2>1, <2>2 DEF Sums
    <3> QED BY <1>0, <2>1, <3>1
  <2> QED BY <1>0, <1>1, <2>1, <2>2, <2>3, <2>4 DEF r
<1> QED BY <1>2, <1>3, <1>4

\* Without its first packet the buffer holds no more.
LEMMA BytesTail ==
    ASSUME NEW q \in Seq(Packet), q # << >>
    PROVE  Bytes(Tail(q)) <= Bytes(q)
<1> DEFINE n == Len(q)
           r == Tail(q)
<1>0. n \in Nat \ {0}
  BY EmptySeq
<1>1. r \in Seq(Packet) /\ Len(r) = n - 1 /\ \A k \in 1 .. n - 1 : r[k] = q[k + 1]
  BY HeadTailProperties
<1>2. PICK b : Sums(b, q) /\ Bytes(q) = b[n]
  BY BytesIsSum
<1>3. PICK c : Sums(c, r) /\ Bytes(r) = c[Len(r)]
  BY <1>1, BytesIsSum
<1>4. /\ b \in [0 .. n -> Nat] /\ \A k \in 1 .. n : b[k] = b[k - 1] + q[k].size
      /\ c \in [0 .. n - 1 -> Nat] /\ c[0] = 0 /\ \A k \in 1 .. n - 1 : c[k] = c[k - 1] + r[k].size
  BY <1>1, <1>2, <1>3 DEF Sums
<1> HIDE DEF n, r
<1> DEFINE P == { k \in 0 .. n - 1 : c[k] <= b[k + 1] }
<1>5. 0 \in P
  BY <1>0, <1>4
<1>6. ASSUME NEW k \in 1 .. n - 1, k - 1 \in P PROVE k \in P
  <2>1. k - 1 \in 0 .. n - 1 /\ k + 1 \in 1 .. n /\ (k - 1) + 1 = k /\ (k + 1) - 1 = k
    BY <1>0
  <2>2. c[k - 1] <= b[k] /\ c[k - 1] \in Nat /\ b[k] \in Nat
    BY <1>0, <1>4, <1>6, <2>1
  <2>3. c[k] = c[k - 1] + q[k + 1].size /\ b[k + 1] = b[k] + q[k + 1].size
    BY <1>1, <1>4, <2>1
  <2>4. q[k + 1].size \in Nat
    <3>1. q[k + 1] \in Packet
      BY <2>1, ElementOfSeq DEF n
    <3> QED BY <3>1 DEF Packet
  <2> QED BY <2>2, <2>3, <2>4
<1>7. \A k \in 0 .. n - 1 : k \in P
  <2>1. n - 1 \in Nat
    BY <1>0
  <2> HIDE DEF P
  <2> QED BY <1>5, <1>6, <2>1, UpTo, Zenon
<1>8. c[n - 1] <= b[(n - 1) + 1]
  BY <1>0, <1>7
<1> QED BY <1>0, <1>1, <1>2, <1>3, <1>8 DEF r


Queue(q) == q \in Seq(Packet) /\ Bytes(q) <= Capacity

\* r has what q has, in the same places, and perhaps more behind it.
Extended(q, r) == Len(q) <= Len(r) /\ \A i \in 1 .. Len(q) : r[i] = q[i]

\* That is the library's prefix.
LEMMA ExtendedIsPrefix ==
    ASSUME NEW q \in Seq(Packet), NEW r \in Seq(Packet), Extended(q, r)
    PROVE  IsPrefix(q, r)
<1> DEFINE n == Len(q)
           a == SubSeq(q, 1, n)
           b == SubSeq(r, 1, n)
<1>1. n \in Nat /\ Len(r) \in Nat /\ n <= Len(r)
  BY LenProperties DEF Extended
<1>2. (\A i \in 1 .. n : q[i] \in Packet) /\ (\A i \in 1 .. n : r[i] \in Packet)
  BY <1>1, ElementOfSeq
<1>3. 1 \in Int /\ n \in Int
  BY <1>1
<1>4. a \in Seq(Packet) /\ Len(a) = n /\ \A i \in 1 .. n : a[i] = q[i]
  BY <1>1, <1>2, <1>3, SubSeqProperties
<1>5. b \in Seq(Packet) /\ Len(b) = n /\ \A i \in 1 .. n : b[i] = r[i]
  BY <1>1, <1>2, <1>3, SubSeqProperties
<1> HIDE DEF a, b
<1>6. a = b
  <2>1. \A i \in 1 .. Len(a) : a[i] = b[i]
    BY <1>4, <1>5 DEF Extended
  <2> QED BY <1>4, <1>5, <2>1, SeqEqual
<1> QED BY <1>1, <1>6 DEF IsPrefix, a, b

\* try_write keeps what is there and the capacity; the packet gets in unless
\* there is no room for it.
LEMMA TryWrite ==
    ASSUME NEW q, Queue(q), NEW p \in Packet
    PROVE  /\ Queue(try_write(q, p)) /\ Extended(q, try_write(q, p))
           /\ Bytes(q) <= Bytes(try_write(q, p))
           /\ \A i \in 1 .. Len(try_write(q, p)) :
                 try_write(q, p)[i] = p \/ (i \in 1 .. Len(q) /\ try_write(q, p)[i] = q[i])
           /\ \/ \E i \in 1 .. Len(try_write(q, p)) : try_write(q, p)[i] = p
              \/ Bytes(try_write(q, p)) + p.size > Capacity
<1> DEFINE r == try_write(q, p)
<1>1. /\ q \in Seq(Packet) /\ Bytes(q) \in Nat /\ Bytes(q) <= Capacity /\ Len(q) \in Nat
      /\ p.size \in Nat /\ Capacity \in Nat
  BY BytesAdd, LenProperties, CapacityAssumption DEF Queue, Packet
<1>2. CASE Fits(q, p)
  <2>1. r = Append(q, p)
    BY <1>2 DEF try_write
  <2>2. /\ r \in Seq(Packet) /\ Len(r) = Len(q) + 1 /\ (\A i \in 1 .. Len(q) : r[i] = q[i])
        /\ r[Len(q) + 1] = p
    BY <1>1, <2>1, AppendProperties
  <2>3. Bytes(r) = Bytes(q) + p.size
    BY <1>1, <2>1, BytesAdd
  <2> HIDE DEF r
  <2>4. \A i \in 1 .. Len(r) : r[i] = p \/ (i \in 1 .. Len(q) /\ r[i] = q[i])
    BY <1>1, <2>2
  <2>5. Len(q) + 1 \in 1 .. Len(r)
    BY <1>1, <2>2
  <2>6. Queue(r) /\ Bytes(q) <= Bytes(r)
    BY <1>1, <1>2, <2>2, <2>3 DEF Queue, Fits
  <2>7. Extended(q, r)
    BY <1>1, <2>2 DEF Extended
  <2> QED BY <2>2, <2>4, <2>5, <2>6, <2>7 DEF r
<1>3. CASE ~Fits(q, p)
  <2>1. r = q
    BY <1>3 DEF try_write
  <2>2. Extended(q, q)
    BY <1>1 DEF Extended
  <2> QED BY <1>1, <1>3, <2>1, <2>2 DEF Fits, Queue
<1> QED BY <1>2, <1>3

Raw == { p \in Packet : p.kind = "raw" }

\* One writer that tries again.
Tried(r, q) ==
    /\ Queue(r.buf) /\ Extended(q, r.buf) /\ r.waiting \in Seq(Raw)
    /\ \A i \in 1 .. Len(r.buf) : r.buf[i] \in Raw \/ (i \in 1 .. Len(q) /\ r.buf[i] = q[i])

\* Trying again keeps what is there and adds no packet but that writer's.
LEMMA TriedAgain ==
    ASSUME NEW q \in Seq(Packet), NEW r, Tried(r, q), NEW p \in Raw
    PROVE  Tried(TryAgain(r, p), q)
<1> DEFINE b == try_write(r.buf, p)
           w == IF Fits(r.buf, p) THEN r.waiting ELSE Append(r.waiting, p)
           t == TryAgain(r, p)
<1>1. t.buf = b /\ t.waiting = w
  BY DEF TryAgain
<1>2. p \in Packet
  BY DEF Raw
<1>3. /\ Queue(b) /\ Extended(r.buf, b)
      /\ \A i \in 1 .. Len(b) : b[i] = p \/ (i \in 1 .. Len(r.buf) /\ b[i] = r.buf[i])
  BY <1>2, TryWrite DEF Tried
<1>4. w \in Seq(Raw)
  BY AppendProperties DEF Tried
<1> HIDE DEF b, w, t
<1>5. Len(q) \in Nat /\ Len(r.buf) \in Nat /\ Len(b) \in Nat
  BY <1>3, LenProperties DEF Tried, Queue
<1>6. Extended(q, b)
  BY <1>3, <1>5 DEF Extended, Tried
<1>7. \A i \in 1 .. Len(b) : b[i] \in Raw \/ (i \in 1 .. Len(q) /\ b[i] = q[i])
  BY <1>3, <1>5 DEF Tried
<1>8. Tried(t, q)
  BY <1>1, <1>3, <1>4, <1>6, <1>7 DEF Tried
<1> QED BY <1>8 DEF t

\* pop: the buffer without its first packet, with writers that waited behind.
LEMMA Popped ==
    ASSUME Queue(buf), buf # << >>, waiting \in Seq(Raw)
    PROVE  Tried(pop, Tail(buf))
<1> DEFINE n == Len(waiting)
           q == Tail(buf)
           a == [buf |-> q, waiting |-> << >>]
           A == { r \in [buf : Seq(Packet), waiting : Seq(Raw)] : Tried(r, q) }
           g == [k \in 1 .. n |-> [x \in A |-> TryAgain(x, waiting[k])]]
           Rec(b) == b = [k \in 0 .. n |-> IF k = 0 THEN a ELSE TryAgain(b[k - 1], waiting[k])]
           tried == CHOOSE b : Rec(b)
<1>1. n \in Nat /\ \A k \in 1 .. n : waiting[k] \in Raw
  BY LenProperties, ElementOfSeq
<1>2. pop = tried[n]
  BY DEF pop
<1>3. q \in Seq(Packet) /\ Len(q) \in Nat /\ Queue(q)
  <2>1. q \in Seq(Packet) /\ buf \in Seq(Packet) /\ Bytes(q) <= Bytes(buf) /\ Bytes(buf) <= Capacity
    BY HeadTailProperties, BytesTail DEF Queue
  <2>2. Bytes(q) \in Nat /\ Bytes(buf) \in Nat /\ Capacity \in Nat /\ Len(q) \in Nat
    BY <2>1, BytesAdd, CapacityAssumption, LenProperties
  <2> QED BY <2>1, <2>2 DEF Queue
<1>4. a \in A
  <2>1. << >> \in Seq(Raw)
    BY EmptySeq
  <2>2. a \in [buf : Seq(Packet), waiting : Seq(Raw)] /\ a.buf = q /\ a.waiting = << >>
    BY <1>3, <2>1
  <2>3. Tried(a, q)
    BY <1>3, <2>1, <2>2 DEF Tried, Extended
  <2> QED BY <2>2, <2>3
<1>5. ASSUME NEW k \in 1 .. n, NEW x \in A PROVE TryAgain(x, waiting[k]) \in A
  <2>1. Tried(TryAgain(x, waiting[k]), q)
    BY <1>1, <1>3, <1>5, TriedAgain
  <2>2. TryAgain(x, waiting[k]) \in [buf : Seq(Packet), waiting : Seq(Raw)]
    BY <2>1 DEF Tried, Queue, TryAgain
  <2> QED BY <2>1, <2>2
<1> HIDE DEF A, a, q, n
<1>6. g \in [1 .. n -> [A -> A]]
  <2>1. \A k \in 1 .. n : [x \in A |-> TryAgain(x, waiting[k])] \in [A -> A]
    BY <1>5
  <2> QED BY <2>1
<1> HIDE DEF g
<1>7. PICK f : Solves(f, A, a, n, g)
  BY <1>1, <1>4, <1>6, Recursion, Zenon
<1>8. f \in [0 .. n -> A] /\ f[0] = a /\ \A k \in 1 .. n : f[k] = g[k][f[k - 1]]
  BY <1>7 DEF Solves
<1>9. \A k \in 1 .. n : f[k] = TryAgain(f[k - 1], waiting[k])
  <2> SUFFICES ASSUME NEW k \in 1 .. n PROVE f[k] = TryAgain(f[k - 1], waiting[k])
    OBVIOUS
  <2>1. f[k - 1] \in A /\ f[k] = g[k][f[k - 1]]
    BY <1>1, <1>8
  <2>2. g[k] = [x \in A |-> TryAgain(x, waiting[k])]
    BY DEF g
  <2> QED BY <2>1, <2>2
<1>10. Rec(f)
  BY <1>8, <1>9
<1>11. Rec(tried)
  <2> HIDE DEF Rec
  <2> QED BY <1>10
<1> HIDE DEF tried
<1>12. \A k \in 0 .. n : tried[k] = f[k]
  <2>1. tried[0] = f[0]
    BY <1>1, <1>8, <1>11
  <2>2. \A k \in 1 .. n : tried[k - 1] = f[k - 1] => tried[k] = f[k]
    BY <1>1, <1>9, <1>11
  <2>3. n \in Nat
    BY <1>1
  <2> DEFINE Ok == {k \in 0 .. n : tried[k] = f[k]}
  <2>4. 0 \in Ok /\ \A k \in 1 .. n : k - 1 \in Ok => k \in Ok
    BY <2>1, <2>2, <2>3
  <2>5. \A k \in 0 .. n : k \in Ok
    <3> HIDE DEF Ok
    <3> QED BY <2>3, <2>4, UpTo, Zenon
  <2> QED BY <2>5
<1>13. pop \in A
  BY <1>1, <1>2, <1>8, <1>12
<1> QED BY <1>13 DEF A, q


(***************************************************************************)
(* Retransmission.                                                         *)
(***************************************************************************)
StreamState == [n : Nat, rtx_seq : Nat, packet_count : Int, history : [Slots -> Nat]]

SenderType ==
    /\ Queue(buf) /\ waiting \in Seq(Raw)
    /\ loop \in [pc : {"none", "waiting", "sending", "done"}, track : Tracks \cup {"none"},
                 todo : Seq(S)]
    /\ track \in Tracks \cup {"none"} /\ stopped \in BOOLEAN
    /\ loop.pc = "sending" => loop.todo # << >>
    /\ streams \in [S -> StreamState] /\ raws \subseteq Nat /\ failed \in [S -> Nat]

\* What Nack writes for a number it finds.
RtxOf(s, seq) == [kind |-> "rtx", s |-> s, n |-> Stored(s, seq), size |-> RtxSize]

\* sts are the streams but for their retransmission numbers.
SameCounts(sts) ==
    /\ sts \in [S -> StreamState]
    /\ \A s \in S : /\ sts[s].n = streams[s].n /\ sts[s].packet_count = streams[s].packet_count
                    /\ sts[s].history = streams[s].history

\* r is what answering some of the numbers in lost leaves.
Answers(r, lost, ssrc) ==
    /\ SameCounts(r.streams) /\ Queue(r.buf) /\ Extended(buf, r.buf)
    /\ \A i \in 1 .. Len(r.buf) :
          \/ i \in 1 .. Len(buf) /\ r.buf[i] = buf[i]
          \/ \E s \in S, seq \in lost :
                ssrc \in {0, s} /\ Stored(s, seq) # NoEntry /\ r.buf[i] = RtxOf(s, seq)

\* The number is answered, or there is no room to.
Reached(r, seq, ssrc) ==
    Stored(ssrc, seq) # NoEntry =>
        \/ \E i \in 1 .. Len(r.buf) : r.buf[i] = RtxOf(ssrc, seq)
        \/ Bytes(r.buf) + RtxSize > Capacity

Wire == 0 .. SeqSpace - 1

\* What the history gives is a packet.
LEMMA StoredType ==
    ASSUME SenderType, NEW s \in S, NEW seq \in Wire
    PROVE  Stored(s, seq) \in Nat /\ seq % HISTORY_SIZE \in Slots /\ RtxOf(s, seq) \in Packet
<1>1. seq \in Int /\ HISTORY_SIZE \in Nat \ {0} /\ RtxSize \in Nat /\ s \in Nat
  BY SenderAssumption DEF Wire, S
<1>2. seq % HISTORY_SIZE \in Slots
  BY <1>1, DivMod, Zenon DEF Slots
<1>3. streams[s].history[seq % HISTORY_SIZE] \in Nat
  BY <1>2 DEF SenderType, StreamState
<1>4. Stored(s, seq) \in Nat
  BY <1>3 DEF Stored, NoEntry
<1> QED BY <1>1, <1>2, <1>4 DEF RtxOf, Packet

\* One lost number: the first stream that has it repeats the packet.
LEMMA Retransmitted ==
    ASSUME SenderType, NEW lost \in SUBSET Wire, NEW ssrc \in 0 .. Streams, NEW r,
           Answers(r, lost, ssrc), NEW seq \in lost
    PROVE  /\ Answers(Retransmit(r, seq, ssrc), lost, ssrc)
           /\ Extended(r.buf, Retransmit(r, seq, ssrc).buf)
           /\ Bytes(r.buf) <= Bytes(Retransmit(r, seq, ssrc).buf)
           /\ ssrc \in S => Reached(Retransmit(r, seq, ssrc), seq, ssrc)
<1> DEFINE has == { s \in S : ssrc \in {0, s} /\ Stored(s, seq) # NoEntry }
           s == CHOOSE s \in has : \A t \in has : s <= t
           t == Retransmit(r, seq, ssrc)
<1>0. /\ seq \in Wire /\ r.buf \in Seq(Packet) /\ Len(r.buf) \in Nat /\ Bytes(r.buf) \in Nat
      /\ buf \in Seq(Packet) /\ Len(buf) \in Nat
  BY LenProperties, BytesAdd DEF Answers, Queue, SenderType
<1>1. CASE has = {}
  <2>1. t = r
    BY <1>1 DEF Retransmit
  <2>2. ssrc \in S => Stored(ssrc, seq) = NoEntry
    BY <1>1
  <2> QED BY <1>0, <2>1, <2>2 DEF Extended, Reached
<1>2. CASE has # {}
  <2>1. s \in has
    <3>1. has \in SUBSET Nat
      BY DEF S
    <3>2. PICK x \in has : \A y \in has : x <= y
      BY <1>2, <3>1, NatMin
    <3> HIDE DEF has
    <3> QED BY <3>2
  <2>2. t = [streams |-> [r.streams EXCEPT ![s].rtx_seq = @ + 1],
             buf |-> try_write(r.buf, RtxOf(s, seq))]
    BY <1>2 DEF Retransmit, RtxOf
  <2>3. s \in S /\ ssrc \in {0, s} /\ Stored(s, seq) # NoEntry
    BY <2>1
  <2>4. ssrc \in S => ssrc = s
    BY <2>3 DEF S
  <2> HIDE DEF has, s, t
  <2> DEFINE p == RtxOf(s, seq)
             b == try_write(r.buf, p)
  <2>5. t.buf = b /\ t.streams = [r.streams EXCEPT ![s].rtx_seq = @ + 1]
    BY <2>2
  <2>6. p \in Packet /\ p.size = RtxSize
    BY <1>0, <2>3, StoredType DEF RtxOf
  <2>7. /\ Queue(b) /\ Extended(r.buf, b) /\ Bytes(r.buf) <= Bytes(b)
        /\ \A i \in 1 .. Len(b) : b[i] = p \/ (i \in 1 .. Len(r.buf) /\ b[i] = r.buf[i])
        /\ (\E i \in 1 .. Len(b) : b[i] = p) \/ Bytes(b) + p.size > Capacity
    BY <2>6, TryWrite DEF Answers
  <2>8. SameCounts(t.streams)
    <3> DEFINE u == r.streams
               x == [u[s] EXCEPT !.rtx_seq = @ + 1]
    <3>1. SameCounts(u)
      BY DEF Answers
    <3>2. t.streams = [u EXCEPT ![s] = x]
      BY <2>5
    <3> HIDE DEF u
    <3>3. u \in [S -> StreamState] /\ u[s] \in StreamState
      BY <2>3, <3>1 DEF SameCounts
    <3>4. /\ x \in StreamState /\ x.n = u[s].n /\ x.packet_count = u[s].packet_count
          /\ x.history = u[s].history
      BY <3>3 DEF StreamState
    <3> HIDE DEF x
    <3>5. /\ t.streams \in [S -> StreamState]
          /\ \A y \in S : t.streams[y] = IF y = s THEN x ELSE u[y]
      BY <2>3, <3>2, <3>3, <3>4
    <3> QED BY <3>1, <3>4, <3>5 DEF SameCounts
  <2> HIDE DEF b, p
  <2>9. Len(b) \in Nat
    BY <2>7, LenProperties DEF Queue
  <2>10. Extended(buf, b)
    BY <1>0, <2>7, <2>9 DEF Answers, Extended
  <2>11. ASSUME NEW i \in 1 .. Len(b)
         PROVE  \/ i \in 1 .. Len(buf) /\ b[i] = buf[i]
                \/ \E x \in S, y \in lost :
                      ssrc \in {0, x} /\ Stored(x, y) # NoEntry /\ b[i] = RtxOf(x, y)
    <3>1. CASE b[i] = p
      BY <2>3, <3>1 DEF p
    <3>2. CASE i \in 1 .. Len(r.buf) /\ b[i] = r.buf[i]
      BY <3>2 DEF Answers
    <3> QED BY <2>7, <3>1, <3>2
  <2>12. Answers(t, lost, ssrc)
    BY <2>5, <2>7, <2>8, <2>10, <2>11 DEF Answers
  <2>13. ssrc \in S => Reached(t, seq, ssrc)
    BY <2>4, <2>5, <2>6, <2>7 DEF Reached, p
  <2> QED BY <2>5, <2>7, <2>12, <2>13 DEF t
<1> QED BY <1>1, <1>2


\* A number that was answered stays answered.
LEMMA StaysReached ==
    ASSUME NEW r, NEW t, NEW seq, NEW ssrc, Reached(r, seq, ssrc), Queue(r.buf), Queue(t.buf),
           Extended(r.buf, t.buf), Bytes(r.buf) <= Bytes(t.buf)
    PROVE  Reached(t, seq, ssrc)
<1>1. /\ Len(r.buf) \in Nat /\ Len(t.buf) \in Nat /\ Bytes(r.buf) \in Nat /\ Bytes(t.buf) \in Nat
      /\ RtxSize \in Nat /\ Capacity \in Nat
  BY LenProperties, BytesAdd, SenderAssumption, CapacityAssumption DEF Queue
<1>2. ASSUME NEW i \in 1 .. Len(r.buf) PROVE i \in 1 .. Len(t.buf) /\ t.buf[i] = r.buf[i]
  BY <1>1 DEF Extended
<1>3. CASE Stored(ssrc, seq) = NoEntry
  BY <1>3, Zenon DEF Reached
<1>4. CASE \E i \in 1 .. Len(r.buf) : r.buf[i] = RtxOf(ssrc, seq)
  <2>1. \E i \in 1 .. Len(t.buf) : t.buf[i] = RtxOf(ssrc, seq)
    BY <1>2, <1>4, Zenon
  <2> QED BY <2>1, Zenon DEF Reached
<1>5. CASE Bytes(r.buf) + RtxSize > Capacity
  <2>1. Bytes(t.buf) + RtxSize > Capacity
    BY <1>1, <1>5
  <2> QED BY <2>1, Zenon DEF Reached
<1> QED BY <1>3, <1>4, <1>5, Zenon DEF Reached

\* A NACK changes the buffer only by retransmissions of what it asks for, and
\* when it reaches the loop over the RTCP packets, each number is answered.
LEMMA Nacked ==
    ASSUME SenderType, NEW d, NEW lost \in Seq(Wire), NEW ssrc \in 0 .. Streams,
           Nack(d, lost, ssrc)
    PROVE  \E r : /\ streams' = r.streams /\ buf' = r.buf
                  /\ Answers(r, { lost[k] : k \in 1 .. Len(lost) }, ssrc)
                  /\ ReachesRtcp(d) /\ ssrc \in S =>
                        \A k \in 1 .. Len(lost) : Reached(r, lost[k], ssrc)
<1> DEFINE n == Len(lost)
           L == { lost[k] : k \in 1 .. n }
           a == [streams |-> streams, buf |-> buf]
           A == { r \in [streams : [S -> StreamState], buf : Seq(Packet)] : Answers(r, L, ssrc) }
           g == [k \in 1 .. n |-> [x \in A |-> Retransmit(x, lost[k], ssrc)]]
           Rec(b) == b = [k \in 0 .. n |-> IF k = 0 THEN a ELSE Retransmit(b[k - 1], lost[k], ssrc)]
           done == CHOOSE b : Rec(b)
           last == IF ReachesRtcp(d) THEN n ELSE 0
<1>1. n \in Nat /\ L \in SUBSET Wire /\ \A k \in 1 .. n : lost[k] \in L
  BY LenProperties, ElementOfSeq
<1>2. streams' = done[last].streams /\ buf' = done[last].buf
  BY DEF Nack
<1>3. a \in A
  <2>1. Len(buf) \in Nat
    BY LenProperties DEF SenderType, Queue
  <2>2. Answers(a, L, ssrc)
    BY <2>1 DEF Answers, SenderType, SameCounts, Extended
  <2> QED BY <2>2 DEF SenderType, Queue
<1>4. ASSUME NEW k \in 1 .. n, NEW x \in A PROVE Retransmit(x, lost[k], ssrc) \in A
  <2>1. Answers(Retransmit(x, lost[k], ssrc), L, ssrc)
    BY <1>1, <1>4, Retransmitted
  <2>2. Retransmit(x, lost[k], ssrc) = x \/
            \E u, v : Retransmit(x, lost[k], ssrc) = [streams |-> u, buf |-> v]
    BY DEF Retransmit
  <2>3. Retransmit(x, lost[k], ssrc) \in [streams : [S -> StreamState], buf : Seq(Packet)]
    BY <2>1, <2>2 DEF Answers, SameCounts, Queue
  <2> QED BY <2>1, <2>3
<1> HIDE DEF A, a, n, L, last
<1>5. g \in [1 .. n -> [A -> A]]
  <2>1. \A k \in 1 .. n : [x \in A |-> Retransmit(x, lost[k], ssrc)] \in [A -> A]
    BY <1>4
  <2> QED BY <2>1
<1> HIDE DEF g
<1>6. PICK f : Solves(f, A, a, n, g)
  BY <1>1, <1>3, <1>5, Recursion, Zenon
<1>7. f \in [0 .. n -> A] /\ f[0] = a /\ \A k \in 1 .. n : f[k] = g[k][f[k - 1]]
  BY <1>6 DEF Solves
<1>8. \A k \in 1 .. n : f[k] = Retransmit(f[k - 1], lost[k], ssrc)
  <2> SUFFICES ASSUME NEW k \in 1 .. n PROVE f[k] = Retransmit(f[k - 1], lost[k], ssrc)
    OBVIOUS
  <2>1. f[k - 1] \in A /\ f[k] = g[k][f[k - 1]]
    BY <1>1, <1>7
  <2>2. g[k] = [x \in A |-> Retransmit(x, lost[k], ssrc)]
    BY DEF g
  <2> QED BY <2>1, <2>2
<1>9. Rec(f)
  BY <1>7, <1>8
<1>10. Rec(done)
  <2> HIDE DEF Rec
  <2> QED BY <1>9
<1> HIDE DEF done
<1>11. \A k \in 0 .. n : done[k] = f[k]
  <2>1. done[0] = f[0]
    BY <1>1, <1>7, <1>10
  <2>2. \A k \in 1 .. n : done[k - 1] = f[k - 1] => done[k] = f[k]
    BY <1>1, <1>8, <1>10
  <2>3. n \in Nat
    BY <1>1
  <2> QED BY <2>1, <2>2, <2>3, Alike, SMT
<1> DEFINE P == { m \in 0 .. n : ssrc \in S => \A k \in 1 .. m : Reached(f[m], lost[k], ssrc) }
<1>12. 0 \in P
  BY <1>1
<1>13. ASSUME NEW m \in 1 .. n, m - 1 \in P PROVE m \in P
  <2>1. m - 1 \in 0 .. n /\ f[m - 1] \in A /\ f[m] \in A /\ m \in 0 .. n
    BY <1>1, <1>7
  <2>2. Answers(f[m - 1], L, ssrc) /\ Queue(f[m - 1].buf) /\ Queue(f[m].buf)
    BY <2>1 DEF A, Answers
  <2>3. f[m] = Retransmit(f[m - 1], lost[m], ssrc) /\ lost[m] \in L
    BY <1>1, <1>8
  <2>4. /\ Extended(f[m - 1].buf, f[m].buf) /\ Bytes(f[m - 1].buf) <= Bytes(f[m].buf)
        /\ ssrc \in S => Reached(f[m], lost[m], ssrc)
    BY <1>1, <2>2, <2>3, Retransmitted
  <2>5. ASSUME ssrc \in S, NEW k \in 1 .. m PROVE Reached(f[m], lost[k], ssrc)
    <3>1. CASE k = m
      BY <2>4, <2>5, <3>1
    <3>2. CASE k \in 1 .. m - 1
      <4>1. Reached(f[m - 1], lost[k], ssrc)
        BY <1>13, <2>5, <3>2
      <4> QED BY <2>2, <2>4, <4>1, StaysReached
    <3> QED BY <3>1, <3>2
  <2> QED BY <2>1, <2>5
<1>14. n \in P
  <2>1. \A k \in 0 .. n : k \in P
    <3> HIDE DEF P
    <3> QED BY <1>1, <1>12, <1>13, UpTo, Zenon
  <2> QED BY <1>1, <2>1
<1>15. last \in 0 .. n /\ (ReachesRtcp(d) => last = n)
  BY <1>1 DEF last
<1>16. streams' = f[last].streams /\ buf' = f[last].buf /\ f[last] \in A
  BY <1>2, <1>7, <1>11, <1>15
<1>17. Answers(f[last], L, ssrc)
  BY <1>16 DEF A
<1>18. ReachesRtcp(d) /\ ssrc \in S => \A k \in 1 .. n : Reached(f[last], lost[k], ssrc)
  BY <1>14, <1>15
<1> QED BY <1>16, <1>17, <1>18 DEF L, n


(***************************************************************************)
(* The invariant of the sender.                                            *)
(***************************************************************************)
\* Each slot of a stream's history has the newest packet of the track in it,
\* or one that only packets of send_rtp came after, and none of another slot.
HistoryOK(st, s, rs) ==
    \A i \in Slots :
        /\ st.history[i] # NoEntry => st.history[i] \in 1 .. st.n /\ Slot(st.history[i]) = i
        /\ \A m \in 1 .. st.n : Slot(m) = i => m <= st.history[i] \/ (s = 1 /\ m \in rs)

HistoryFits == \A s \in S : HistoryOK(streams[s], s, raws)

SenderInv == SenderType /\ StatsAddUp /\ HistoryFits

\* Every number has a slot of the history.
LEMMA SlotType == ASSUME NEW n \in Nat PROVE Slot(n) \in Slots
<1>1. n \in Int /\ SeqSpace \in Nat \ {0} /\ HISTORY_SIZE \in Nat \ {0}
  BY SenderAssumption
<1>2. Seq16(n) \in 0 .. SeqSpace - 1
  BY <1>1, DivMod, Zenon DEF Seq16
<1>3. Seq16(n) \in Int
  BY <1>1, <1>2
<1> QED BY <1>1, <1>3, DivMod, Zenon DEF Slot, Slots

\* The next packet of a stream goes into its slot.
LEMMA Emitted ==
    ASSUME NEW sts \in [S -> StreamState], NEW s \in S
    PROVE  /\ Emit(sts, s) \in [S -> StreamState]
           /\ \A t \in S : t # s => Emit(sts, s)[t] = sts[t]
           /\ Emit(sts, s)[s].n = sts[s].n + 1
           /\ Emit(sts, s)[s].packet_count = sts[s].packet_count
           /\ \A rs : HistoryOK(sts[s], s, rs) => HistoryOK(Emit(sts, s)[s], s, rs)
<1> DEFINE n == sts[s].n + 1
           i == Slot(n)
           h == [sts[s].history EXCEPT ![i] = n]
           e == [sts[s] EXCEPT !.n = n, !.history = h]
<1>1. sts[s] \in StreamState /\ n \in Nat /\ sts[s].n \in Nat /\ sts[s].history \in [Slots -> Nat]
  BY DEF StreamState
<1>2. i \in Slots
  BY <1>1, SlotType
<1>3. Emit(sts, s) = [sts EXCEPT ![s] = e]
  BY DEF Emit
<1>4. h \in [Slots -> Nat] /\ h[i] = n /\ \A j \in Slots : j # i => h[j] = sts[s].history[j]
  BY <1>1, <1>2
<1> HIDE DEF h, i
<1>5. e \in StreamState /\ e.n = n /\ e.history = h /\ e.packet_count = sts[s].packet_count
  BY <1>1, <1>4 DEF StreamState
<1> HIDE DEF e
<1>6. /\ Emit(sts, s) \in [S -> StreamState] /\ Emit(sts, s)[s] = e
      /\ \A t \in S : t # s => Emit(sts, s)[t] = sts[t]
  BY <1>3, <1>5
<1>7. ASSUME NEW rs, HistoryOK(sts[s], s, rs) PROVE HistoryOK(e, s, rs)
  <2> SUFFICES ASSUME NEW j \in Slots
               PROVE  /\ h[j] # NoEntry => h[j] \in 1 .. n /\ Slot(h[j]) = j
                      /\ \A m \in 1 .. n : Slot(m) = j => m <= h[j] \/ (s = 1 /\ m \in rs)
    BY <1>5 DEF HistoryOK
  <2>1. CASE j = i
    BY <1>1, <1>4, <2>1 DEF i
  <2>2. CASE j # i
    <3>1. h[j] = sts[s].history[j]
      BY <1>4, <2>2
    <3>2. Slot(n) # j
      BY <2>2 DEF i
    <3> QED BY <1>1, <1>7, <3>1, <3>2 DEF HistoryOK
  <2> QED BY <2>1, <2>2
<1> QED BY <1>5, <1>6, <1>7

\* Counting a packet, or a writer, touches no history.
LEMMA CountedUp ==
    ASSUME NEW sts \in [S -> StreamState], NEW s \in S, NEW c \in Int, NEW new,
           new = [sts EXCEPT ![s].packet_count = c]
    PROVE  /\ new \in [S -> StreamState]
           /\ \A t \in S : t # s => new[t] = sts[t]
           /\ new[s].n = sts[s].n /\ new[s].history = sts[s].history /\ new[s].packet_count = c
<1> DEFINE e == [sts[s] EXCEPT !.packet_count = c]
<1>1. e \in StreamState /\ e.n = sts[s].n /\ e.history = sts[s].history /\ e.packet_count = c
  BY DEF StreamState
<1>2. new = [sts EXCEPT ![s] = e]
  OBVIOUS
<1> HIDE DEF e
<1> QED BY <1>1, <1>2


\* The packet of stream s that the loop waits for.
InFlight(l, s) == IF l.pc = "sending" /\ Head(l.todo) = s THEN 1 ELSE 0
Queued(w, s) == IF s = 1 THEN Len(w) ELSE 0

\* The types and the counts, stream by stream.
LEMMA Balance ==
    ASSUME SenderInv, NEW s \in S
    PROVE  /\ streams[s].n = streams[s].packet_count + InFlight(loop, s) + Queued(waiting, s) + failed[s]
           /\ streams[s] \in StreamState /\ streams[s].n \in Nat /\ streams[s].packet_count \in Int
           /\ failed[s] \in Nat /\ Len(waiting) \in Nat /\ Queued(waiting, s) \in Nat
           /\ InFlight(loop, s) \in 0 .. 1 /\ HistoryOK(streams[s], s, raws)
<1>1. streams[s] \in StreamState /\ failed[s] \in Nat /\ waiting \in Seq(Raw)
  BY DEF SenderInv, SenderType
<1>2. Len(waiting) \in Nat
  BY <1>1, LenProperties
<1>3. streams[s].n = streams[s].packet_count + InFlight(loop, s) + Queued(waiting, s) + failed[s]
  BY DEF SenderInv, StatsAddUp, InFlight, Queued
<1> QED BY <1>1, <1>2, <1>3 DEF StreamState, InFlight, Queued, SenderInv, HistoryFits

\* What a step has to show for StatsAddUp.
LEMMA AddsUp ==
    ASSUME \A s \in S : streams'[s].n = streams'[s].packet_count + InFlight(loop', s)
                                            + Queued(waiting', s) + failed'[s]
    PROVE  StatsAddUp'
BY DEF StatsAddUp, InFlight, Queued

\* A step that neither numbers nor counts a packet, and lets go of none that
\* is in flight.
LEMMA CountsUnchanged ==
    ASSUME SenderInv, UNCHANGED <<raws, failed, waiting>>, SameCounts(streams'),
           \A s \in S : InFlight(loop', s) = InFlight(loop, s)
    PROVE  StatsAddUp' /\ HistoryFits'
<1>1. ASSUME NEW s \in S
      PROVE  /\ streams'[s].n = streams'[s].packet_count + InFlight(loop', s)
                                    + Queued(waiting', s) + failed'[s]
             /\ HistoryOK(streams'[s], s, raws')
  <2>1. /\ streams'[s].n = streams[s].n /\ streams'[s].packet_count = streams[s].packet_count
        /\ streams'[s].history = streams[s].history
    BY DEF SameCounts
  <2>2. HistoryOK(streams'[s], s, raws')
    BY <2>1, Balance DEF HistoryOK
  <2> QED BY <2>1, <2>2, Balance
<1> QED BY <1>1, AddsUp DEF HistoryFits

\* A step that leaves the streams alone changes no count.
LEMMA StreamsKept == ASSUME SenderInv, UNCHANGED streams PROVE SameCounts(streams')
BY DEF SameCounts, SenderInv, SenderType

\* Starting and ending the loop, and setting its track.
LEMMA LoopStep ==
    ASSUME SenderInv, StartLoops \/ TrackEnds \/ \E t \in Tracks \cup {"none"} : SetTrack(t)
    PROVE  SenderInv'
<1>1. /\ UNCHANGED <<buf, waiting, streams, raws, failed, stopped>>
      /\ track' \in Tracks \cup {"none"}
      /\ loop'.pc # "sending" \/ loop' = loop
      /\ loop.pc # "sending" \/ loop' = loop
      /\ loop' \in [pc : {"none", "waiting", "sending", "done"}, track : Tracks \cup {"none"},
                    todo : Seq(S)]
  <2>1. CASE StartLoops
    BY <2>1 DEF StartLoops, SenderInv, SenderType, streamVars
  <2>2. CASE TrackEnds
    BY <2>2 DEF TrackEnds, SenderInv, SenderType, streamVars
  <2>3. CASE \E t \in Tracks \cup {"none"} : SetTrack(t)
    BY <2>3 DEF SetTrack, SenderInv, SenderType, streamVars
  <2> QED BY <2>1, <2>2, <2>3
<1>2. SenderType'
  BY <1>1 DEF SenderInv, SenderType, Queue
<1>3. \A s \in S : InFlight(loop', s) = InFlight(loop, s)
  BY <1>1 DEF InFlight
<1> QED BY <1>1, <1>2, <1>3, StreamsKept, CountsUnchanged DEF SenderInv

\* recv yields a frame.
LEMMA YieldStep ==
    ASSUME SenderInv, NEW todo \in Frames, TrackYields(todo)
    PROVE  SenderInv'
<1>1. /\ UNCHANGED <<buf, waiting, raws, failed, stopped, track>> /\ loop.pc = "waiting"
      /\ todo \in Seq(S)
  BY SenderAssumption DEF TrackYields, streamVars, S
<1>2. CASE todo = << >>
  <2>1. loop' = AfterFrame /\ UNCHANGED streams
    BY <1>2 DEF TrackYields
  <2>2. /\ loop' \in [pc : {"none", "waiting", "sending", "done"}, track : Tracks \cup {"none"},
                      todo : Seq(S)]
        /\ loop'.pc # "sending"
    BY <2>1, EmptySeq DEF AfterFrame, SenderInv, SenderType
  <2>3. SenderType'
    BY <1>1, <2>1, <2>2 DEF SenderInv, SenderType, Queue
  <2>4. \A s \in S : InFlight(loop', s) = InFlight(loop, s)
    BY <1>1, <2>2 DEF InFlight
  <2> QED BY <1>1, <2>1, <2>3, <2>4, StreamsKept, CountsUnchanged DEF SenderInv
<1>3. CASE todo # << >>
  <2> DEFINE h == Head(todo)
  <2>1. streams' = Emit(streams, h) /\ loop' = [loop EXCEPT !.pc = "sending", !.todo = todo]
    BY <1>3 DEF TrackYields
  <2>2. h \in S
    BY <1>1, <1>3, HeadTailProperties
  <2>3. /\ loop' \in [pc : {"none", "waiting", "sending", "done"}, track : Tracks \cup {"none"},
                      todo : Seq(S)]
        /\ loop'.pc = "sending" /\ loop'.todo = todo
    BY <1>1, <2>1 DEF SenderInv, SenderType
  <2> HIDE DEF h
  <2>4. /\ streams' \in [S -> StreamState]
        /\ \A t \in S : t # h => streams'[t] = streams[t]
        /\ streams'[h].n = streams[h].n + 1
        /\ streams'[h].packet_count = streams[h].packet_count
        /\ HistoryOK(streams[h], h, raws) => HistoryOK(streams'[h], h, raws)
    BY <2>1, <2>2, Emitted DEF SenderInv, SenderType
  <2>5. SenderType'
    BY <1>1, <1>3, <2>3, <2>4 DEF SenderInv, SenderType, Queue
  <2>6. ASSUME NEW s \in S
        PROVE  /\ streams'[s].n = streams'[s].packet_count + InFlight(loop', s)
                                      + Queued(waiting', s) + failed'[s]
               /\ HistoryOK(streams'[s], s, raws')
    <3>1. InFlight(loop, s) = 0 /\ InFlight(loop', s) = IF s = h THEN 1 ELSE 0
      BY <1>1, <2>3 DEF InFlight, h
    <3>2. CASE s = h
      <4>1. /\ streams[s].n = streams[s].packet_count + InFlight(loop, s) + Queued(waiting, s) + failed[s]
            /\ streams[s].packet_count \in Int /\ failed[s] \in Nat /\ Queued(waiting, s) \in Nat
        BY Balance
      <4>2. HistoryOK(streams[s], s, raws)
        BY Balance
      <4>3. HistoryOK(streams'[s], s, raws')
        BY <1>1, <2>4, <3>2, <4>2
      <4>4. streams'[s].n = streams[s].n + 1 /\ streams'[s].packet_count = streams[s].packet_count
        BY <2>4, <3>2
      <4>5. streams'[s].n = streams'[s].packet_count + InFlight(loop', s) + Queued(waiting', s) + failed'[s]
        BY <1>1, <3>1, <3>2, <4>1, <4>4
      <4> QED BY <4>3, <4>5
    <3>3. CASE s # h
      BY <1>1, <2>4, <3>1, <3>3, Balance
    <3> QED BY <3>2, <3>3
  <2> QED BY <2>5, <2>6, AddsUp DEF SenderInv, HistoryFits
<1> QED BY <1>2, <1>3


LoopType == [pc : {"none", "waiting", "sending", "done"}, track : Tracks \cup {"none"}, todo : Seq(S)]

\* The packet in flight is not sent: the send failed, or was cancelled with the loop.
LEMMA SendFails ==
    ASSUME SenderInv, loop.pc = "sending",
           loop' = [loop EXCEPT !.pc = "done", !.todo = << >>],
           failed' = [failed EXCEPT ![Head(loop.todo)] = @ + 1],
           UNCHANGED <<buf, waiting, track, streams, raws>>, stopped' \in BOOLEAN
    PROVE  SenderInv'
<1> DEFINE h == Head(loop.todo)
<1>1. loop \in LoopType /\ h \in S /\ loop.todo # << >> /\ failed \in [S -> Nat]
  <2>1. loop \in LoopType /\ loop.todo # << >> /\ failed \in [S -> Nat]
    BY DEF SenderInv, SenderType, LoopType
  <2>2. loop.todo \in Seq(S)
    BY <2>1 DEF LoopType
  <2> QED BY <2>1, <2>2, HeadTailProperties
<1>2. loop' \in LoopType /\ loop'.pc = "done"
  BY <1>1, EmptySeq DEF LoopType
<1>3. \A s \in S : InFlight(loop', s) = 0 /\ InFlight(loop, s) = IF s = h THEN 1 ELSE 0
  BY <1>2 DEF InFlight
<1> HIDE DEF h
<1>4. failed' \in [S -> Nat] /\ \A s \in S : failed'[s] = IF s = h THEN failed[s] + 1 ELSE failed[s]
  BY <1>1 DEF h
<1>5. SenderType'
  BY <1>2, <1>4 DEF SenderInv, SenderType, Queue, LoopType
<1>6. ASSUME NEW s \in S
      PROVE  streams'[s].n = streams'[s].packet_count + InFlight(loop', s)
                                 + Queued(waiting', s) + failed'[s]
  <2>1. /\ streams[s].n = streams[s].packet_count + InFlight(loop, s) + Queued(waiting, s) + failed[s]
        /\ streams[s].packet_count \in Int /\ failed[s] \in Nat /\ Queued(waiting, s) \in Nat
    BY Balance
  <2> QED BY <1>3, <1>4, <2>1
<1> QED BY <1>5, <1>6, AddsUp DEF SenderInv, HistoryFits

\* The packet in flight was sent, and perhaps the next one numbered.
LEMMA SendStep ==
    ASSUME SenderInv, NEW ok \in BOOLEAN, SendCompletes(ok)
    PROVE  SenderInv'
<1> DEFINE h == Head(loop.todo)
           rest == Tail(loop.todo)
<1>0. UNCHANGED <<buf, waiting, track, stopped, raws>> /\ loop.pc = "sending"
  BY DEF SendCompletes, streamVars
<1>1. loop \in LoopType /\ h \in S /\ rest \in Seq(S) /\ streams \in [S -> StreamState]
  <2>1. loop \in LoopType /\ loop.todo # << >> /\ streams \in [S -> StreamState]
    BY <1>0 DEF SenderInv, SenderType, LoopType
  <2>2. loop.todo \in Seq(S)
    BY <2>1 DEF LoopType
  <2> QED BY <2>1, <2>2, HeadTailProperties
<1>2. CASE ~ok
  BY <1>0, <1>2, SendFails DEF SendCompletes, SenderInv, SenderType
<1>3. CASE ok
  <2> DEFINE mid == Count(streams, h)
             next == Head(rest)
  <2>1. /\ UNCHANGED failed
        /\ loop' = IF rest = << >> THEN AfterFrame ELSE [loop EXCEPT !.todo = rest]
        /\ streams' = IF rest = << >> THEN mid ELSE Emit(mid, next)
    BY <1>3 DEF SendCompletes
  <2>2. streams[h].packet_count + 1 \in Int
    BY <1>1 DEF StreamState
  <2>3. /\ mid \in [S -> StreamState] /\ \A t \in S : t # h => mid[t] = streams[t]
        /\ mid[h].n = streams[h].n /\ mid[h].history = streams[h].history
        /\ mid[h].packet_count = streams[h].packet_count + 1
    <3>1. mid = [streams EXCEPT ![h].packet_count = streams[h].packet_count + 1]
      BY DEF Count
    <3> HIDE DEF mid, h
    <3> QED BY <1>1, <2>2, <3>1, CountedUp
  <2>4. \A s \in S : InFlight(loop, s) = IF s = h THEN 1 ELSE 0
    BY <1>0 DEF InFlight
  <2> HIDE DEF mid, h
  <2>5. ASSUME NEW s \in S
        PROVE  /\ mid[s].n = mid[s].packet_count + Queued(waiting, s) + failed[s]
               /\ HistoryOK(mid[s], s, raws) /\ mid[s].packet_count \in Int
               /\ Queued(waiting, s) \in Nat /\ failed[s] \in Nat
    <3>1. /\ streams[s].n = streams[s].packet_count + InFlight(loop, s) + Queued(waiting, s) + failed[s]
          /\ streams[s].packet_count \in Int /\ failed[s] \in Nat /\ Queued(waiting, s) \in Nat
      BY Balance
    <3>2. HistoryOK(streams[s], s, raws)
      BY Balance
    <3>3. mid[s].n = streams[s].n /\ mid[s].history = streams[s].history
      BY <2>3
    <3>4. HistoryOK(mid[s], s, raws)
      BY <3>2, <3>3 DEF HistoryOK
    <3>5. mid[s].packet_count = IF s = h THEN streams[s].packet_count + 1 ELSE streams[s].packet_count
      BY <2>3
    <3>6. mid[s].n = mid[s].packet_count + Queued(waiting, s) + failed[s]
      BY <2>4, <3>1, <3>3, <3>5
    <3>7. mid[s].packet_count \in Int
      BY <3>1, <3>5
    <3> QED BY <3>1, <3>4, <3>6, <3>7
  <2>6. CASE rest = << >>
    <3>1. loop' \in LoopType /\ loop'.pc # "sending" /\ streams' = mid
      BY <1>1, <2>1, <2>6, EmptySeq DEF AfterFrame, LoopType
    <3>2. SenderType'
      BY <1>0, <2>1, <2>3, <3>1 DEF SenderInv, SenderType, Queue, LoopType
    <3>3. \A s \in S : InFlight(loop', s) = 0
      BY <3>1 DEF InFlight
    <3>4. ASSUME NEW s \in S
          PROVE  streams'[s].n = streams'[s].packet_count + InFlight(loop', s)
                                     + Queued(waiting', s) + failed'[s]
      BY <1>0, <2>1, <2>5, <3>1, <3>3
    <3>5. HistoryFits'
      BY <1>0, <2>5, <3>1 DEF HistoryFits
    <3> QED BY <3>2, <3>4, <3>5, AddsUp DEF SenderInv
  <2>7. CASE rest # << >>
    <3>0. next \in S
      BY <1>1, <2>7, HeadTailProperties
    <3>1. /\ loop' \in LoopType /\ loop'.pc = "sending" /\ loop'.todo = rest
          /\ streams' = Emit(mid, next)
      BY <1>0, <1>1, <2>1, <2>7 DEF LoopType
    <3>2. \A s \in S : InFlight(loop', s) = IF s = next THEN 1 ELSE 0
      BY <3>1 DEF InFlight
    <3> HIDE DEF next, rest
    <3>3. /\ streams' \in [S -> StreamState]
          /\ \A t \in S : t # next => streams'[t] = mid[t]
          /\ streams'[next].n = mid[next].n + 1
          /\ streams'[next].packet_count = mid[next].packet_count
          /\ HistoryOK(mid[next], next, raws) => HistoryOK(streams'[next], next, raws)
      BY <2>3, <3>0, <3>1, Emitted
    <3>4. SenderType'
      BY <1>0, <2>1, <2>7, <3>1, <3>3 DEF SenderInv, SenderType, Queue, LoopType
    <3>5. ASSUME NEW s \in S
          PROVE  /\ streams'[s].n = streams'[s].packet_count + InFlight(loop', s)
                                        + Queued(waiting', s) + failed'[s]
                 /\ HistoryOK(streams'[s], s, raws')
      <4>1. CASE s = next
        <5>1. HistoryOK(streams'[s], s, raws')
          BY <1>0, <2>5, <3>3, <4>1
        <5>2. streams'[s].n = mid[s].n + 1 /\ streams'[s].packet_count = mid[s].packet_count
          BY <3>3, <4>1
        <5>3. streams'[s].n = streams'[s].packet_count + InFlight(loop', s)
                                  + Queued(waiting', s) + failed'[s]
          BY <1>0, <2>1, <2>5, <3>2, <4>1, <5>2
        <5> QED BY <5>1, <5>3
      <4>2. CASE s # next
        <5>1. streams'[s] = mid[s] /\ InFlight(loop', s) = 0
          BY <3>2, <3>3, <4>2
        <5>2. HistoryOK(streams'[s], s, raws')
          BY <1>0, <2>5, <5>1
        <5>3. streams'[s].n = streams'[s].packet_count + InFlight(loop', s)
                                  + Queued(waiting', s) + failed'[s]
          BY <1>0, <2>1, <2>5, <5>1
        <5> QED BY <5>2, <5>3
      <4> QED BY <4>1, <4>2
    <3> QED BY <3>4, <3>5, AddsUp DEF SenderInv, HistoryFits
  <2> QED BY <2>6, <2>7
<1> QED BY <1>2, <1>3


\* rtp_sender::stop and rtp_transceiver::stop.
LEMMA StopStep ==
    ASSUME SenderInv, NEW cancel \in BOOLEAN, Stop(cancel)
    PROVE  SenderInv'
<1>0. UNCHANGED <<buf, waiting, track, streams, raws>> /\ stopped' \in BOOLEAN
  BY DEF Stop, streamVars
<1>1. CASE cancel /\ loop.pc = "sending"
  BY <1>0, <1>1, SendFails DEF Stop
<1>2. CASE ~(cancel /\ loop.pc = "sending")
  <2>0. loop \in LoopType
    BY DEF SenderInv, SenderType, LoopType
  <2>1. /\ UNCHANGED failed
        /\ loop' = loop \/ (/\ loop' = [loop EXCEPT !.pc = "done", !.todo = << >>]
                            /\ loop.pc = "waiting")
    BY <1>2 DEF Stop
  <2>2. loop' \in LoopType /\ (loop' = loop \/ (loop'.pc = "done" /\ loop.pc = "waiting"))
    BY <2>0, <2>1, EmptySeq DEF LoopType
  <2>3. SenderType'
    BY <1>0, <2>1, <2>2 DEF SenderInv, SenderType, Queue, LoopType
  <2>4. \A s \in S : InFlight(loop', s) = InFlight(loop, s)
    BY <2>2 DEF InFlight
  <2> QED BY <1>0, <2>1, <2>3, <2>4, StreamsKept, CountsUnchanged DEF SenderInv
<1> QED BY <1>1, <1>2

\* send_rtp of the application.
LEMMA RawStep ==
    ASSUME SenderInv, NEW size \in RawSizes, RawSend(size)
    PROVE  SenderInv'
<1> DEFINE n == streams[1].n + 1
           p == [kind |-> "raw", s |-> 1, n |-> n, size |-> size]
           c == IF Fits(buf, p) THEN streams[1].packet_count + 1 ELSE streams[1].packet_count
           e == [streams[1] EXCEPT !.n = n, !.packet_count = c]
<1>0. 1 \in S /\ size \in Nat
  BY SenderAssumption, CapacityAssumption DEF S
<1>1. /\ UNCHANGED <<loop, track, stopped, failed>> /\ raws' = raws \cup {n} /\ async_write(p)
      /\ streams' = [streams EXCEPT ![1].n = n, ![1].packet_count = c]
  BY DEF RawSend, loopVars
<1>2. /\ streams \in [S -> StreamState] /\ streams[1] \in StreamState /\ n \in Nat /\ c \in Int
      /\ streams[1].n \in Nat /\ streams[1].packet_count \in Int
  BY <1>0 DEF SenderInv, SenderType, StreamState
<1>3. p \in Packet /\ p \in Raw
  BY <1>0, <1>2 DEF Packet, Raw
<1>4. streams' = [streams EXCEPT ![1] = e]
  BY <1>1
<1>5. e \in StreamState /\ e.n = n /\ e.packet_count = c /\ e.history = streams[1].history
  <2> HIDE DEF n, c
  <2> QED BY <1>2 DEF StreamState
<1>6. c = streams[1].packet_count + IF Fits(buf, p) THEN 1 ELSE 0
  BY <1>2
<1> HIDE DEF e, c, p
<1>7. streams' \in [S -> StreamState] /\ streams'[1] = e /\ \A t \in S : t # 1 => streams'[t] = streams[t]
  BY <1>0, <1>2, <1>4, <1>5
<1>8. /\ Queue(buf') /\ waiting' \in Seq(Raw)
      /\ Len(waiting') = Len(waiting) + IF Fits(buf, p) THEN 0 ELSE 1
  <2>1. Queue(buf) /\ waiting \in Seq(Raw) /\ Len(waiting) \in Nat
    BY LenProperties DEF SenderInv, SenderType
  <2>2. Queue(try_write(buf, p))
    BY <1>3, <2>1, TryWrite
  <2>3. Append(waiting, p) \in Seq(Raw) /\ Len(Append(waiting, p)) = Len(waiting) + 1
    BY <1>3, <2>1, AppendProperties
  <2> QED BY <1>1, <2>1, <2>2, <2>3 DEF async_write
<1>9. SenderType'
  BY <1>1, <1>2, <1>7, <1>8 DEF SenderInv, SenderType
<1>10. ASSUME NEW s \in S
       PROVE  /\ streams'[s].n = streams'[s].packet_count + InFlight(loop', s)
                                     + Queued(waiting', s) + failed'[s]
              /\ HistoryOK(streams'[s], s, raws')
  <2>1. /\ streams[s].n = streams[s].packet_count + InFlight(loop, s) + Queued(waiting, s) + failed[s]
        /\ streams[s].n \in Nat /\ streams[s].packet_count \in Int /\ failed[s] \in Nat
        /\ InFlight(loop, s) \in 0 .. 1
    BY Balance
  <2>2. HistoryOK(streams[s], s, raws) /\ Len(waiting) \in Nat
    BY Balance
  <2>3. CASE s = 1
    <3>1. streams'[s].n = streams[s].n + 1 /\ streams'[s].packet_count = c
      BY <1>5, <1>7, <2>3
    <3>2. Queued(waiting, s) = Len(waiting) /\ Queued(waiting', s) = Len(waiting')
      BY <2>3 DEF Queued
    <3>3. streams'[s].n = streams'[s].packet_count + InFlight(loop', s) + Queued(waiting', s) + failed'[s]
      <4>1. c + Len(waiting') = streams[s].packet_count + Len(waiting) + 1 /\ c \in Int
            /\ Len(waiting') \in Nat
        <5>1. CASE Fits(buf, p)
          BY <1>2, <1>6, <1>8, <2>2, <2>3, <5>1
        <5>2. CASE ~Fits(buf, p)
          BY <1>2, <1>6, <1>8, <2>2, <2>3, <5>2
        <5> QED BY <5>1, <5>2
      <4>2. loop' = loop /\ failed' = failed
        BY <1>1
      <4>3. /\ streams'[s].packet_count + Queued(waiting', s)
                  = streams[s].packet_count + Queued(waiting, s) + 1
            /\ streams'[s].packet_count \in Int /\ Queued(waiting', s) \in Nat
            /\ Queued(waiting, s) \in Nat
        BY <2>2, <3>1, <3>2, <4>1
      <4>4. streams'[s].n = streams[s].n + 1
        BY <3>1
      <4> QED BY <2>1, <4>2, <4>3, <4>4
    <3>4. HistoryOK(e, 1, raws')
      <4> SUFFICES ASSUME NEW i \in Slots
                   PROVE  /\ e.history[i] # NoEntry => e.history[i] \in 1 .. n /\ Slot(e.history[i]) = i
                          /\ \A m \in 1 .. n : Slot(m) = i => m <= e.history[i] \/ m \in raws'
        BY <1>5 DEF HistoryOK
      <4>1. streams[1].history[i] \in Nat
        BY <1>2 DEF StreamState
      <4> QED BY <1>1, <1>2, <1>5, <2>2, <2>3, <4>1 DEF HistoryOK
    <3> QED BY <1>7, <2>3, <3>3, <3>4
  <2>4. CASE s # 1
    <3>1. streams'[s] = streams[s] /\ Queued(waiting, s) = 0 /\ Queued(waiting', s) = 0
      BY <1>7, <2>4 DEF Queued
    <3>2. HistoryOK(streams'[s], s, raws')
      BY <2>2, <2>4, <3>1 DEF HistoryOK
    <3>3. streams'[s].n = streams'[s].packet_count + InFlight(loop', s) + Queued(waiting', s) + failed'[s]
      BY <1>1, <2>1, <3>1
    <3> QED BY <3>2, <3>3
  <2> QED BY <2>3, <2>4
<1> QED BY <1>9, <1>10, AddsUp DEF SenderInv, HistoryFits

\* send_rtp of the application when the encryption fails.
LEMMA UnencryptedStep == ASSUME SenderInv, RawUnencrypted PROVE SenderInv'
<1> DEFINE n == streams[1].n + 1
           e == [streams[1] EXCEPT !.n = n]
<1>0. 1 \in S /\ streams \in [S -> StreamState] /\ failed \in [S -> Nat]
  BY SenderAssumption DEF S, SenderInv, SenderType
<1>1. /\ UNCHANGED <<buf, waiting, loop, track, stopped>> /\ raws' = raws \cup {n}
      /\ streams' = [streams EXCEPT ![1] = e] /\ failed' = [failed EXCEPT ![1] = @ + 1]
  BY DEF RawUnencrypted, streamVars, loopVars
<1>2. streams[1] \in StreamState /\ streams[1].n \in Nat /\ n \in Nat
  BY <1>0 DEF StreamState
<1>3. /\ e \in StreamState /\ e.n = n /\ e.packet_count = streams[1].packet_count
      /\ e.history = streams[1].history
  <2> HIDE DEF n
  <2> QED BY <1>2 DEF StreamState
<1> HIDE DEF e
<1>4. /\ streams' \in [S -> StreamState] /\ streams'[1] = e
      /\ \A t \in S : t # 1 => streams'[t] = streams[t]
  BY <1>0, <1>1, <1>3
<1>5. failed' \in [S -> Nat] /\ \A s \in S : failed'[s] = IF s = 1 THEN failed[s] + 1 ELSE failed[s]
  BY <1>0, <1>1
<1>6. SenderType'
  BY <1>1, <1>2, <1>4, <1>5 DEF SenderInv, SenderType, Queue
<1>7. ASSUME NEW s \in S
      PROVE  /\ streams'[s].n = streams'[s].packet_count + InFlight(loop', s)
                                    + Queued(waiting', s) + failed'[s]
             /\ HistoryOK(streams'[s], s, raws')
  <2>1. /\ streams[s].n = streams[s].packet_count + InFlight(loop, s) + Queued(waiting, s) + failed[s]
        /\ streams[s].n \in Nat /\ streams[s].packet_count \in Int /\ failed[s] \in Nat
        /\ InFlight(loop, s) \in 0 .. 1 /\ Queued(waiting, s) \in Nat
    BY Balance
  <2>2. HistoryOK(streams[s], s, raws)
    BY Balance
  <2>3. InFlight(loop', s) = InFlight(loop, s) /\ Queued(waiting', s) = Queued(waiting, s)
    BY <1>1
  <2>4. CASE s = 1
    <3>1. /\ streams'[s].n = streams[s].n + 1 /\ failed'[s] = failed[s] + 1
          /\ streams'[s].packet_count = streams[s].packet_count
      BY <1>3, <1>4, <1>5, <2>4
    <3>2. HistoryOK(e, 1, raws')
      <4> SUFFICES ASSUME NEW i \in Slots
                   PROVE  /\ e.history[i] # NoEntry => e.history[i] \in 1 .. n /\ Slot(e.history[i]) = i
                          /\ \A m \in 1 .. n : Slot(m) = i => m <= e.history[i] \/ m \in raws'
        BY <1>3 DEF HistoryOK
      <4>1. streams[1].history[i] \in Nat
        BY <1>2 DEF StreamState
      <4> QED BY <1>1, <1>2, <1>3, <2>2, <2>4, <4>1 DEF HistoryOK
    <3> QED BY <1>4, <2>1, <2>3, <2>4, <3>1, <3>2
  <2>5. CASE s # 1
    <3>1. streams'[s] = streams[s] /\ failed'[s] = failed[s]
      BY <1>4, <1>5, <2>5
    <3>2. HistoryOK(streams'[s], s, raws')
      BY <2>2, <2>5, <3>1 DEF HistoryOK
    <3> QED BY <2>1, <2>3, <3>1, <3>2
  <2> QED BY <2>4, <2>5
<1> QED BY <1>6, <1>7, AddsUp DEF SenderInv, HistoryFits

\* A NACK and our own feedback.
LEMMA NackStep ==
    ASSUME SenderInv, NEW d, NEW lost \in Seq(Wire), NEW ssrc \in 0 .. Streams, Nack(d, lost, ssrc)
    PROVE  SenderInv'
<1>1. UNCHANGED <<waiting, loop, track, stopped, raws, failed>>
  BY DEF Nack, loopVars
<1>2. PICK r : /\ streams' = r.streams /\ buf' = r.buf
               /\ Answers(r, { lost[k] : k \in 1 .. Len(lost) }, ssrc)
  BY Nacked DEF SenderInv
<1>3. SameCounts(streams') /\ Queue(buf')
  BY <1>2 DEF Answers
<1>4. SenderType'
  BY <1>1, <1>3 DEF SenderInv, SenderType, SameCounts
<1>5. \A s \in S : InFlight(loop', s) = InFlight(loop, s)
  BY <1>1
<1> QED BY <1>1, <1>3, <1>4, <1>5, CountsUnchanged DEF SenderInv

\* Our own feedback counts for no stream.
LEMMA FeedbackStep == ASSUME SenderInv, Feedback PROVE SenderInv'
<1> DEFINE p == [kind |-> "rtcp", s |-> 0, n |-> 0, size |-> RtxSize]
<1>1. UNCHANGED <<waiting, loop, track, stopped, streams, raws, failed>> /\ buf' = try_write(buf, p)
  BY DEF Feedback, loopVars
<1>2. p \in Packet
  BY SenderAssumption DEF Packet
<1>3. Queue(buf')
  BY <1>1, <1>2, TryWrite DEF SenderInv, SenderType
<1>4. SenderType'
  BY <1>1, <1>3 DEF SenderInv, SenderType
<1>5. \A s \in S : InFlight(loop', s) = InFlight(loop, s)
  BY <1>1
<1> QED BY <1>1, <1>4, <1>5, StreamsKept, CountsUnchanged DEF SenderInv


\* ice_send_loop: writers that got room are counted.
LEMMA IceStep == ASSUME SenderInv, IceLoopStarts \/ IceLoopSent PROVE SenderInv'
<1>0. 1 \in S
  BY SenderAssumption DEF S
<1>1. CASE IceLoopStarts
  <2>1. UNCHANGED <<buf, waiting, loop, track, stopped, streams, raws, failed>>
    BY <1>1 DEF IceLoopStarts, StartIceLoop, loopVars
  <2>2. SenderType'
    BY <2>1 DEF SenderInv, SenderType, Queue
  <2>3. \A s \in S : InFlight(loop', s) = InFlight(loop, s)
    BY <2>1
  <2> QED BY <2>1, <2>2, <2>3, StreamsKept, CountsUnchanged DEF SenderInv
<1>2. CASE IceLoopSent
  <2> DEFINE c == streams[1].packet_count + Len(waiting) - Len(waiting')
  <2>1. /\ UNCHANGED <<loop, track, stopped, raws, failed>> /\ buf # << >>
        /\ buf' = pop.buf /\ waiting' = pop.waiting
        /\ streams' = [streams EXCEPT ![1].packet_count = c]
    BY <1>2 DEF IceLoopSent, IceSent, loopVars
  <2>2. Queue(buf') /\ waiting' \in Seq(Raw)
    BY <2>1, Popped DEF SenderInv, SenderType, Tried
  <2>3. /\ Len(waiting) \in Nat /\ Len(waiting') \in Nat /\ streams \in [S -> StreamState]
        /\ streams[1].packet_count \in Int
    BY <1>0, <2>2, LenProperties DEF SenderInv, SenderType, StreamState
  <2>4. c \in Int /\ c + Len(waiting') = streams[1].packet_count + Len(waiting)
    BY <2>3
  <2> HIDE DEF c
  <2>5. /\ streams' \in [S -> StreamState] /\ \A t \in S : t # 1 => streams'[t] = streams[t]
        /\ streams'[1].n = streams[1].n /\ streams'[1].history = streams[1].history
        /\ streams'[1].packet_count = c
    <3>1. streams' = [streams EXCEPT ![1].packet_count = c]
      BY <2>1
    <3>2. streams \in [S -> StreamState] /\ c \in Int
      BY <2>3, <2>4
    <3> DEFINE new == streams'
    <3>3. new = [streams EXCEPT ![1].packet_count = c]
      BY <3>1
    <3> HIDE DEF new
    <3>4. /\ new \in [S -> StreamState] /\ \A t \in S : t # 1 => new[t] = streams[t]
          /\ new[1].n = streams[1].n /\ new[1].history = streams[1].history
          /\ new[1].packet_count = c
      BY <1>0, <3>2, <3>3, CountedUp
    <3> QED BY <3>4 DEF new
  <2>6. SenderType'
    BY <2>1, <2>2, <2>5 DEF SenderInv, SenderType
  <2>7. ASSUME NEW s \in S
        PROVE  /\ streams'[s].n = streams'[s].packet_count + InFlight(loop', s)
                                      + Queued(waiting', s) + failed'[s]
               /\ HistoryOK(streams'[s], s, raws')
    <3>1. /\ streams[s].n = streams[s].packet_count + InFlight(loop, s) + Queued(waiting, s) + failed[s]
          /\ streams[s].packet_count \in Int /\ failed[s] \in Nat /\ InFlight(loop, s) \in 0 .. 1
      BY Balance
    <3>2. HistoryOK(streams[s], s, raws)
      BY Balance
    <3>3. streams'[s].n = streams[s].n /\ streams'[s].history = streams[s].history
      BY <2>5
    <3>4. HistoryOK(streams'[s], s, raws')
      BY <2>1, <3>2, <3>3 DEF HistoryOK
    <3>5. /\ streams'[s].packet_count + Queued(waiting', s) = streams[s].packet_count + Queued(waiting, s)
          /\ streams'[s].packet_count \in Int /\ Queued(waiting', s) \in Nat /\ Queued(waiting, s) \in Nat
      <4>1. CASE s = 1
        BY <2>3, <2>4, <2>5, <4>1 DEF Queued
      <4>2. CASE s # 1
        BY <2>5, <3>1, <4>2 DEF Queued
      <4> QED BY <4>1, <4>2
    <3>6. loop' = loop /\ failed' = failed
      BY <2>1
    <3>7. streams'[s].n = streams'[s].packet_count + InFlight(loop', s) + Queued(waiting', s) + failed'[s]
      BY <3>1, <3>3, <3>5, <3>6
    <3> QED BY <3>4, <3>7
  <2> QED BY <2>6, <2>7, AddsUp DEF SenderInv, HistoryFits
<1> QED BY <1>1, <1>2

\* A writer that waits is cancelled.
LEMMA CancelStep == ASSUME SenderInv, NEW i \in DOMAIN waiting, RawCancelled(i) PROVE SenderInv'
<1>0. 1 \in S /\ failed \in [S -> Nat]
  BY SenderAssumption DEF S, SenderInv, SenderType
<1>1. /\ UNCHANGED <<buf, loop, track, stopped, streams, raws>> /\ waiting' = RemoveAt(waiting, i)
      /\ failed' = [failed EXCEPT ![1] = @ + 1]
  BY DEF RawCancelled, CancelWrite, loopVars
<1>2. waiting' \in Seq(Raw) /\ Len(waiting') = Len(waiting) - 1
  <2> DEFINE n == Len(waiting)
             a == SubSeq(waiting, 1, i - 1)
             b == SubSeq(waiting, i + 1, n)
  <2>1. n \in Nat /\ i \in 1 .. n /\ \A k \in 1 .. n : waiting[k] \in Raw
    BY LenProperties, ElementOfSeq DEF SenderInv, SenderType
  <2>2. 1 \in Int /\ i - 1 \in Int /\ i + 1 \in Int /\ n \in Int
    BY <2>1
  <2>3. (\A k \in 1 .. i - 1 : waiting[k] \in Raw) /\ (\A k \in i + 1 .. n : waiting[k] \in Raw)
    BY <2>1
  <2>4. a \in Seq(Raw) /\ Len(a) = IF 1 <= i - 1 THEN (i - 1) - 1 + 1 ELSE 0
    BY <2>2, <2>3, SubSeqProperties
  <2>5. b \in Seq(Raw) /\ Len(b) = IF i + 1 <= n THEN n - (i + 1) + 1 ELSE 0
    BY <2>2, <2>3, SubSeqProperties
  <2> HIDE DEF a, b
  <2>6. a \o b \in Seq(Raw) /\ Len(a \o b) = Len(a) + Len(b)
    BY <2>4, <2>5, ConcatProperties
  <2>7. Len(a) = i - 1 /\ Len(b) = n - i
    BY <2>1, <2>4, <2>5
  <2>8. waiting' = a \o b
    BY <1>1 DEF RemoveAt, a, b
  <2>9. Len(a) + Len(b) = n - 1
    BY <2>1, <2>7
  <2> HIDE DEF n
  <2>10. Len(waiting') = n - 1 /\ waiting' \in Seq(Raw)
    BY <2>6, <2>8, <2>9
  <2> QED BY <2>10 DEF n
<1>3. failed' \in [S -> Nat] /\ \A s \in S : failed'[s] = IF s = 1 THEN failed[s] + 1 ELSE failed[s]
  BY <1>0, <1>1
<1>4. SenderType'
  BY <1>1, <1>2, <1>3 DEF SenderInv, SenderType, Queue
<1>5. ASSUME NEW s \in S
      PROVE  streams'[s].n = streams'[s].packet_count + InFlight(loop', s)
                                 + Queued(waiting', s) + failed'[s]
  <2>1. /\ streams[s].n = streams[s].packet_count + InFlight(loop, s) + Queued(waiting, s) + failed[s]
        /\ streams[s].packet_count \in Int /\ failed[s] \in Nat /\ Queued(waiting, s) \in Nat
        /\ Len(waiting) \in Nat /\ InFlight(loop, s) \in 0 .. 1
    BY Balance
  <2>2. Queued(waiting', s) + failed'[s] = Queued(waiting, s) + failed[s]
        /\ Queued(waiting', s) \in Int /\ failed'[s] \in Nat
    BY <1>2, <1>3, <2>1 DEF Queued
  <2>3. streams' = streams /\ loop' = loop
    BY <1>1
  <2>4. streams[s].n = streams[s].packet_count + InFlight(loop, s) + Queued(waiting', s) + failed'[s]
    <3> DEFINE c == streams[s].packet_count
               l == InFlight(loop, s)
               q == Queued(waiting, s)
               f == failed[s]
               r == Queued(waiting', s)
               g == failed'[s]
    <3>1. c \in Int /\ l \in Int /\ q \in Int /\ f \in Int /\ r \in Int /\ g \in Int
      BY <2>1, <2>2
    <3>2. r + g = q + f /\ streams[s].n = c + l + q + f
      BY <2>1, <2>2
    <3> HIDE DEF c, l, q, f, r, g
    <3>3. streams[s].n = c + l + r + g
      BY <3>1, <3>2
    <3> QED BY <3>3 DEF c, l, r, g
  <2> QED BY <2>3, <2>4
<1>6. HistoryFits'
  BY <1>1 DEF SenderInv, HistoryFits
<1> QED BY <1>4, <1>5, <1>6, AddsUp DEF SenderInv

\* The numbers a NACK of the specification asks for.
LEMMA LostOnWire ==
    ASSUME NEW seq \in 0 .. SeqSpace - 1
    PROVE  /\ <<seq, Seq16(seq + 1)>> \in Seq(Wire) /\ Len(<<seq, Seq16(seq + 1)>>) = 2
           /\ \A k \in 1 .. 2 : <<seq, Seq16(seq + 1)>>[k] \in Wire
<1>1. seq + 1 \in Int /\ SeqSpace \in Nat \ {0}
  BY SenderAssumption
<1>2. Seq16(seq + 1) \in Wire
  BY <1>1, DivMod, Zenon DEF Seq16, Wire
<1> HIDE DEF Seq16
<1> QED BY <1>2 DEF Wire

\* The invariant holds before the first packet.
LEMMA SenderInit == Init => SenderInv
<1> SUFFICES ASSUME Init PROVE SenderInv
  OBVIOUS
<1>1. /\ buf = << >> /\ waiting = << >> /\ track \in Tracks \cup {"none"} /\ stopped = FALSE
      /\ loop = [pc |-> "none", track |-> "none", todo |-> << >>]
      /\ streams = [s \in S |-> [n |-> 0, rtx_seq |-> 0, packet_count |-> 0,
                                 history |-> [i \in Slots |-> NoEntry]]]
      /\ raws = {} /\ failed = [s \in S |-> 0]
  BY DEF Init, StreamInit
<1>2. << >> \in Seq(Packet) /\ << >> \in Seq(Raw) /\ << >> \in Seq(S) /\ Len(<< >>) = 0
  BY EmptySeq
<1>3. Queue(buf)
  <2>1. Bytes(<< >>) = 0
    BY <1>2, BytesAdd
  <2> QED BY <1>1, <1>2, <2>1, CapacityAssumption DEF Queue
<1>4. /\ [n |-> 0, rtx_seq |-> 0, packet_count |-> 0, history |-> [i \in Slots |-> NoEntry]]
            \in StreamState
      /\ NoEntry = 0
  BY DEF StreamState, NoEntry
<1>5. SenderType
  BY <1>1, <1>2, <1>3, <1>4 DEF SenderType
<1>6. ASSUME NEW s \in S
      PROVE  /\ streams[s].n = 0 /\ streams[s].packet_count = 0 /\ failed[s] = 0
             /\ \A i \in Slots : streams[s].history[i] = NoEntry
  BY <1>1
<1>7. StatsAddUp
  BY <1>1, <1>2, <1>6 DEF StatsAddUp
<1>8. HistoryFits
  BY <1>6 DEF HistoryFits, HistoryOK
<1> QED BY <1>5, <1>7, <1>8 DEF SenderInv

\* Every step of the specification keeps it.
LEMMA SenderStep == ASSUME SenderInv, [Next]_senderVars PROVE SenderInv'
<1>1. ASSUME NEW d \in NackForms, NEW seq \in 0 .. SeqSpace - 1, NEW ssrc \in 0 .. Streams,
             Nack(d, <<seq, Seq16(seq + 1)>>, ssrc)
      PROVE  SenderInv'
  BY <1>1, LostOnWire, NackStep
<1>2. CASE UNCHANGED senderVars
  <2>1. UNCHANGED <<buf, waiting, loop, track, stopped, streams, raws, failed>>
    BY <1>2 DEF senderVars, streamVars, loopVars
  <2>2. SenderType'
    BY <2>1 DEF SenderInv, SenderType, Queue
  <2>3. \A s \in S : InFlight(loop', s) = InFlight(loop, s)
    BY <2>1
  <2> QED BY <2>1, <2>2, <2>3, StreamsKept, CountsUnchanged DEF SenderInv
<1> QED BY <1>1, <1>2, LoopStep, YieldStep, SendStep, StopStep, RawStep, UnencryptedStep,
           FeedbackStep, IceStep, CancelStep DEF Next


\* At every await the packets numbered on a stream are counted, in flight,
\* waiting for room or failed, the history has the newest packets of the
\* track in their slots, and the buffer holds packets within its capacity:
\* _sender_send_loop, send_rtp, update_send_stats and packet_stream.
THEOREM SenderAlways == Spec => []SenderInv
<1>1. Init => SenderInv
  BY SenderInit
<1>2. SenderInv /\ [Next]_senderVars => SenderInv'
  BY SenderStep
<1> QED BY <1>1, <1>2, PTL DEF Spec

\* The packet counter of a sender report is right at every await, whatever
\* the loop, send_rtp, cancellation and stop() do in between.
THEOREM StatsAlwaysAddUp == Spec => []StatsAddUp
<1>1. SenderInv => StatsAddUp
  BY DEF SenderInv
<1> QED BY <1>1, SenderAlways, PTL

(***************************************************************************)
(* What a step does to the buffer.                                         *)
(***************************************************************************)
\* r continues q; what is new in it is no retransmission.
Continues(q, r) ==
    /\ Extended(q, r)
    /\ \A i \in 1 .. Len(r) : r[i].kind # "rtx" \/ (i \in 1 .. Len(q) /\ r[i] = q[i])

\* A NACK of the peer for a number and the one after it.
SomeNack ==
    \E d \in NackForms, seq \in 0 .. SeqSpace - 1, ssrc \in 0 .. Streams :
        Nack(d, <<seq, Seq16(seq + 1)>>, ssrc)

\* A buffer that stays as it is continues itself.
LEMMA ContinuesItself == ASSUME SenderInv, buf' = buf PROVE Continues(buf, buf')
<1>1. Len(buf) \in Nat
  BY LenProperties DEF SenderInv, SenderType, Queue
<1> QED BY <1>1 DEF Continues, Extended

\* try_write of a packet that is no retransmission.
LEMMA WriteContinues ==
    ASSUME SenderInv, NEW p \in Packet, p.kind # "rtx", buf' = try_write(buf, p)
    PROVE  Continues(buf, buf')
<1>1. Queue(buf)
  BY DEF SenderInv, SenderType
<1> QED BY <1>1, TryWrite DEF Continues

\* Without a NACK the buffer grows at its end or loses its first packet, and
\* gets no retransmission.
LEMMA BufferStep ==
    ASSUME SenderInv, Next
    PROVE  \/ SomeNack
           \/ asked' = {} /\ Continues(buf, buf')
           \/ asked' = {} /\ buf # << >> /\ Continues(Tail(buf), buf')
<1>1. ASSUME NEW t \in Tracks \cup {"none"}, SetTrack(t) PROVE asked' = {} /\ buf' = buf
  BY <1>1 DEF SetTrack, streamVars
<1>2. ASSUME NEW todo \in Frames, TrackYields(todo) PROVE asked' = {} /\ buf' = buf
  BY <1>2 DEF TrackYields, streamVars
<1>3. ASSUME NEW ok \in BOOLEAN, SendCompletes(ok) PROVE asked' = {} /\ buf' = buf
  BY <1>3 DEF SendCompletes, streamVars
<1>4. ASSUME NEW cancel \in BOOLEAN, Stop(cancel) PROVE asked' = {} /\ buf' = buf
  BY <1>4 DEF Stop, streamVars
<1>5. ASSUME NEW i \in DOMAIN waiting, RawCancelled(i) PROVE asked' = {} /\ buf' = buf
  BY <1>5 DEF RawCancelled, CancelWrite
<1>6. ASSUME StartLoops \/ TrackEnds \/ IceLoopStarts \/ RawUnencrypted
      PROVE  asked' = {} /\ buf' = buf
  BY <1>6 DEF StartLoops, TrackEnds, IceLoopStarts, RawUnencrypted, StartIceLoop, streamVars
<1>7. ASSUME NEW size \in RawSizes, RawSend(size) PROVE asked' = {} /\ Continues(buf, buf')
  <2> DEFINE n == streams[1].n + 1
             p == [kind |-> "raw", s |-> 1, n |-> n, size |-> size]
  <2>1. asked' = {} /\ buf' = try_write(buf, p)
    BY <1>7 DEF RawSend, async_write
  <2>2. size \in Nat /\ n \in Nat
    <3>1. 1 \in S /\ size \in Nat
      BY SenderAssumption, CapacityAssumption DEF S
    <3> QED BY <3>1 DEF SenderInv, SenderType, StreamState
  <2> HIDE DEF n
  <2>3. p \in Packet /\ p.kind = "raw"
    BY <2>2 DEF Packet
  <2> HIDE DEF p
  <2> QED BY <2>1, <2>3, WriteContinues
<1>8. ASSUME Feedback PROVE asked' = {} /\ Continues(buf, buf')
  <2> DEFINE p == [kind |-> "rtcp", s |-> 0, n |-> 0, size |-> RtxSize]
  <2>1. asked' = {} /\ buf' = try_write(buf, p)
    BY <1>8 DEF Feedback
  <2>2. p \in Packet /\ p.kind = "rtcp"
    BY SenderAssumption DEF Packet
  <2> HIDE DEF p
  <2> QED BY <2>1, <2>2, WriteContinues
<1>9. ASSUME IceLoopSent PROVE asked' = {} /\ buf # << >> /\ Continues(Tail(buf), buf')
  <2>1. asked' = {} /\ buf # << >> /\ buf' = pop.buf
    BY <1>9 DEF IceLoopSent, IceSent
  <2>2. Tried(pop, Tail(buf))
    BY <2>1, Popped DEF SenderInv, SenderType
  <2> QED BY <2>1, <2>2 DEF Tried, Continues, Raw
<1> QED BY <1>1, <1>2, <1>3, <1>4, <1>5, <1>6, <1>7, <1>8, <1>9, ContinuesItself, Zenon DEF Next, SomeNack

(***************************************************************************)
(* The buffer is a bounded FIFO queue.                                     *)
(***************************************************************************)
\* The abstract queue counts bytes as the buffer does.
LEMMA SameBytes == ASSUME NEW q PROVE Fifo!Bytes(q) = Bytes(q)
BY DEF Fifo!Bytes, Bytes

\* Whatever a step does, the buffer continues the old one or what is left of
\* it without its first packet.
LEMMA BufferMoves ==
    ASSUME SenderInv, [Next]_senderVars
    PROVE  Extended(buf, buf') \/ (buf # << >> /\ Extended(Tail(buf), buf'))
<1>1. CASE UNCHANGED senderVars
  <2>1. buf' = buf
    BY <1>1 DEF senderVars, streamVars
  <2> QED BY <2>1, ContinuesItself DEF Continues
<1>2. CASE SomeNack
  <2>1. PICK d \in NackForms, seq \in 0 .. SeqSpace - 1, ssrc \in 0 .. Streams :
            Nack(d, <<seq, Seq16(seq + 1)>>, ssrc)
    BY <1>2 DEF SomeNack
  <2>2. <<seq, Seq16(seq + 1)>> \in Seq(Wire)
    BY LostOnWire
  <2>3. \E r : buf' = r.buf /\ Extended(buf, r.buf)
    BY <2>1, <2>2, Nacked DEF SenderInv, Answers
  <2> QED BY <2>3
<1>3. CASE Next
  BY <1>2, <1>3, BufferStep DEF Continues
<1> QED BY <1>1, <1>3

\* However try_write, async_write and ice_send_loop interleave, packets leave
\* _send_buf in the order they were accepted and its capacity is kept.
THEOREM BufferIsFifo == Spec => ImplementsFifo
<1>1. Init => Fifo!Init
  BY DEF Init, StreamInit, Fifo!Init
<1>2. SenderInv /\ SenderInv' /\ [Next]_senderVars => [Fifo!Next]_buf
  <2> SUFFICES ASSUME SenderInv, SenderInv', [Next]_senderVars PROVE Fifo!Next
    OBVIOUS
  <2>1. Queue(buf) /\ Queue(buf')
    BY DEF SenderInv, SenderType
  <2>2. Fifo!Bytes(buf') <= Capacity
    BY <2>1, SameBytes DEF Queue
  <2>3. CASE Extended(buf, buf')
    <3>1. IsPrefix(buf, buf')
      BY <2>1, <2>3, ExtendedIsPrefix DEF Queue
    <3>2. Fifo!Enter
      BY <3>1 DEF Fifo!Enter, Fifo!IsPrefix, IsPrefix
    <3> QED BY <2>2, <3>2 DEF Fifo!Next
  <2>4. CASE buf # << >> /\ Extended(Tail(buf), buf')
    <3>1. Tail(buf) \in Seq(Packet)
      BY <2>1, <2>4, HeadTailProperties DEF Queue
    <3>2. IsPrefix(Tail(buf), buf')
      BY <2>1, <2>4, <3>1, ExtendedIsPrefix DEF Queue
    <3>3. Fifo!Leave
      BY <2>4, <3>2 DEF Fifo!Leave, Fifo!IsPrefix, IsPrefix
    <3> QED BY <2>2, <3>3 DEF Fifo!Next
  <2> QED BY <2>3, <2>4, BufferMoves
<1> QED BY <1>1, <1>2, SenderAlways, PTL DEF Spec, ImplementsFifo, Fifo!Spec


(***************************************************************************)
(* What a NACK is answered with.                                           *)
(***************************************************************************)
\* What the history gives for a number has that number, was sent, and only
\* packets of send_rtp took the number again.
LEMMA StoredIsRight ==
    ASSUME SenderInv, NEW s \in S, NEW seq \in Wire, Stored(s, seq) # NoEntry
    PROVE  /\ Stored(s, seq) \in 1 .. streams[s].n /\ Seq16(Stored(s, seq)) = seq
           /\ \A m \in Stored(s, seq) + 1 .. streams[s].n :
                 Seq16(m) = seq => s = 1 /\ m \in raws
<1> DEFINE i == seq % HISTORY_SIZE
           e == streams[s].history[i]
           n == streams[s].n
<1>1. i \in Slots /\ e = Stored(s, seq) /\ e # NoEntry /\ Seq16(e) = seq
  BY StoredType DEF Stored, SenderInv
<1>2. HistoryOK(streams[s], s, raws) /\ n \in Nat
  BY Balance
<1> HIDE DEF i
<1>3. e \in 1 .. n
  BY <1>1, <1>2 DEF HistoryOK
<1>4. ASSUME NEW m \in e + 1 .. n, Seq16(m) = seq PROVE s = 1 /\ m \in raws
  <2>1. Slot(m) = i /\ m \in 1 .. n /\ ~(m <= e)
    BY <1>2, <1>3, <1>4 DEF Slot, i
  <2> QED BY <1>1, <1>2, <2>1 DEF HistoryOK
<1> QED BY <1>1, <1>3, <1>4

\* One of the last HISTORY_SIZE packets of the track is what the history
\* gives for its number.
LEMMA RecentIsStored ==
    ASSUME SenderInv, NEW s \in S, NEW n \in Recent(s)
    PROVE  Stored(s, Seq16(n)) = n /\ n # NoEntry
<1> DEFINE N == streams[s].n
           i == Slot(n)
           e == streams[s].history[i]
<1>1. N \in Nat /\ HistoryOK(streams[s], s, raws) /\ streams[s] \in StreamState
  BY Balance
<1>2. n \in Nat /\ n >= 1 /\ n <= N /\ n > N - HISTORY_SIZE /\ ~(s = 1 /\ n \in raws)
  BY <1>1 DEF Recent
<1>3. i \in Slots
  BY <1>2, SlotType
<1>4. e \in Nat /\ n <= e
  <2>1. e \in Nat
    BY <1>1, <1>3 DEF StreamState
  <2> HIDE DEF e
  <2>2. Slot(n) = i /\ n \in 1 .. N
    BY <1>1, <1>2
  <2> HIDE DEF i
  <2> QED BY <1>1, <1>2, <1>3, <2>1, <2>2 DEF HistoryOK, e
<1>5. e # NoEntry /\ e <= N /\ Slot(e) = i
  <2>1. e # NoEntry
    BY <1>2, <1>4 DEF NoEntry
  <2> HIDE DEF i
  <2>2. e \in 1 .. N /\ Slot(e) = i
    BY <1>1, <1>3, <2>1 DEF HistoryOK
  <2> HIDE DEF e, N
  <2> QED BY <1>1, <2>1, <2>2
<1> HIDE DEF e, N
<1>6. e = n
  <2>1. SeqSpace \in Nat \ {0} /\ HISTORY_SIZE \in Nat \ {0} /\ SeqSpace % HISTORY_SIZE = 0
    BY SenderAssumption
  <2>2. e \in Int /\ n \in Int
    BY <1>2, <1>4
  <2>3. Slot(e) = e % HISTORY_SIZE
    BY <2>1, <2>2, ModMod, Zenon DEF Slot, Seq16
  <2>4. Slot(n) = n % HISTORY_SIZE
    BY <2>1, <2>2, ModMod, Zenon DEF Slot, Seq16
  <2>5. e - n < HISTORY_SIZE /\ n - e < HISTORY_SIZE
    BY <1>1, <1>2, <1>4, <1>5, <2>1
  <2>6. e % HISTORY_SIZE = n % HISTORY_SIZE
    BY <1>5, <2>3, <2>4
  <2> QED BY <2>1, <2>2, <2>5, <2>6, ModUnique, Zenon
<1> QED BY <1>5, <1>6 DEF Stored, Slot, e, i

\* The packets that a NACK adds.
LEMMA NackAdds ==
    ASSUME SenderInv, SomeNack, NEW p \in NewRtx
    PROVE  \E s \in S, seq \in Wire :
              /\ Stored(s, seq) # NoEntry /\ p = RtxOf(s, seq)
              /\ asked' # {} => <<s, seq>> \in asked'
<1>1. PICK d \in NackForms, x \in 0 .. SeqSpace - 1, ssrc \in 0 .. Streams :
          Nack(d, <<x, Seq16(x + 1)>>, ssrc)
  BY DEF SomeNack
<1> DEFINE lost == <<x, Seq16(x + 1)>>
           L == { lost[k] : k \in 1 .. Len(lost) }
<1>2. lost \in Seq(Wire) /\ Len(lost) = 2 /\ \A k \in 1 .. 2 : lost[k] \in Wire
  BY LostOnWire
<1>3. Nack(d, lost, ssrc)
  BY <1>1
<1> HIDE DEF lost
<1>4. PICK r : buf' = r.buf /\ Answers(r, L, ssrc)
  BY <1>2, <1>3, Nacked DEF SenderInv
<1>5. L \subseteq Wire /\ ToSet(lost) = L
  BY <1>2 DEF ToSet
<1>6. asked' = IF ssrc = 0 THEN {} ELSE { <<ssrc, seq>> : seq \in L }
  BY <1>3, <1>5 DEF Nack
<1>7. buf \in Seq(Packet) /\ r.buf \in Seq(Packet)
  BY <1>4 DEF SenderInv, SenderType, Queue, Answers
<1> HIDE DEF L
<1>8. PICK i \in 1 .. Len(r.buf) : r.buf[i] = p
  BY <1>4, <1>7, LenProperties DEF NewRtx, ToSet
<1>9. ~(i \in 1 .. Len(buf) /\ r.buf[i] = buf[i])
  BY <1>7, <1>8, LenProperties DEF NewRtx, ToSet
<1>10. PICK s \in S, seq \in L : ssrc \in {0, s} /\ Stored(s, seq) # NoEntry /\ r.buf[i] = RtxOf(s, seq)
  BY <1>4, <1>8, <1>9 DEF Answers
<1>11. asked' # {} => <<s, seq>> \in asked'
  BY <1>6, <1>10
<1> QED BY <1>5, <1>8, <1>10, <1>11

\* Nothing but a NACK adds retransmissions.
LEMMA OnlyNackAdds ==
    ASSUME SenderInv, SenderInv', Next, ~SomeNack
    PROVE  NewRtx = {} /\ asked' = {}
<1>1. buf \in Seq(Packet) /\ buf' \in Seq(Packet)
  BY DEF SenderInv, SenderType, Queue
<1>2. ASSUME NEW p \in NewRtx PROVE \E i \in 1 .. Len(buf') : buf'[i] = p
  BY <1>1, <1>2, LenProperties DEF NewRtx, ToSet
<1>3. \A p \in NewRtx : p.kind = "rtx" /\ \A i \in 1 .. Len(buf) : buf[i] # p
  BY <1>1, LenProperties DEF NewRtx, ToSet
<1>4. CASE asked' = {} /\ Continues(buf, buf')
  BY <1>2, <1>3, <1>4 DEF Continues
<1>5. CASE asked' = {} /\ buf # << >> /\ Continues(Tail(buf), buf')
  <2>1. Len(buf) \in Nat /\ Len(Tail(buf)) = Len(buf) - 1 /\ \A i \in 1 .. Len(buf) - 1 : Tail(buf)[i] = buf[i + 1]
    BY <1>1, <1>5, HeadTailProperties, LenProperties
  <2>2. ASSUME NEW i \in 1 .. Len(Tail(buf)) PROVE \E j \in 1 .. Len(buf) : Tail(buf)[i] = buf[j]
    <3>1. i + 1 \in 1 .. Len(buf) /\ Tail(buf)[i] = buf[i + 1]
      BY <2>1
    <3> QED BY <3>1
  <2> QED BY <1>2, <1>3, <1>5, <2>2 DEF Continues
<1> QED BY <1>4, <1>5, BufferStep

\* A retransmission repeats a packet that was sent, one that the NACK asked
\* for, and no later packet of the track had its number: write_rtx_packet in
\* do_on_rtp_rtcp_packet, whatever wraps.
THEOREM RtxAlwaysFaithful == Spec => RtxIsFaithful
<1> DEFINE Faithful ==
        \A p \in NewRtx :
          /\ p.n \in 1 .. streams[p.s].n
          /\ asked' # {} => <<p.s, Seq16(p.n)>> \in asked'
          /\ \A m \in p.n + 1 .. streams[p.s].n :
                Seq16(m) = Seq16(p.n) => p.s = 1 /\ m \in raws
<1>1. SenderInv /\ SenderInv' /\ [Next]_senderVars => [Faithful]_senderVars
  <2> SUFFICES ASSUME SenderInv, SenderInv', Next, NEW p \in NewRtx
               PROVE  /\ p.n \in 1 .. streams[p.s].n
                      /\ asked' # {} => <<p.s, Seq16(p.n)>> \in asked'
                      /\ \A m \in p.n + 1 .. streams[p.s].n :
                            Seq16(m) = Seq16(p.n) => p.s = 1 /\ m \in raws
    OBVIOUS
  <2>1. SomeNack
    BY OnlyNackAdds
  <2>2. PICK s \in S, seq \in Wire : /\ Stored(s, seq) # NoEntry /\ p = RtxOf(s, seq)
                                     /\ asked' # {} => <<s, seq>> \in asked'
    BY <2>1, NackAdds
  <2>3. p.s = s /\ p.n = Stored(s, seq)
    BY <2>2 DEF RtxOf
  <2>4. /\ Stored(s, seq) \in 1 .. streams[s].n /\ Seq16(Stored(s, seq)) = seq
        /\ \A m \in Stored(s, seq) + 1 .. streams[s].n : Seq16(m) = seq => s = 1 /\ m \in raws
    BY <2>2, StoredIsRight
  <2> QED BY <2>2, <2>3, <2>4
<1> QED BY <1>1, SenderAlways, PTL DEF Spec, RtxIsFaithful

\* Where the datagrams of the peer get through to the RTCP packets in them, a
\* NACK for one of the last HISTORY_SIZE packets of the track is answered
\* unless the buffer is full, across wraps and packets of send_rtp.  (That
\* the usual forms of a NACK do not get through is a finding of its own.)
THEOREM NacksAlwaysAnswered ==
    (\A d \in NackForms : ReachesRtcp(d)) => (Spec => NacksAnswered)
<1> SUFFICES ASSUME \A d \in NackForms : ReachesRtcp(d) PROVE Spec => NacksAnswered
  OBVIOUS
<1> DEFINE Answered ==
        \A a \in asked', s \in S :
          s = a[1] => \A n \in Recent(s) : Seq16(n) = a[2] =>
             \/ [kind |-> "rtx", s |-> s, n |-> n, size |-> RtxSize] \in ToSet(buf')
             \/ Bytes(buf') + RtxSize > Capacity
<1>1. SenderInv /\ SenderInv' /\ [Next]_senderVars => [Answered]_senderVars
  <2> SUFFICES ASSUME SenderInv, SenderInv', Next, NEW a \in asked', NEW s \in S, s = a[1],
                      NEW n \in Recent(s), Seq16(n) = a[2]
               PROVE  \/ [kind |-> "rtx", s |-> s, n |-> n, size |-> RtxSize] \in ToSet(buf')
                      \/ Bytes(buf') + RtxSize > Capacity
    OBVIOUS
  <2>1. PICK d \in NackForms, x \in 0 .. SeqSpace - 1, ssrc \in 0 .. Streams :
            Nack(d, <<x, Seq16(x + 1)>>, ssrc)
    BY OnlyNackAdds DEF SomeNack
  <2> DEFINE lost == <<x, Seq16(x + 1)>>
  <2>2. lost \in Seq(Wire) /\ Len(lost) = 2
    BY LostOnWire
  <2>3. Nack(d, lost, ssrc)
    BY <2>1
  <2> HIDE DEF lost
  <2>4. asked' = IF ssrc = 0 THEN {} ELSE { <<ssrc, seq>> : seq \in ToSet(lost) }
    BY <2>3 DEF Nack
  <2>5. PICK k \in 1 .. Len(lost) : a = <<ssrc, lost[k]>>
    BY <2>2, <2>4, LenProperties DEF ToSet
  <2>6. ssrc = s /\ lost[k] = Seq16(n)
    BY <2>5
  <2>7. PICK r : buf' = r.buf /\ Reached(r, lost[k], ssrc)
    BY <2>2, <2>3, <2>6, Nacked DEF SenderInv
  <2>8. Stored(s, Seq16(n)) = n /\ n # NoEntry
    BY RecentIsStored
  <2>9. \/ \E i \in 1 .. Len(buf') : buf'[i] = RtxOf(s, Seq16(n))
        \/ Bytes(buf') + RtxSize > Capacity
    BY <2>6, <2>7, <2>8 DEF Reached
  <2>10. buf' \in Seq(Packet)
    BY DEF SenderInv, SenderType, Queue
  <2> QED BY <2>8, <2>9, <2>10, LenProperties DEF RtxOf, ToSet
<1> QED BY <1>1, SenderAlways, PTL DEF Spec, NacksAnswered
=============================================================================
