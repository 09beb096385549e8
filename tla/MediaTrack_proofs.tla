-------------------------- MODULE MediaTrack_proofs --------------------------
(***************************************************************************)
(* Proofs about the jitter buffer and the track that reads it, for every   *)
(* number space, frame size, delay and network: what is handed out is one  *)
(* frame without a hole, in sending order, and no packet is dropped before *)
(* the buffer has waited for it as long as it may.                         *)
(***************************************************************************)
EXTENDS MediaTrack, ModularArithmetic

(***************************************************************************)
(* Extended sequence numbers.                                              *)
(***************************************************************************)
\* The number space has at least two numbers.
LEMMA SpaceType == SeqMod \in Nat \ {0} /\ Half \in Nat /\ SeqMod = 2 * Half /\ Half < SeqMod
BY JitterAssumption DEF SeqMod

\* An extended number has the sequence number of its packet.
LEMMA ExtendedAlike ==
    ASSUME NEW n \in Nat, NEW last \in Nat
    PROVE  /\ extend_seq(n % SeqMod, last) \in Nat
           /\ extend_seq(n % SeqMod, last) % SeqMod = n % SeqMod
<1> DEFINE s == n % SeqMod
           r == last % SeqMod
           c == last \div SeqMod
           x == extend_seq(s, last)
<1>1. n \in Int /\ last \in Int /\ SeqMod \in Nat \ {0}
  BY SpaceType
<1>2. s \in 0 .. SeqMod - 1
  BY <1>1, DivMod, Zenon
<1>3. c \in Int /\ r \in 0 .. SeqMod - 1 /\ last = SeqMod * c + r
  BY <1>1, DivMod, Zenon
<1>4. x = (last - r) + s \/ x = (last - r) + s + SeqMod
  BY DEF extend_seq
<1>5. s \in Int /\ r \in Int
  BY <1>1, <1>2, <1>3
<1> HIDE DEF s, r, c, x
<1>6. PICK q \in Int : x = SeqMod * q + s
  <2>1. CASE x = (last - r) + s
    BY <1>1, <1>3, <1>5, <2>1
  <2>2. CASE x = (last - r) + s + SeqMod
    <3>1. c + 1 \in Int /\ SeqMod * (c + 1) = SeqMod * c + SeqMod
      BY <1>1, <1>3
    <3> QED BY <1>1, <1>3, <1>5, <2>2, <3>1
  <2> QED BY <1>4, <2>1, <2>2
<1>7. x \in Int /\ x >= 0
  <2>1. last - r >= 0
    <3>1. SeqMod * c \in Int
      BY <1>1, <1>3
    <3>2. c >= 0
      BY <1>1, <1>3
    <3> QED BY <1>1, <1>3, <1>5, <3>1, <3>2
  <2> QED BY <1>1, <1>2, <1>4, <1>5, <2>1
<1>8. x % SeqMod = s
  BY <1>1, <1>2, <1>6, <1>7, ModIs, Zenon
<1> QED BY <1>7, <1>8 DEF x, s

\* A packet within half a cycle of where the buffer is, and not from a cycle
\* before it, keeps its place.
LEMMA ExtendedIsPacket ==
    ASSUME NEW n \in Nat, NEW last \in Nat, ~(n \div SeqMod < last \div SeqMod),
           n - last \in -Half .. Half - 1
    PROVE  extend_seq(n % SeqMod, last) = n
<1> DEFINE s == n % SeqMod
           d == n \div SeqMod
           r == last % SeqMod
           c == last \div SeqMod
<1>1. n \in Int /\ last \in Int /\ SeqMod \in Nat \ {0} /\ Half \in Nat /\ SeqMod = 2 * Half
  BY SpaceType
<1>2. d \in Int /\ s \in 0 .. SeqMod - 1 /\ n = SeqMod * d + s
  BY <1>1, DivMod, Zenon
<1>3. c \in Int /\ r \in 0 .. SeqMod - 1 /\ last = SeqMod * c + r
  BY <1>1, DivMod, Zenon
<1>4. extend_seq(s, last) = LET e == (last - r) + s IN IF e + Half < last THEN e + SeqMod ELSE e
  BY DEF extend_seq
<1>5. ~(d < c)
  OBVIOUS
<1>6. s \in Int /\ r \in Int /\ SeqMod \in Int /\ n - last \in Int
  BY <1>1, <1>2, <1>3
<1> HIDE DEF s, d, r, c
<1>7. d = c \/ d = c + 1
  <2> DEFINE k == d - c
             j == k - 1
  <2>1. k \in Int /\ j \in Int /\ k >= 0 /\ d = c + k
    BY <1>2, <1>3, <1>5
  <2>2. SeqMod * d = SeqMod * c + SeqMod * k /\ SeqMod * k \in Int /\ SeqMod * c \in Int
    BY <1>1, <1>3, <2>1
  <2>3. SeqMod * k < SeqMod + SeqMod
    BY <1>1, <1>2, <1>3, <1>6, <2>2
  <2>4. SeqMod * j = SeqMod * k - SeqMod
    BY <1>1, <2>1
  <2>5. CASE k >= 1
    <3>1. j >= 0
      BY <2>1, <2>5
    <3>2. SeqMod * j >= 0
      BY <1>1, <2>1, <3>1
    <3> HIDE DEF j, k
    <3>3. SeqMod * j < SeqMod /\ SeqMod * j > -SeqMod
      BY <1>1, <2>1, <2>2, <2>3, <2>4, <3>2
    <3>4. j = 0
      BY <1>1, <2>1, <3>3, MulZero
    <3> QED BY <1>3, <2>1, <3>4 DEF j
  <2>6. CASE ~(k >= 1)
    BY <1>3, <2>1, <2>6
  <2> QED BY <2>5, <2>6
<1>8. CASE d = c
  <2>1. (last - r) + s = n
    BY <1>1, <1>2, <1>3, <1>6, <1>8
  <2>2. ~(n + Half < last)
    BY <1>1
  <2> QED BY <1>1, <1>4, <2>1, <2>2 DEF s
<1>9. CASE d = c + 1
  <2>1. SeqMod * d = SeqMod * c + SeqMod /\ SeqMod * c \in Int
    BY <1>1, <1>3, <1>9
  <2>2. (last - r) + s = n - SeqMod
    BY <1>1, <1>2, <1>3, <1>6, <2>1
  <2>3. (n - SeqMod) + Half < last /\ (n - SeqMod) + SeqMod = n
    BY <1>1
  <2> QED BY <1>1, <1>4, <2>2, <2>3 DEF s
<1> QED BY <1>7, <1>8, <1>9

\* The first packet is where its number says.
LEMMA FirstIsPacket ==
    ASSUME NEW n \in 0 .. SeqMod - 1 PROVE extend_seq(n % SeqMod, 0) = n
<1>1. SeqMod \in Nat \ {0} /\ n \in Int /\ 0 \in Int /\ 0 \in 0 .. SeqMod - 1 /\ Half \in Nat
  BY SpaceType
<1>2. n = SeqMod * 0 + n /\ 0 = SeqMod * 0 + 0
  BY <1>1
<1>3. n % SeqMod = n
  BY <1>1, <1>2, ModIs, Zenon
<1>4. 0 % SeqMod = 0
  BY <1>1, <1>2, ModIs, Zenon
<1> QED BY <1>1, <1>3, <1>4 DEF extend_seq


(***************************************************************************)
(* Smallest and largest elements.                                          *)
(***************************************************************************)
\* Min finds the smallest of some natural numbers.
LEMMA MinIs ==
    ASSUME NEW T \in SUBSET Nat, T # {}
    PROVE  Min(T) \in T /\ \A y \in T : Min(T) <= y
<1>1. \E x \in T : \A y \in T : x <= y
  BY NatMin
<1> QED BY <1>1 DEF Min

\* Max finds the largest of some integers that have a bound.
LEMMA MaxIs ==
    ASSUME NEW T \in SUBSET Int, T # {}, NEW b \in Int, \A x \in T : x <= b
    PROVE  Max(T) \in T /\ \A y \in T : Max(T) >= y
<1> DEFINE U == { b - x : x \in T }
<1>1. U \in SUBSET Nat /\ U # {}
  <2>1. \A x \in T : b - x \in Nat
    OBVIOUS
  <2> QED BY <2>1
<1>2. PICK u \in U : \A v \in U : u <= v
  BY <1>1, NatMin
<1>3. PICK x \in T : u = b - x
  OBVIOUS
<1>4. ASSUME NEW y \in T PROVE x >= y
  <2>1. u <= b - y
    BY <1>2
  <2> QED BY <1>3, <2>1
<1>5. \E z \in T : \A y \in T : z >= y
  BY <1>4
<1> QED BY <1>5 DEF Max

\* An interval is between its ends.
LEMMA IntervalEnds ==
    ASSUME NEW a \in Nat, NEW b \in Nat, a <= b
    PROVE  Min(a .. b) = a /\ Max(a .. b) = b
<1> DEFINE T == a .. b
<1>1. T \in SUBSET Nat /\ T \in SUBSET Int /\ T # {} /\ \A x \in T : x <= b
  OBVIOUS
<1>2. a \in T /\ b \in T
  OBVIOUS
<1>3. Min(T) \in T /\ \A y \in T : Min(T) <= y
  BY <1>1, MinIs
<1> HIDE DEF T
<1>4. Max(T) \in T /\ \A y \in T : Max(T) >= y
  <2>1. b \in Int
    OBVIOUS
  <2> QED BY <1>1, <2>1, MaxIs
<1> QED BY <1>2, <1>3, <1>4 DEF T

(***************************************************************************)
(* The invariant.                                                          *)
(***************************************************************************)
\* What the buffer holds: packets under numbers that agree with theirs up to
\* whole cycles, and only finitely many.
Buffer(m) ==
    /\ m \in [DOMAIN m -> Packets] /\ DOMAIN m \in SUBSET Nat
    /\ \A e \in DOMAIN m : m[e] % SeqMod = e % SeqMod
    /\ \E b \in Nat : \A e \in DOMAIN m : e <= b

TrackType ==
    /\ Buffer(sorted) /\ next \in Nat /\ firstPacket \in BOOLEAN
    /\ gapStart \in Nat \cup {None}
    /\ now \in Nat /\ arrivedAt \in [Packets -> Nat \cup {None}]
    /\ \A n \in Packets : arrivedAt[n] <= now
    /\ first \in Packets \cup {None} /\ newest \in Packets \cup {None}
    /\ delivered \in Packets \cup {None} /\ crossed \in BOOLEAN
    /\ firstPacket <=> first = None
    /\ firstPacket => next = 0 /\ DOMAIN sorted = {}

\* Some packet after n arrived so long ago that n is given up.
GivenUp(n) ==
    \E m \in Packets : m > n /\ arrivedAt[m] # None /\ now - arrivedAt[m] >= MaxDelay

\* Until a packet crosses, packets are under their own numbers, what was
\* handed out is behind next, a gap is timed from a packet behind it, and a
\* packet that is behind next without having come was given up.
Straight ==
    ~crossed =>
        /\ \A e \in DOMAIN sorted : sorted[e] = e /\ arrivedAt[e] # None
        /\ delivered < next
        /\ gapStart # None => \E h \in Entries : arrivedAt[h] <= gapStart
        /\ \A n \in Packets : first # None /\ n > first /\ n < next /\ arrivedAt[n] = None => GivenUp(n)

TrackInv == TrackType /\ Straight


(***************************************************************************)
(* push.                                                                   *)
(***************************************************************************)
\* The buffer after a push.
Pushed(x, n) == [e \in DOMAIN sorted \cup {x} |-> IF e = x THEN n ELSE sorted[e]]

\* A packet that is added keeps the buffer what it is.
LEMMA PushedBuffer ==
    ASSUME Buffer(sorted), NEW n \in Packets, NEW x \in Nat, x % SeqMod = n % SeqMod
    PROVE  Buffer(Pushed(x, n))
<1> DEFINE m == Pushed(x, n)
<1>1. DOMAIN m = DOMAIN sorted \cup {x} /\ \A e \in DOMAIN m : m[e] = IF e = x THEN n ELSE sorted[e]
  BY DEF Pushed
<1>2. m \in [DOMAIN m -> Packets] /\ DOMAIN m \in SUBSET Nat
  <2>1. \A e \in DOMAIN m : m[e] \in Packets
    BY <1>1 DEF Buffer
  <2> QED BY <1>1, <2>1 DEF Buffer, Pushed
<1>3. \A e \in DOMAIN m : m[e] % SeqMod = e % SeqMod
  <2> SUFFICES ASSUME NEW e \in DOMAIN m PROVE m[e] % SeqMod = e % SeqMod
    OBVIOUS
  <2>1. CASE e = x
    <3>1. m[e] = n
      BY <1>1, <2>1
    <3> QED BY <2>1, <3>1
  <2>2. CASE e # x
    <3>1. m[e] = sorted[e] /\ e \in DOMAIN sorted
      BY <1>1, <2>2
    <3>2. sorted[e] % SeqMod = e % SeqMod
      BY <3>1 DEF Buffer
    <3> QED BY <3>1, <3>2
  <2> QED BY <2>1, <2>2
<1>4. \E b \in Nat : \A e \in DOMAIN m : e <= b
  <2>1. PICK b \in Nat : \A e \in DOMAIN sorted : e <= b
    BY DEF Buffer
  <2>2. b + x \in Nat /\ \A e \in DOMAIN m : e <= b + x
    BY <1>1, <2>1 DEF Buffer
  <2> QED BY <2>2
<1> HIDE DEF m
<1>5. Buffer(m)
  BY <1>2, <1>3, <1>4 DEF Buffer
<1> QED BY <1>5 DEF m

\* What push_frame does, with the extended number named.
LEMMA PushStep ==
    ASSUME TrackInv, NEW n \in Packets, PushFrame(n)
    PROVE  \E x \in Nat :
              /\ x % SeqMod = n % SeqMod /\ (~crossed' => x = n)
              /\ next' = (IF firstPacket THEN x ELSE next)
              /\ sorted' = (IF x >= next' /\ x \notin DOMAIN sorted THEN Pushed(x, n) ELSE sorted)
<1> DEFINE x == extend_seq(n % SeqMod, next)
<1>1. n \in Nat /\ next \in Nat
  BY TrackAssumption DEF TrackInv, TrackType
<1>2. x \in Nat /\ x % SeqMod = n % SeqMod
  BY <1>1, ExtendedAlike
<1>3. /\ next' = (IF firstPacket THEN x ELSE next)
      /\ sorted' = (IF x >= next' /\ x \notin DOMAIN sorted THEN Pushed(x, n) ELSE sorted)
  BY DEF PushFrame, push, Pushed
<1>4. ASSUME ~crossed' PROVE x = n
  <2>1. CASE firstPacket
    <3>1. next = 0 /\ n \in 0 .. SeqMod - 1
      BY <2>1, TrackAssumption DEF PushFrame, TrackInv, TrackType
    <3> QED BY <3>1, FirstIsPacket
  <2>2. CASE ~firstPacket
    <3>1. ~(n \div SeqMod < next \div SeqMod) /\ n - next \in -Half .. Half - 1
      BY <1>4, <2>2 DEF PushFrame
    <3> QED BY <1>1, <3>1, ExtendedIsPacket
  <2> QED BY <2>1, <2>2 DEF TrackInv, TrackType
<1> QED BY <1>2, <1>3, <1>4

\* A packet that arrives keeps the invariant.
LEMMA PushKeeps ==
    ASSUME TrackInv, NEW n \in Packets, PushFrame(n) PROVE TrackInv'
<1>1. PICK x \in Nat : /\ x % SeqMod = n % SeqMod /\ (~crossed' => x = n)
                       /\ next' = (IF firstPacket THEN x ELSE next)
                       /\ sorted' = (IF x >= next' /\ x \notin DOMAIN sorted THEN Pushed(x, n) ELSE sorted)
  BY PushStep
<1>2. /\ firstPacket' = FALSE /\ UNCHANGED <<gapStart, now, delivered>>
      /\ first' = (IF first = None THEN n ELSE first)
      /\ newest' = (IF n > newest THEN n ELSE newest)
      /\ arrivedAt' = [arrivedAt EXCEPT ![n] = IF @ = None THEN now ELSE @]
      /\ crossed' \in BOOLEAN /\ (crossed => crossed')
  BY DEF PushFrame, push, TrackInv, TrackType
<1>3. TrackType
  BY DEF TrackInv
<1>4. Buffer(sorted')
  BY <1>1, <1>3, PushedBuffer DEF TrackType
<1>5. n \in Nat /\ None = -1 /\ n # None
  BY TrackAssumption DEF None
<1>6. /\ arrivedAt' \in [Packets -> Nat \cup {None}] /\ arrivedAt'[n] # None
      /\ \A m \in Packets : arrivedAt'[m] <= now
      /\ \A m \in Packets : /\ arrivedAt[m] # None => arrivedAt'[m] = arrivedAt[m]
                            /\ arrivedAt'[m] = None => arrivedAt[m] = None
  BY <1>2, <1>3, <1>5 DEF TrackType, None
<1>7. TrackType'
  BY <1>1, <1>2, <1>3, <1>4, <1>5, <1>6 DEF TrackType
<1>8. ASSUME ~crossed'
      PROVE  /\ \A e \in DOMAIN sorted' : sorted'[e] = e /\ arrivedAt'[e] # None
             /\ delivered' < next'
             /\ gapStart' # None => \E h \in Entries' : arrivedAt'[h] <= gapStart'
             /\ \A m \in Packets : first' # None /\ m > first' /\ m < next' /\ arrivedAt'[m] = None
                                       => GivenUp(m)'
  <2>1. /\ x = n /\ ~crossed
        /\ \A e \in DOMAIN sorted : sorted[e] = e /\ arrivedAt[e] # None
        /\ delivered < next
        /\ gapStart # None => \E h \in Entries : arrivedAt[h] <= gapStart
        /\ \A m \in Packets : first # None /\ m > first /\ m < next /\ arrivedAt[m] = None => GivenUp(m)
    BY <1>1, <1>2, <1>8 DEF TrackInv, Straight
  <2>2. ASSUME NEW e \in DOMAIN sorted' PROVE sorted'[e] = e /\ arrivedAt'[e] # None
    <3>1. CASE e = n
      BY <1>1, <1>6, <2>1, <2>2, <3>1 DEF Pushed
    <3>2. CASE e # n
      <4>1. e \in DOMAIN sorted /\ sorted'[e] = sorted[e]
        BY <1>1, <2>1, <2>2, <3>2 DEF Pushed
      <4>2. sorted[e] = e /\ arrivedAt[e] # None /\ e \in Packets
        BY <1>3, <2>1, <4>1 DEF TrackType, Buffer
      <4> QED BY <1>6, <4>1, <4>2
    <3> QED BY <3>1, <3>2
  <2>3. delivered' < next'
    BY <1>1, <1>2, <1>3, <1>5, <2>1 DEF TrackType
  <2>4. ASSUME gapStart' # None PROVE \E h \in Entries' : arrivedAt'[h] <= gapStart'
    <3>1. PICK h \in Entries : arrivedAt[h] <= gapStart
      BY <1>2, <2>1, <2>4
    <3>2. h \in DOMAIN sorted /\ h >= next /\ sorted[h] = h /\ arrivedAt[h] # None /\ ~firstPacket
      BY <1>3, <2>1 DEF Entries, TrackType
    <3>3. h \in Packets /\ arrivedAt'[h] = arrivedAt[h]
      BY <1>3, <1>6, <3>2 DEF TrackType, Buffer
    <3>4. h \in DOMAIN sorted' /\ next' = next
      BY <1>1, <3>2 DEF Pushed
    <3> QED BY <1>2, <3>1, <3>2, <3>3, <3>4 DEF Entries
  <2>5. ASSUME NEW m \in Packets, first' # None, m > first', m < next', arrivedAt'[m] = None
        PROVE  GivenUp(m)'
    <3>1. ~firstPacket
      BY <1>1, <1>2, <1>3, <1>5, <2>1, <2>5, TrackAssumption DEF TrackType
    <3>2. first # None /\ first' = first /\ next' = next /\ arrivedAt[m] = None
      BY <1>1, <1>2, <1>3, <1>6, <2>5, <3>1 DEF TrackType
    <3>3. GivenUp(m)
      BY <2>1, <2>5, <3>2
    <3> QED BY <1>2, <1>6, <3>3 DEF GivenUp
  <2> QED BY <2>2, <2>3, <2>4, <2>5
<1> QED BY <1>7, <1>8 DEF TrackInv, Straight

\* A packet that arrives for the first time and does not get into the buffer
\* is behind next.
LEMMA DroppedIsLate ==
    ASSUME TrackInv, NEW n \in Packets, PushFrame(n), Dropped(n), ~crossed'
    PROVE  n < next'
<1>1. PICK x \in Nat : /\ x % SeqMod = n % SeqMod /\ (~crossed' => x = n)
                       /\ next' = (IF firstPacket THEN x ELSE next)
                       /\ sorted' = (IF x >= next' /\ x \notin DOMAIN sorted THEN Pushed(x, n) ELSE sorted)
  BY PushStep
<1>2. x = n /\ ~crossed /\ n \in Nat /\ next' \in Nat
  BY <1>1, TrackAssumption DEF PushFrame, TrackInv, TrackType
<1>3. n \in DOMAIN sorted => sorted[n] = n
  BY <1>2 DEF TrackInv, Straight
<1>4. ~(n >= next')
  <2> SUFFICES ASSUME n >= next' PROVE FALSE
    OBVIOUS
  <2>1. n \in DOMAIN sorted' /\ sorted'[n] = n
    BY <1>1, <1>2, <1>3 DEF Pushed
  <2> QED BY <2>1 DEF Dropped, Range
<1> QED BY <1>2, <1>4


(***************************************************************************)
(* pop_frame.                                                              *)
(***************************************************************************)
\* Packets of one timestamp are less than a frame apart.
LEMMA OneFrame ==
    ASSUME NEW a \in Nat, NEW b \in Nat, Timestamp(a) = Timestamp(b)
    PROVE  a - b < FrameSize /\ b - a < FrameSize
<1> DEFINE q == a \div FrameSize
           r == a % FrameSize
           s == b % FrameSize
<1>1. a \in Int /\ b \in Int /\ FrameSize \in Nat \ {0}
  BY JitterAssumption
<1>2. q \in Int /\ r \in 0 .. FrameSize - 1 /\ a = FrameSize * q + r
  BY <1>1, DivMod, Zenon
<1>3. s \in 0 .. FrameSize - 1 /\ b = FrameSize * (b \div FrameSize) + s
  BY <1>1, DivMod, Zenon
<1>4. b \div FrameSize = q
  BY DEF Timestamp
<1> HIDE DEF q, r, s
<1>5. FrameSize * q \in Int
  BY <1>1, <1>2
<1> QED BY <1>1, <1>2, <1>3, <1>4, <1>5

\* Packets of one timestamp under neighbouring numbers are neighbours.
LEMMA Neighbours ==
    ASSUME Buffer(sorted), NEW y \in Nat, y \in DOMAIN sorted, y + 1 \in DOMAIN sorted,
           Timestamp(sorted[y]) = Timestamp(sorted[y + 1])
    PROVE  sorted[y + 1] = sorted[y] + 1
<1> DEFINE a == sorted[y]
           b == sorted[y + 1]
<1>1. a \in Nat /\ b \in Nat /\ a % SeqMod = y % SeqMod /\ b % SeqMod = (y + 1) % SeqMod
  BY TrackAssumption DEF Buffer
<1>2. SeqMod \in Nat \ {0} /\ FrameSize \in Nat /\ FrameSize < SeqMod
  BY JitterAssumption, SpaceType
<1>3. a - b < FrameSize /\ b - a < FrameSize
  BY <1>1, OneFrame
<1> HIDE DEF a, b
<1>4. a \in Int /\ b \in Int /\ a + 1 \in Int /\ y \in Int /\ 1 \in Int
  BY <1>1
<1>5. ((a % SeqMod) + 1) % SeqMod = (a + 1) % SeqMod
  BY <1>2, <1>4, ModPlus, Zenon
<1>6. ((y % SeqMod) + 1) % SeqMod = (y + 1) % SeqMod
  BY <1>2, <1>4, ModPlus, Zenon
<1>7. (a + 1) % SeqMod = b % SeqMod
  BY <1>1, <1>5, <1>6
<1>8. (a + 1) - b < SeqMod /\ b - (a + 1) < SeqMod
  BY <1>1, <1>2, <1>3
<1>9. a + 1 = b
  BY <1>2, <1>4, <1>7, <1>8, ModUnique, Zenon
<1> QED BY <1>9 DEF a, b

\* A run of the buffer is an interval, and so are its packets.
LEMMA RunIsInterval ==
    ASSUME TrackType, NEW e \in Entries
    PROVE  \E k \in Nat :
              /\ Run(e) = e .. e + k /\ Max(Run(e)) = e + k
              /\ \A x \in e .. e + k : x \in Entries /\ Timestamp(sorted[x]) = Timestamp(sorted[e])
              /\ \A i \in 0 .. k : sorted[e + i] = sorted[e] + i
<1>1. Buffer(sorted) /\ Entries \in SUBSET Nat /\ e \in Nat
  BY DEF TrackType, Buffer, Entries
<1>2. PICK b \in Nat : \A x \in DOMAIN sorted : x <= b
  BY <1>1 DEF Buffer
<1> DEFINE R == Run(e)
           K == Max(R)
<1>3. e \in R /\ R \in SUBSET Int /\ \A x \in R : x <= b
  <2>1. e \in R
    BY <1>1 DEF Run
  <2>2. R \subseteq Entries
    BY DEF Run
  <2>3. Entries \subseteq DOMAIN sorted
    BY DEF Entries
  <2> HIDE DEF R
  <2> QED BY <1>1, <1>2, <2>1, <2>2, <2>3
<1>4. K \in R /\ \A y \in R : K >= y
  <2>1. R # {} /\ b \in Int
    BY <1>3
  <2> HIDE DEF R
  <2> QED BY <1>2, <1>3, <2>1, MaxIs
<1> HIDE DEF K
<1>5. /\ K \in Nat /\ K >= e
      /\ \A y \in e .. K : y \in Entries /\ Timestamp(sorted[y]) = Timestamp(sorted[e])
  BY <1>1, <1>4 DEF Run
<1>6. R = e .. K
  <2>1. ASSUME NEW x \in R PROVE x \in e .. K
    BY <1>1, <1>4, <1>5, <2>1 DEF Run
  <2>2. ASSUME NEW x \in e .. K PROVE x \in R
    <3>1. \A y \in e .. x : y \in e .. K
      BY <1>1, <1>5
    <3>2. x \in Entries /\ x >= e
      BY <1>1, <1>5
    <3> QED BY <1>5, <3>1, <3>2 DEF Run
  <2> HIDE DEF R
  <2> QED BY <2>1, <2>2
<1> DEFINE k == K - e
           P == { i \in 0 .. k : sorted[e + i] = sorted[e] + i }
<1>7. k \in Nat /\ K = e + k
  BY <1>1, <1>5
<1> HIDE DEF k
<1>8. \A i \in 0 .. k : e + i \in DOMAIN sorted /\ Timestamp(sorted[e + i]) = Timestamp(sorted[e])
  <2> SUFFICES ASSUME NEW i \in 0 .. k
               PROVE  e + i \in DOMAIN sorted /\ Timestamp(sorted[e + i]) = Timestamp(sorted[e])
    OBVIOUS
  <2>1. e + i \in e .. K
    BY <1>1, <1>7
  <2> QED BY <1>5, <2>1 DEF Entries
<1>9. sorted[e] \in Nat
  BY <1>1, TrackAssumption DEF Buffer, Entries
<1>10. 0 \in P
  BY <1>1, <1>7, <1>9
<1>11. ASSUME NEW i \in 1 .. k, i - 1 \in P PROVE i \in P
  <2>1. i - 1 \in 0 .. k /\ i \in 0 .. k /\ e + (i - 1) \in Nat /\ (e + (i - 1)) + 1 = e + i
    BY <1>1, <1>7
  <2>2. sorted[e + (i - 1)] = sorted[e] + (i - 1)
    BY <1>11
  <2>3. e + (i - 1) \in DOMAIN sorted /\ Timestamp(sorted[e + (i - 1)]) = Timestamp(sorted[e])
    BY <1>8, <2>1
  <2>4. e + i \in DOMAIN sorted /\ Timestamp(sorted[e + i]) = Timestamp(sorted[e])
    BY <1>8, <2>1
  <2>5. sorted[(e + (i - 1)) + 1] = sorted[e + (i - 1)] + 1
    <3> DEFINE y == e + (i - 1)
    <3>1. y \in Nat /\ y \in DOMAIN sorted /\ y + 1 \in DOMAIN sorted
      BY <2>1, <2>3, <2>4
    <3>2. Timestamp(sorted[y]) = Timestamp(sorted[y + 1])
      BY <2>1, <2>3, <2>4
    <3> HIDE DEF y
    <3>3. sorted[y + 1] = sorted[y] + 1
      BY <1>1, <3>1, <3>2, Neighbours
    <3> QED BY <3>3 DEF y
  <2>6. sorted[e + i] = (sorted[e] + (i - 1)) + 1
    BY <2>1, <2>2, <2>5
  <2>7. (sorted[e] + (i - 1)) + 1 = sorted[e] + i
    BY <1>7, <1>9
  <2> QED BY <2>1, <2>6, <2>7
<1>12. \A i \in 0 .. k : i \in P
  <2> HIDE DEF P
  <2> QED BY <1>7, <1>10, <1>11, UpTo, Zenon
<1>13. \A i \in 0 .. k : sorted[e + i] = sorted[e] + i
  BY <1>12
<1>14. Run(e) = e .. e + k /\ Max(Run(e)) = e + k
  BY <1>6, <1>7 DEF K
<1>15. \A x \in e .. e + k : x \in Entries /\ Timestamp(sorted[x]) = Timestamp(sorted[e])
  BY <1>5, <1>7
<1> QED BY <1>7, <1>13, <1>14, <1>15

\* The packets of a run.
LEMMA RunPackets ==
    ASSUME TrackType, NEW e \in Entries
    PROVE  LET T == { sorted[x] : x \in Run(e) } IN
              /\ T \in SUBSET Packets /\ T # {} /\ T \in SUBSET Nat
              /\ T = Min(T) .. Max(T) /\ Min(T) = sorted[e]
              /\ \A n \in T : Timestamp(n) = Timestamp(Min(T))
<1>1. PICK k \in Nat :
              /\ Run(e) = e .. e + k
              /\ \A x \in e .. e + k : x \in Entries /\ Timestamp(sorted[x]) = Timestamp(sorted[e])
              /\ \A i \in 0 .. k : sorted[e + i] = sorted[e] + i
  BY RunIsInterval
<1> DEFINE T == { sorted[x] : x \in Run(e) }
           a == sorted[e]
<1>2. a \in Nat /\ e \in Nat /\ Packets \subseteq Nat
  BY TrackAssumption DEF TrackType, Buffer, Entries
<1>3. T = a .. a + k
  <2>1. ASSUME NEW n \in T PROVE n \in a .. a + k
    <3>1. PICK x \in e .. e + k : n = sorted[x]
      BY <1>1, <2>1
    <3>2. x - e \in 0 .. k /\ e + (x - e) = x
      BY <1>2
    <3>3. n = a + (x - e)
      BY <1>1, <3>1, <3>2
    <3> HIDE DEF a
    <3> QED BY <1>2, <3>2, <3>3
  <2>2. ASSUME NEW n \in a .. a + k PROVE n \in T
    <3> HIDE DEF a
    <3>1. n - a \in 0 .. k /\ e + (n - a) \in e .. e + k /\ a + (n - a) = n
      BY <1>2
    <3>2. sorted[e + (n - a)] = a + (n - a)
      BY <1>1, <3>1 DEF a
    <3> QED BY <1>1, <3>1, <3>2
  <2> HIDE DEF T, a
  <2> QED BY <2>1, <2>2
<1>4. T \in SUBSET Packets
  BY <1>1 DEF TrackType, Buffer, Entries
<1>5. \A n \in T : Timestamp(n) = Timestamp(a)
  BY <1>1
<1> HIDE DEF T, a
<1>6. Min(T) = a /\ Max(T) = a + k /\ T # {}
  <2>1. a + k \in Nat /\ a <= a + k
    BY <1>2
  <2>2. Min(a .. a + k) = a /\ Max(a .. a + k) = a + k
    BY <1>2, <2>1, IntervalEnds, Zenon
  <2>3. a \in a .. a + k
    BY <1>2, <2>1
  <2> QED BY <1>3, <2>2, <2>3
<1>7. /\ T \in SUBSET Packets /\ T # {} /\ T \in SUBSET Nat
      /\ T = Min(T) .. Max(T) /\ Min(T) = a
      /\ \A n \in T : Timestamp(n) = Timestamp(Min(T))
  BY <1>2, <1>3, <1>4, <1>5, <1>6
<1> QED BY <1>7 DEF T, a


\* What pop_frame comes to: nothing is handed out and next stays, or moves
\* to the first entry; or the run of the first entry is handed out.  Entries
\* in front of next are never passed over before the gap has expired.
LEMMA PopFrame ==
    ASSUME TrackInv, pop_frame(now)
    PROVE  \/ /\ popped' = {} /\ sorted' = Restrict(sorted, Entries) /\ next' = next
              /\ \/ Entries = {} /\ gapStart' = gapStart
                 \/ Entries # {} /\ gapStart' = GapSince(now)
           \/ /\ Entries # {} /\ gapStart' = None
              /\ Min(Entries) = next \/ GapExpired(now)
              /\ \/ popped' = {} /\ sorted' = Restrict(sorted, Entries) /\ next' = Min(Entries)
                 \/ Deliver(Run(Min(Entries)))
<1>1. CASE Entries = {} /\ Wait /\ UNCHANGED <<next, gapStart, videoWait>>
  BY <1>1 DEF Wait
<1>2. CASE /\ Entries # {} /\ Min(Entries) > next /\ ~GapExpired(now)
           /\ gapStart' = GapSince(now)
           /\ Wait /\ UNCHANGED <<next, videoWait>>
  BY <1>2 DEF Wait
<1>3. CASE /\ Entries # {} /\ (Min(Entries) = next \/ GapExpired(now))
           /\ Ready(Min(Entries), now)
  <2>1. gapStart' = None
    BY <1>3 DEF Ready
  <2>2. (Wait /\ next' = Min(Entries)) \/ Deliver(Run(Min(Entries)))
    BY <1>3 DEF Ready
  <2> QED BY <1>3, <2>1, <2>2 DEF Wait
<1> QED BY <1>1, <1>2, <1>3 DEF pop_frame

\* The buffer with some of its entries.
LEMMA RestrictedBuffer ==
    ASSUME Buffer(sorted), NEW D \in SUBSET DOMAIN sorted
    PROVE  /\ Buffer(Restrict(sorted, D)) /\ DOMAIN Restrict(sorted, D) = D
           /\ \A e \in D : Restrict(sorted, D)[e] = sorted[e]
<1> DEFINE m == Restrict(sorted, D)
<1>1. DOMAIN m = D /\ \A e \in D : m[e] = sorted[e]
  BY DEF Restrict
<1>2. m \in [D -> Packets]
  BY DEF Restrict, Buffer
<1>3. PICK b \in Nat : \A e \in DOMAIN sorted : e <= b
  BY DEF Buffer
<1>4. \A e \in D : m[e] % SeqMod = e % SeqMod
  <2> SUFFICES ASSUME NEW e \in D PROVE m[e] % SeqMod = e % SeqMod
    OBVIOUS
  <2>1. m[e] = sorted[e] /\ sorted[e] % SeqMod = e % SeqMod
    BY <1>1 DEF Buffer
  <2> QED BY <2>1
<1> HIDE DEF m
<1>5. Buffer(m)
  BY <1>1, <1>2, <1>3, <1>4 DEF Buffer
<1> QED BY <1>1, <1>5 DEF m

\* The packets in front of the first entry that have not come are given up
\* once the gap has expired.
LEMMA GapGivesUp ==
    ASSUME TrackInv, ~crossed, Entries # {}, GapExpired(now), NEW n \in Packets, n < Min(Entries)
    PROVE  GivenUp(n)
<1>1. /\ Entries \in SUBSET Nat /\ now \in Nat /\ gapStart \in Nat \cup {None} /\ MaxDelay \in Nat \ {0}
      /\ Packets \subseteq Nat
  BY JitterAssumption, TrackAssumption DEF TrackInv, TrackType, Buffer, Entries
<1>2. gapStart # None /\ now - gapStart >= MaxDelay
  BY <1>1 DEF GapExpired, GapSince
<1>3. PICK h \in Entries : arrivedAt[h] <= gapStart
  BY <1>2 DEF TrackInv, Straight
<1>4. h \in Packets /\ arrivedAt[h] # None /\ arrivedAt[h] \in Nat /\ h \in Nat
  <2>1. h \in DOMAIN sorted /\ sorted[h] = h /\ arrivedAt[h] # None
    BY DEF TrackInv, Straight, Entries
  <2>2. h \in Packets
    BY <2>1 DEF TrackInv, TrackType, Buffer
  <2> QED BY <1>1, <2>1, <2>2 DEF TrackInv, TrackType
<1>5. Min(Entries) \in Nat /\ Min(Entries) <= h
  BY <1>1, MinIs
<1>6. h > n
  BY <1>1, <1>4, <1>5
<1>7. now - arrivedAt[h] >= MaxDelay
  BY <1>1, <1>2, <1>3, <1>4
<1> QED BY <1>4, <1>6, <1>7 DEF GivenUp


\* A poll that hands nothing out keeps the entries, and the invariant.
LEMMA WaitKeeps ==
    ASSUME TrackInv, Poll, popped' = {}, sorted' = Restrict(sorted, Entries),
           \/ /\ next' = next
              /\ \/ Entries = {} /\ gapStart' = gapStart
                 \/ Entries # {} /\ gapStart' = GapSince(now)
           \/ /\ Entries # {} /\ gapStart' = None /\ next' = Min(Entries)
              /\ Min(Entries) = next \/ GapExpired(now)
    PROVE  TrackInv'
<1>1. UNCHANGED <<now, first, newest, arrivedAt, crossed, firstPacket, delivered>>
  BY DEF Poll, pop_frame
<1>2. TrackType /\ Buffer(sorted)
  BY DEF TrackInv, TrackType
<1>3. Entries \in SUBSET DOMAIN sorted /\ Entries \in SUBSET Nat
  BY <1>2 DEF Buffer, Entries
<1>4. Buffer(sorted') /\ DOMAIN sorted' = Entries /\ \A e \in Entries : sorted'[e] = sorted[e]
  BY <1>2, <1>3, RestrictedBuffer
<1>5. Entries # {} => Min(Entries) \in Entries /\ \A e \in Entries : Min(Entries) <= e
  BY <1>3, MinIs
<1>6. next' \in Nat /\ next' >= next /\ (\A e \in Entries : e >= next') /\ (Entries = {} => next' = next)
  <2>1. next \in Nat /\ \A e \in Entries : e >= next
    BY <1>2 DEF TrackType, Entries
  <2> QED BY <1>3, <1>5, <2>1
<1>7. gapStart' \in Nat \cup {None}
  BY <1>2 DEF TrackType, GapSince
<1>8. firstPacket => Entries = {}
  BY <1>2 DEF TrackType, Entries
<1>9. TrackType'
  BY <1>1, <1>2, <1>4, <1>6, <1>7, <1>8 DEF TrackType
<1>10. Entries' = Entries
  BY <1>4, <1>6 DEF Entries
<1>11. ASSUME ~crossed'
       PROVE  /\ \A e \in DOMAIN sorted' : sorted'[e] = e /\ arrivedAt'[e] # None
              /\ delivered' < next'
              /\ gapStart' # None => \E h \in Entries' : arrivedAt'[h] <= gapStart'
              /\ \A m \in Packets : first' # None /\ m > first' /\ m < next' /\ arrivedAt'[m] = None
                                        => GivenUp(m)'
  <2>1. /\ ~crossed
        /\ \A e \in DOMAIN sorted : sorted[e] = e /\ arrivedAt[e] # None
        /\ delivered < next
        /\ gapStart # None => \E h \in Entries : arrivedAt[h] <= gapStart
        /\ \A m \in Packets : first # None /\ m > first /\ m < next /\ arrivedAt[m] = None => GivenUp(m)
    BY <1>1, <1>11 DEF TrackInv, Straight
  <2>2. \A e \in DOMAIN sorted' : sorted'[e] = e /\ arrivedAt'[e] # None
    BY <1>1, <1>3, <1>4, <2>1
  <2>3. delivered' < next'
    BY <1>1, <1>2, <1>6, <2>1, TrackAssumption DEF TrackType, None
  <2>4. ASSUME gapStart' # None PROVE \E h \in Entries : arrivedAt[h] <= gapStart'
    <3>1. CASE gapStart # None
      BY <2>1, <2>4, <3>1 DEF GapSince
    <3>2. CASE gapStart = None
      <4>1. gapStart' = now /\ Entries # {}
        BY <2>4, <3>2 DEF GapSince
      <4>2. PICK h \in Entries : TRUE
        BY <4>1
      <4>3. h \in Packets
        BY <1>2, <1>3, <2>1 DEF Buffer
      <4> QED BY <1>2, <4>1, <4>3 DEF TrackType
    <3> QED BY <3>1, <3>2
  <2>5. ASSUME NEW m \in Packets, first' # None, m > first', m < next', arrivedAt'[m] = None
        PROVE  GivenUp(m)'
    <3>1. GivenUp(m)
      <4>1. CASE m < next
        BY <1>1, <2>1, <2>5, <4>1
      <4>2. CASE ~(m < next)
        <5>1. Entries # {} /\ next' = Min(Entries) /\ Min(Entries) # next
          BY <1>6, <2>5, <4>2
        <5> QED BY <2>1, <2>5, <5>1, GapGivesUp
      <4> QED BY <4>1, <4>2
    <3> QED BY <1>1, <3>1 DEF GivenUp
  <2> QED BY <1>1, <1>10, <2>2, <2>3, <2>4, <2>5
<1> QED BY <1>9, <1>11 DEF TrackInv, Straight

\* So does a poll that hands out the run of the first entry.
LEMMA DeliverKeeps ==
    ASSUME TrackInv, Poll, Entries # {}, gapStart' = None, Min(Entries) = next \/ GapExpired(now),
           Deliver(Run(Min(Entries)))
    PROVE  TrackInv'
<1> DEFINE h == Min(Entries)
           T == { sorted[x] : x \in Run(h) }
<1>1. UNCHANGED <<now, first, newest, arrivedAt, crossed, firstPacket>>
  BY DEF Poll, pop_frame
<1>2. TrackType /\ Buffer(sorted) /\ next \in Nat
  BY DEF TrackInv, TrackType
<1>3. Entries \in SUBSET DOMAIN sorted /\ Entries \in SUBSET Nat /\ \A e \in Entries : e >= next
  BY <1>2 DEF Buffer, Entries
<1>4. h \in Entries /\ \A e \in Entries : h <= e
  BY <1>3, MinIs
<1>5. T \in SUBSET Packets /\ T # {} /\ T \in SUBSET Nat /\ T = Min(T) .. Max(T)
  BY <1>2, <1>4, RunPackets
<1>6. popped' = T /\ sorted' = Restrict(sorted, Entries \ Run(h)) /\ next' = Max(Run(h)) + 1
  BY DEF Deliver
<1> HIDE DEF h
<1>7. PICK k \in Nat : /\ Run(h) = h .. h + k /\ Max(Run(h)) = h + k
                       /\ \A x \in h .. h + k : x \in Entries
                       /\ \A i \in 0 .. k : sorted[h + i] = sorted[h] + i
  BY <1>2, <1>4, RunIsInterval
<1>8. h \in Nat /\ next' = h + k + 1 /\ next' \in Nat
  BY <1>3, <1>4, <1>6, <1>7
<1>9. delivered' = Max(T \cup {delivered})
  BY <1>5, <1>6 DEF Poll
<1> HIDE DEF T
<1>10. /\ delivered' \in T \cup {delivered}
       /\ delivered' \in Packets \cup {None}
  <2> DEFINE U == T \cup {delivered}
  <2>1. delivered \in Packets \cup {None} /\ Packets \subseteq Nat /\ delivered \in Int
    BY <1>2, TrackAssumption DEF TrackType, None
  <2>2. U \in SUBSET Int /\ U # {}
    BY <1>5, <2>1
  <2>3. Max(T) \in T /\ \A x \in T : Max(T) >= x
    <3>1. PICK z \in T : TRUE
      BY <1>5
    <3>2. sorted[h] \in Nat /\ T = sorted[h] .. Max(T)
      BY <1>2, <1>3, <1>4, <1>5, RunPackets, TrackAssumption DEF T, Buffer
    <3>3. \A x \in T : x <= sorted[h] + k
      <4> SUFFICES ASSUME NEW x \in T PROVE x <= sorted[h] + k
        OBVIOUS
      <4>1. PICK y \in h .. h + k : x = sorted[y]
        BY <1>7 DEF T
      <4>2. y - h \in 0 .. k /\ h + (y - h) = y
        BY <1>8
      <4>3. x = sorted[h] + (y - h)
        BY <1>7, <4>1, <4>2
      <4> QED BY <3>2, <4>2, <4>3
    <3>4. sorted[h] + k \in Int /\ T \in SUBSET Int
      BY <1>5, <3>2
    <3> QED BY <1>5, <3>3, <3>4, MaxIs
  <2> DEFINE b == Max(T) + delivered + 1
  <2>0. T \in SUBSET Nat
    BY <1>5
  <2>7. Max(T) \in Nat
    BY <2>0, <2>3
  <2>8. delivered >= -1
    BY <2>1 DEF None
  <2>4. \A x \in U : x <= b
    <3>1. \A x \in T : x <= Max(T) /\ x \in Nat
      BY <2>0, <2>3, <2>7
    <3> QED BY <2>1, <2>7, <2>8, <3>1
  <2>5. b \in Int
    BY <2>1, <2>7
  <2> HIDE DEF b
  <2> HIDE DEF U
  <2>6. Max(U) \in U
    BY <2>2, <2>4, <2>5, MaxIs
  <2> QED BY <1>5, <1>9, <2>1, <2>6 DEF U
<1> DEFINE D == Entries \ Run(h)
<1>11. D \in SUBSET DOMAIN sorted /\ D \in SUBSET Nat
  BY <1>3
<1>12. Buffer(sorted') /\ DOMAIN sorted' = D /\ \A e \in D : sorted'[e] = sorted[e]
  BY <1>2, <1>6, <1>11, RestrictedBuffer
<1>13. ~firstPacket
  BY <1>2, <1>3, <1>4 DEF TrackType
<1>14. TrackType'
  BY <1>1, <1>2, <1>8, <1>10, <1>12, <1>13 DEF TrackType
<1>15. ASSUME ~crossed'
       PROVE  /\ \A e \in DOMAIN sorted' : sorted'[e] = e /\ arrivedAt'[e] # None
              /\ delivered' < next'
              /\ \A m \in Packets : first' # None /\ m > first' /\ m < next' /\ arrivedAt'[m] = None
                                        => GivenUp(m)'
  <2>1. /\ ~crossed
        /\ \A e \in DOMAIN sorted : sorted[e] = e /\ arrivedAt[e] # None
        /\ delivered < next
        /\ \A m \in Packets : first # None /\ m > first /\ m < next /\ arrivedAt[m] = None => GivenUp(m)
    BY <1>1, <1>15 DEF TrackInv, Straight
  <2>2. \A e \in DOMAIN sorted' : sorted'[e] = e /\ arrivedAt'[e] # None
    BY <1>1, <1>11, <1>12, <2>1
  <2>3. delivered' < next'
    <3>1. CASE delivered' = delivered
      <4>1. next <= h /\ delivered \in Int
        BY <1>2, <1>3, <1>4, TrackAssumption DEF TrackType, None
      <4> QED BY <1>2, <1>8, <2>1, <3>1, <4>1
    <3>2. CASE delivered' \in T
      <4>1. PICK x \in h .. h + k : delivered' = sorted[x]
        BY <1>7, <3>2 DEF T
      <4>2. sorted[x] = x
        BY <1>3, <1>7, <2>1, <4>1
      <4> QED BY <1>8, <4>1, <4>2
    <3> QED BY <1>10, <3>1, <3>2
  <2>4. ASSUME NEW m \in Packets, first' # None, m > first', m < next', arrivedAt'[m] = None
        PROVE  GivenUp(m)'
    <3>0. m \in Nat /\ next <= h
      BY <1>3, <1>4, TrackAssumption
    <3>1. GivenUp(m)
      <4>1. CASE m < next
        BY <1>1, <2>1, <2>4, <4>1
      <4>2. CASE ~(m < next) /\ m < h
        <5>1. h # next
          BY <1>2, <1>8, <3>0, <4>2
        <5>2. GapExpired(now) /\ m < Min(Entries)
          BY <4>2, <5>1 DEF h
        <5> QED BY <2>1, <5>2, GapGivesUp
      <4>3. CASE ~(m < h)
        <5>1. m \in h .. h + k
          BY <1>8, <2>4, <3>0, <4>3
        <5> QED BY <1>1, <1>3, <1>7, <2>1, <2>4, <5>1
      <4> QED BY <4>1, <4>2, <4>3
    <3> QED BY <1>1, <3>1 DEF GivenUp
  <2> QED BY <2>2, <2>3, <2>4
<1> QED BY <1>14, <1>15 DEF TrackInv, Straight


\* Every step keeps the invariant.
LEMMA TrackStep == ASSUME TrackInv, [TrackNext]_trackVars PROVE TrackInv'
<1>1. ASSUME UNCHANGED <<sorted, next, firstPacket, gapStart, first, newest, arrivedAt, delivered, crossed>>,
             now' \in Nat, now' >= now
      PROVE  TrackInv'
  <2>1. TrackType'
    BY <1>1, TrackAssumption DEF TrackInv, TrackType, None
  <2>2. Entries' = Entries
    BY <1>1 DEF Entries
  <2>3. ASSUME NEW n \in Packets, GivenUp(n) PROVE GivenUp(n)'
    <3>1. PICK m \in Packets : m > n /\ arrivedAt[m] # None /\ now - arrivedAt[m] >= MaxDelay
      BY <2>3 DEF GivenUp
    <3>2. arrivedAt[m] \in Nat /\ now \in Nat /\ MaxDelay \in Nat
      BY <3>1, JitterAssumption DEF TrackInv, TrackType
    <3>3. now' - arrivedAt[m] >= MaxDelay
      BY <1>1, <3>1, <3>2
    <3> QED BY <1>1, <3>1, <3>3 DEF GivenUp
  <2>4. Straight'
    BY <1>1, <2>2, <2>3 DEF TrackInv, Straight
  <2> QED BY <2>1, <2>4 DEF TrackInv
<1>2. now \in Nat
  BY DEF TrackInv, TrackType
<1>3. CASE Recv
  BY <1>1, <1>2, <1>3 DEF Recv, jitterVars
<1>4. CASE Tick
  BY <1>1, <1>2, <1>4 DEF Tick, jitterVars
<1>5. CASE UNCHANGED trackVars
  BY <1>1, <1>2, <1>5 DEF trackVars, jitterVars
<1>6. CASE Poll
  <2>1. pop_frame(now)
    BY <1>6 DEF Poll
  <2> QED BY <1>6, <2>1, PopFrame, WaitKeeps, DeliverKeeps
<1>7. CASE \E n \in Packets : PushFrame(n)
  BY <1>7, PushKeeps
<1> QED BY <1>3, <1>4, <1>5, <1>6, <1>7 DEF TrackNext

\* The invariant holds before the first packet.
LEMMA TrackStart == TrackInit => TrackInv
<1> SUFFICES ASSUME TrackInit PROVE TrackInv
  OBVIOUS
<1>1. /\ sorted = [e \in {} |-> 0] /\ next = 0 /\ firstPacket = TRUE /\ gapStart = None
      /\ now = 0 /\ first = None /\ newest = None /\ arrivedAt = [n \in Packets |-> None]
      /\ delivered = None /\ crossed = FALSE
  BY DEF TrackInit, Init
<1>2. DOMAIN sorted = {} /\ sorted \in [{} -> Packets]
  BY <1>1
<1>3. Buffer(sorted)
  BY <1>2 DEF Buffer
<1>4. TrackType
  <2>1. None <= 0
    BY DEF None
  <2>2. arrivedAt \in [Packets -> Nat \cup {None}] /\ \A n \in Packets : arrivedAt[n] <= now
    BY <1>1, <2>1
  <2> QED BY <1>1, <1>2, <1>3, <2>2 DEF TrackType
<1>5. Straight
  BY <1>1, <1>2 DEF Straight, None
<1> QED BY <1>4, <1>5 DEF TrackInv

\* The buffer holds packets under numbers that agree with theirs, and until
\* one crosses, under their own: jitter_buffer::push and pop_frame.
THEOREM TrackAlways == TrackSpec => []TrackInv
<1> QED BY TrackStart, TrackStep, PTL DEF TrackSpec

\* Only a poll hands out packets: the run of the first entry.
LEMMA PopsRun ==
    ASSUME TrackInv, TrackNext, Pops
    PROVE  /\ Entries # {} /\ popped' = { sorted[x] : x \in Run(Min(Entries)) }
<1>1. reader = "running" /\ reader' = "idle" /\ popped' # {}
  BY DEF Pops
<1>2. Poll
  BY <1>1 DEF TrackNext, PushFrame, Recv, Tick
<1>3. pop_frame(now)
  BY <1>2 DEF Poll
<1> QED BY <1>1, <1>3, PopFrame DEF Deliver

\* What recv_packet hands out is one frame without a hole, and until a packet
\* crosses, packets leave in sending order and at most once: push, pop_frame
\* and recv_packet, whatever the network does.
THEOREM FramesAlwaysOrdered == TrackSpec => OrderedFrames
<1> DEFINE Ordered ==
        Pops => /\ \A n \in popped' : Timestamp(n) = Timestamp(Min(popped'))
                /\ popped' = Min(popped') .. Max(popped')
                /\ ~crossed => Min(popped') > delivered
<1>1. TrackInv /\ [TrackNext]_trackVars => [Ordered]_trackVars
  <2> SUFFICES ASSUME TrackInv, TrackNext, Pops
               PROVE  /\ \A n \in popped' : Timestamp(n) = Timestamp(Min(popped'))
                      /\ popped' = Min(popped') .. Max(popped')
                      /\ ~crossed => Min(popped') > delivered
    OBVIOUS
  <2> DEFINE h == Min(Entries)
             T == { sorted[x] : x \in Run(h) }
  <2>1. popped' = T /\ Entries # {}
    BY PopsRun
  <2>2. TrackType /\ Entries \in SUBSET Nat
    BY DEF TrackInv, TrackType, Buffer, Entries
  <2>3. h \in Entries
    BY <2>1, <2>2, MinIs
  <2> HIDE DEF h
  <2>4. T = Min(T) .. Max(T) /\ Min(T) = sorted[h] /\ \A n \in T : Timestamp(n) = Timestamp(Min(T))
    BY <2>2, <2>3, RunPackets
  <2>5. ASSUME ~crossed PROVE sorted[h] > delivered
    <3>1. sorted[h] = h /\ delivered < next /\ h >= next /\ h \in Nat
      BY <2>2, <2>3, <2>5 DEF TrackInv, Straight, Entries
    <3>2. next \in Nat /\ delivered \in Int
      BY <2>2, TrackAssumption DEF TrackType, None
    <3> QED BY <3>1, <3>2
  <2> HIDE DEF T
  <2> QED BY <2>1, <2>4, <2>5
<1> QED BY <1>1, TrackAlways, PTL DEF TrackSpec, OrderedFrames

\* A packet is dropped as late only after the buffer has waited MaxDelay for
\* it, until one crosses: push and the gap timer of pop_frame.
THEOREM NeverDropsEarly == TrackSpec => NoEarlyDrop
<1> DEFINE Late ==
        \A n \in Packets : Dropped(n) /\ n > first /\ ~crossed' =>
            \E m \in Packets : m > n /\ arrivedAt[m] # None /\ now - arrivedAt[m] >= MaxDelay
<1>1. TrackInv /\ [TrackNext]_trackVars => [Late]_trackVars
  <2> SUFFICES ASSUME TrackInv, TrackNext, NEW n \in Packets, Dropped(n), n > first, ~crossed'
               PROVE  GivenUp(n)
    BY DEF GivenUp
  <2>1. arrivedAt[n] = None /\ arrivedAt'[n] # None
    BY DEF Dropped
  <2>2. PICK m \in Packets : PushFrame(m)
    BY <2>1 DEF TrackNext, Poll, Recv, Tick
  <2>3. m = n
    BY <2>1, <2>2 DEF PushFrame, TrackInv, TrackType
  <2>4. n < next' /\ PushFrame(n)
    BY <2>2, <2>3, DroppedIsLate
  <2>5. ~firstPacket
    <3> SUFFICES ASSUME firstPacket PROVE FALSE
      OBVIOUS
    <3>1. PICK x \in Nat : x = n /\ next' = x
      BY <2>4, PushStep
    <3> QED BY <2>4, <3>1
  <2>6. next' = next /\ first # None /\ ~crossed
    BY <2>4, <2>5 DEF PushFrame, push, TrackInv, TrackType
  <2> QED BY <2>1, <2>4, <2>6 DEF TrackInv, Straight
<1> QED BY <1>1, TrackAlways, PTL DEF TrackSpec, NoEarlyDrop
=============================================================================
