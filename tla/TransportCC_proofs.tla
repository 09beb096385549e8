------------------------- MODULE TransportCC_proofs -------------------------
(***************************************************************************)
(* What a transport-cc report tells is true and complete, for every size   *)
(* of the number space, of the list and of a report.  The proofs count     *)
(* packets without wrapping: the packets t[1] < t[2] < ... that wait in    *)
(* recv lie so close to the newest that their wrapped numbers compare as   *)
(* the packets do.                                                         *)
(***************************************************************************)
EXTENDS TransportCC, ModularArithmetic, SequenceTheorems, FiniteSetTheorems

Space == 0 .. SeqSpace - 1
Entries == [seq : Space, ts : Int]

\* The constants of the code and of the network, spelled out.
LEMMA Constants ==
    /\ SeqSpace \in Nat \ {0} /\ MaxStatus \in Nat \ {0} /\ MaxRecv \in Nat \ {0}
    /\ CountMod \in Nat \ {0} /\ ChunkSyms \in Nat \ {0} /\ ByteMod \in Nat \ {0}
    /\ WordMod \in Nat \ {0} /\ RefTicks \in Nat \ {0}
    /\ Start \in Space /\ Reorder \in Nat
    /\ SeqSpace \div 2 \in Nat /\ 2 * (SeqSpace \div 2) <= SeqSpace
    /\ Reorder + 2 * MaxRecv < SeqSpace \div 2
<1>1. SeqSpace \in Nat \ {0}
  BY BoundsAssumption
<1>2. SeqSpace \div 2 \in Nat /\ 2 * (SeqSpace \div 2) <= SeqSpace
  BY <1>1
<1> QED BY <1>1, <1>2, BoundsAssumption DEF Space

\* A packet has a number.
LEMMA NumberIn == ASSUME NEW a \in Int PROVE a % SeqSpace \in Space
BY Constants, DivMod DEF Space

\* The distance between the numbers of two packets less than a cycle apart.
LEMMA WrappedDistance ==
    ASSUME NEW a \in Int, NEW b \in Int, a <= b, b - a < SeqSpace
    PROVE  ((b % SeqSpace) - (a % SeqSpace)) % SeqSpace = b - a
<1> DEFINE p == a \div SeqSpace
           q == b \div SeqSpace
           x == a % SeqSpace
           y == b % SeqSpace
<1>1. /\ p \in Int /\ x \in Int /\ a = SeqSpace * p + x
      /\ q \in Int /\ y \in Int /\ b = SeqSpace * q + y
  BY Constants, DivMod DEF Space
<1> HIDE DEF p, q, x, y
<1>2. y - x = SeqSpace * (p - q) + (b - a)
  BY <1>1, Constants
<1>3. y - x \in Int /\ p - q \in Int /\ b - a \in 0 .. SeqSpace - 1
  BY <1>1, Constants
<1>4. (y - x) % SeqSpace = b - a
  BY <1>2, <1>3, ModIs, Constants
<1> QED BY <1>4 DEF x, y

\* static_cast<int16_t>(a - b) < 0 orders packets less than half a cycle apart.
LEMMA BeforeIsLess ==
    ASSUME NEW a \in Int, NEW b \in Int, a - b < SeqSpace \div 2, b - a < SeqSpace \div 2
    PROVE  SeqBefore(a % SeqSpace, b % SeqSpace) <=> a < b
<1>1. (a % SeqSpace = b % SeqSpace) <=> (a = b)
  BY Constants, ModUnique
<1>2. CASE a < b
  <2>1. ((b % SeqSpace) - (a % SeqSpace)) % SeqSpace = b - a
    <3>1. a <= b /\ b - a < SeqSpace
      BY <1>2, Constants
    <3> QED BY <3>1, WrappedDistance
  <2> QED BY <1>1, <1>2, <2>1 DEF SeqBefore
<1>3. CASE a = b
  BY <1>3 DEF SeqBefore
<1>4. CASE b < a
  <2>1. ((b % SeqSpace) - (a % SeqSpace)) % SeqSpace = SeqSpace - (a - b)
    <3> DEFINE c == b + SeqSpace
    <3>1. c \in Int /\ a <= c /\ c - a < SeqSpace /\ c - a = SeqSpace - (a - b)
      BY <1>4, Constants
    <3>2. c % SeqSpace = b % SeqSpace
      <4> DEFINE q == b \div SeqSpace
                 r == b % SeqSpace
      <4>1. q \in Int /\ r \in 0 .. SeqSpace - 1 /\ b = SeqSpace * q + r
        BY Constants, DivMod
      <4> HIDE DEF q, r
      <4>2. c = SeqSpace * (q + 1) + r /\ q + 1 \in Int
        BY <4>1, Constants
      <4>3. c % SeqSpace = r
        BY <3>1, <4>1, <4>2, Constants, ModIs
      <4> QED BY <4>3 DEF r
    <3> QED BY <3>1, <3>2, WrappedDistance
  <2>2. ~(SeqSpace - (a - b) < SeqSpace \div 2)
    BY Constants
  <2> QED BY <1>4, <2>1, <2>2 DEF SeqBefore
<1> QED BY <1>2, <1>3, <1>4

-----------------------------------------------------------------------------
\* The packets t[1] < t[2] < ... wait in list, near the newest.
Listed(list, t, newest) ==
    /\ list \in Seq(Entries)
    /\ t \in [1 .. Len(list) -> Int]
    /\ \A i \in 1 .. Len(list) : list[i].seq = t[i] % SeqSpace
    /\ \A i, j \in 1 .. Len(list) : i < j => t[i] < t[j]
    /\ \A i \in 1 .. Len(list) : t[i] <= newest /\ newest - Reorder - 2 * (Len(list) - i) <= t[i]

\* The waiting packets lie within less than half a cycle, also with one more than the limit.
LEMMA Near ==
    ASSUME NEW list, NEW t, NEW newest \in Int, Listed(list, t, newest), Len(list) <= MaxRecv + 1,
           NEW i \in 1 .. Len(list)
    PROVE  newest - SeqSpace \div 2 < t[i]
<1>1. /\ Len(list) \in Nat /\ t[i] \in Int
      /\ newest - Reorder - 2 * (Len(list) - i) <= t[i]
  BY DEF Listed
<1> QED BY <1>1, Constants

\* What is not older than the waiting packets may be is within a cycle of them.
LEMMA SpanFits ==
    ASSUME NEW newest \in Int, NEW n \in Nat, n <= MaxRecv, NEW a \in Int, NEW b \in Int,
           b < a, a <= newest, newest - Reorder - 2 * n <= b
    PROVE  a - b < SeqSpace /\ b - a < SeqSpace
<1>1. 2 * n <= 2 * MaxRecv
  BY Constants
<1>2. a - b <= Reorder + 2 * MaxRecv
  BY <1>1, Constants
<1> QED BY <1>2, Constants

\* Packets that wait have different numbers.
LEMMA NumbersDiffer ==
    ASSUME NEW list, NEW t, NEW newest \in Int, Listed(list, t, newest), Len(list) <= MaxRecv + 1,
           NEW i \in 1 .. Len(list), NEW j \in 1 .. Len(list), list[i].seq = list[j].seq
    PROVE  i = j
<1>1. /\ t[i] \in Int /\ t[j] \in Int /\ t[i] % SeqSpace = t[j] % SeqSpace
      /\ t[i] <= newest /\ t[j] <= newest
      /\ (i < j => t[i] < t[j]) /\ (j < i => t[j] < t[i])
  BY DEF Listed
<1>2. newest - SeqSpace \div 2 < t[i] /\ newest - SeqSpace \div 2 < t[j]
  BY Near
<1>3. t[i] = t[j]
  BY <1>1, <1>2, Constants, ModUnique
<1> QED BY <1>1, <1>3

\* The distance from base to the first packet that waits.
Lead(list, base) == (list[1].seq - base) % SeqSpace

\* The places count on from the first packet's as the packets do.
LEMMA PlacesAre ==
    ASSUME NEW list, NEW t, NEW newest \in Int, Listed(list, t, newest), Len(list) <= MaxRecv + 1,
           NEW base \in Space
    PROVE  \A i \in 1 .. Len(list) : Places(list, base)[i] = Lead(list, base) + (t[i] - t[1])
<1> DEFINE Rec(f) == f = [i \in 1 .. Len(list) |->
                            IF i = 1 THEN (list[1].seq - base) % SeqSpace
                            ELSE f[i - 1] + ((list[i].seq - list[i - 1].seq) % SeqSpace)]
           place == CHOOSE f : Rec(f)
           sol == [i \in 1 .. Len(list) |-> Lead(list, base) + (t[i] - t[1])]
           n == Len(list)
<1>1. Places(list, base) = place
  BY DEF Places
<1>2. /\ n \in Nat /\ \A i \in 1 .. n : t[i] \in Int /\ list[i].seq = t[i] % SeqSpace
  BY DEF Listed
<1>3. ASSUME NEW i \in 1 .. n, i # 1 PROVE (list[i].seq - list[i - 1].seq) % SeqSpace = t[i] - t[i - 1]
  <2>1. i \in 1 .. Len(list) /\ i - 1 \in 1 .. Len(list) /\ i - 1 < i
    BY <1>2, <1>3
  <2>2. /\ t[i - 1] < t[i] /\ t[i] <= newest
        /\ t[i] \in Int /\ t[i - 1] \in Int
        /\ list[i].seq = t[i] % SeqSpace /\ list[i - 1].seq = t[i - 1] % SeqSpace
    BY <2>1, <1>2 DEF Listed
  <2>3. newest - SeqSpace \div 2 < t[i - 1]
    BY <2>1, Near
  <2>4. t[i - 1] <= t[i] /\ t[i] - t[i - 1] < SeqSpace
    BY <2>2, <2>3, Constants
  <2> QED BY <2>2, <2>4, WrappedDistance
<1>4. n # 0 => Lead(list, base) \in Int
  <2>1. SUFFICES ASSUME n # 0 PROVE Lead(list, base) \in Int
    OBVIOUS
  <2> DEFINE x == list[1].seq - base
  <2>2. 1 \in 1 .. n
    BY <1>2, <2>1
  <2>3. t[1] % SeqSpace \in Int /\ list[1].seq = t[1] % SeqSpace
    <3>1. t[1] \in Int /\ list[1].seq = t[1] % SeqSpace
      BY <1>2, <2>2
    <3>2. t[1] % SeqSpace \in Space
      BY <3>1, NumberIn, Zenon
    <3> QED BY <3>1, <3>2 DEF Space
  <2>4. x \in Int /\ Lead(list, base) = x % SeqSpace
    BY <2>3 DEF Space, Lead
  <2> HIDE DEF x
  <2>5. x % SeqSpace \in Int
    BY <2>4, NumberIn DEF Space
  <2> QED BY <2>4, <2>5
<1>5. \A i \in 1 .. n : sol[i] = IF i = 1 THEN (list[1].seq - base) % SeqSpace
                                  ELSE sol[i - 1] + ((list[i].seq - list[i - 1].seq) % SeqSpace)
  <2> SUFFICES ASSUME NEW i \in 1 .. n
               PROVE  sol[i] = IF i = 1 THEN (list[1].seq - base) % SeqSpace
                                ELSE sol[i - 1] + ((list[i].seq - list[i - 1].seq) % SeqSpace)
    OBVIOUS
  <2>1. CASE i = 1
    BY <1>2, <1>4, <2>1 DEF Lead
  <2>2. CASE i # 1
    <3>1. i - 1 \in 1 .. n /\ t[i] \in Int /\ t[i - 1] \in Int /\ t[1] \in Int
      BY <1>2, <2>2
    <3>2. sol[i] = Lead(list, base) + (t[i] - t[1]) /\ sol[i - 1] = Lead(list, base) + (t[i - 1] - t[1])
      BY <3>1
    <3> HIDE DEF sol
    <3> QED BY <1>3, <1>4, <2>2, <3>1, <3>2
  <2> QED BY <2>1, <2>2
<1>6. Rec(sol)
  <2>1. sol = [i \in 1 .. n |-> sol[i]]
    OBVIOUS
  <2> HIDE DEF sol
  <2> QED BY <1>5, <2>1
<1>7. Rec(place)
  <2> HIDE DEF Rec
  <2> QED BY <1>6
<1> HIDE DEF place, sol
<1>8. \A i \in 1 .. n : place[i] = IF i = 1 THEN (list[1].seq - base) % SeqSpace
                                    ELSE place[i - 1] + ((list[i].seq - list[i - 1].seq) % SeqSpace)
  BY <1>7
<1> DEFINE Ok == { i \in 0 .. n : i # 0 => place[i] = sol[i] }
<1>9. 0 \in Ok /\ \A i \in 1 .. n : i - 1 \in Ok => i \in Ok
  BY <1>2, <1>5, <1>8
<1>10. \A i \in 0 .. n : i \in Ok
  <2> HIDE DEF Ok
  <2> QED BY <1>2, <1>9, UpTo
<1>11. \A i \in 1 .. n : place[i] = sol[i]
  BY <1>2, <1>10
<1> QED BY <1>1, <1>11 DEF sol

\* Counting on from base, the status in a packet's place is the packet's.
LEMMA PlaceIsNumber ==
    ASSUME NEW list, NEW t, NEW newest \in Int, Listed(list, t, newest), Len(list) <= MaxRecv + 1,
           NEW base \in Space, NEW i \in 1 .. Len(list)
    PROVE  /\ Lead(list, base) \in Space
           /\ (base + (Lead(list, base) + (t[i] - t[1]))) % SeqSpace = list[i].seq
<1> DEFINE x == list[1].seq - base
           y == t[i] - t[1]
<1>1. /\ 1 \in 1 .. Len(list) /\ t[1] \in Int /\ t[i] \in Int /\ base \in Int
      /\ list[1].seq = t[1] % SeqSpace /\ list[i].seq = t[i] % SeqSpace
  BY DEF Listed, Space
<1>2. x \in Int /\ y \in Int /\ base + y \in Int /\ t[1] % SeqSpace \in Int
  BY <1>1, NumberIn DEF Space
<1>3. Lead(list, base) = x % SeqSpace /\ x % SeqSpace \in Space /\ x % SeqSpace \in Int
  <2>1. Lead(list, base) = x % SeqSpace
    BY DEF Lead
  <2> HIDE DEF x
  <2>2. x % SeqSpace \in Space
    BY <1>2, NumberIn
  <2> QED BY <2>1, <2>2 DEF Space
<1>4. ((x % SeqSpace) + (base + y)) % SeqSpace = (x + (base + y)) % SeqSpace
  BY <1>2, Constants, ModPlus
<1>5. x + (base + y) = (t[1] % SeqSpace) + y
  BY <1>1, <1>2
<1>6. ((t[1] % SeqSpace) + y) % SeqSpace = (t[1] + y) % SeqSpace
  BY <1>1, <1>2, Constants, ModPlus
<1>7. t[1] + y = t[i]
  BY <1>1
<1>8. base + ((x % SeqSpace) + y) = (x % SeqSpace) + (base + y)
  BY <1>1, <1>2, <1>3
<1> QED BY <1>1, <1>3, <1>4, <1>5, <1>6, <1>7, <1>8

-----------------------------------------------------------------------------
\* A set of positions without gaps from the first one is as large as its last position.
LEMMA PrefixCount ==
    ASSUME NEW n \in Nat, NEW P \in SUBSET (1 .. n), \A i, j \in 1 .. n : j \in P /\ i < j => i \in P
    PROVE  Cardinality(P) \in 0 .. n /\ P = 1 .. Cardinality(P)
<1> DEFINE T == { k \in 0 .. n : k + 1 \notin P }
<1>1. T \in SUBSET Nat /\ n \in T
  OBVIOUS
<1>2. PICK x \in T : \A y \in T : x <= y
  BY <1>1, NatMin
<1>3. x \in 0 .. n /\ x + 1 \notin P
  BY <1>2
<1>4. ASSUME NEW i \in 1 .. x PROVE i \in P
  <2>1. i - 1 \in 0 .. n /\ ~(x <= i - 1)
    BY <1>3
  <2>2. i - 1 \notin T
    BY <1>2, <2>1
  <2> QED BY <2>1, <2>2
<1>5. ASSUME NEW j \in P PROVE j \in 1 .. x
  <2>1. j \in 1 .. n
    OBVIOUS
  <2>2. CASE x < j
    <3>1. x + 1 \in 1 .. n /\ (x + 1 < j \/ x + 1 = j)
      BY <1>3, <2>1, <2>2
    <3> QED BY <1>3, <2>1, <3>1
  <2> QED BY <1>3, <2>1, <2>2
<1>6. P = 1 .. x
  BY <1>4, <1>5
<1>7. Cardinality(P) = x
  BY <1>3, <1>6, FS_Interval
<1> QED BY <1>3, <1>6, <1>7

\* The smaller of two numbers.
LEMMA MinIs == ASSUME NEW a \in Int, NEW b \in Int PROVE Min({a, b}) = IF a <= b THEN a ELSE b
<1> DEFINE m == IF a <= b THEN a ELSE b
<1>1. m \in {a, b} /\ \A y \in {a, b} : m <= y
  OBVIOUS
<1>2. \A x \in {a, b} : (\A y \in {a, b} : x <= y) => x = m
  OBVIOUS
<1> HIDE DEF m
<1>3. (CHOOSE x \in {a, b} : \A y \in {a, b} : x <= y) = m
  BY <1>1, <1>2
<1> QED BY <1>3 DEF Min, m

\* The larger of two numbers.
LEMMA MaxIs == ASSUME NEW a \in Int, NEW b \in Int PROVE Max({a, b}) = IF a <= b THEN b ELSE a
<1> DEFINE m == IF a <= b THEN b ELSE a
<1>1. m \in {a, b} /\ \A y \in {a, b} : m >= y
  OBVIOUS
<1>2. \A x \in {a, b} : (\A y \in {a, b} : x >= y) => x = m
  OBVIOUS
<1> HIDE DEF m
<1>3. (CHOOSE x \in {a, b} : \A y \in {a, b} : x >= y) = m
  BY <1>1, <1>2
<1> QED BY <1>3 DEF Max, m

\* The chunks give back every status that was put into them.
LEMMA ChunksDecode ==
    ASSUME NEW packets, NEW fb, fb.chunks = StatusChunks(packets), Len(packets) \in Nat,
           NEW k \in 1 .. Len(packets)
    PROVE  Symbol(fb, k) = packets[k].status
<1> DEFINE n == Len(packets)
           q == (k - 1) \div ChunkSyms
           r == (k - 1) % ChunkSyms
           c == (n + ChunkSyms - 1) \div ChunkSyms
           e == (n + ChunkSyms - 1) % ChunkSyms
<1>1. /\ q \in Int /\ r \in 0 .. ChunkSyms - 1 /\ k - 1 = ChunkSyms * q + r
      /\ c \in Int /\ e \in 0 .. ChunkSyms - 1 /\ n + ChunkSyms - 1 = ChunkSyms * c + e
  <2>1. k - 1 \in Int /\ n + ChunkSyms - 1 \in Int
    BY Constants
  <2> QED BY <2>1, Constants, DivMod
<1>2. Symbol(fb, k) = StatusChunks(packets)[q + 1][r + 1]
  BY DEF Symbol
<1> DEFINE word(p, j) == IF (p - 1) * ChunkSyms + j <= n THEN packets[(p - 1) * ChunkSyms + j].status
                         ELSE "not_received"
<1>3. \A p \in 1 .. c : \A j \in 1 .. ChunkSyms : StatusChunks(packets)[p][j] = word(p, j)
  BY DEF StatusChunks
<1> HIDE DEF q, r, c, e
<1>4. q >= 0
  <2>1. CASE q < 0
    <3>1. ChunkSyms * q <= -ChunkSyms
      BY <1>1, <2>1, Constants
    <3> QED BY <1>1, <3>1, Constants
  <2> QED BY <1>1, <2>1
<1>5. q < c
  <2>1. CASE c <= q
    <3>1. ChunkSyms * c <= ChunkSyms * q
      BY <1>1, <2>1, Constants
    <3> QED BY <1>1, <3>1, Constants
  <2> QED BY <1>1, <2>1
<1>6. q + 1 \in 1 .. c /\ r + 1 \in 1 .. ChunkSyms
  BY <1>1, <1>4, <1>5, Constants
<1>7. (q + 1 - 1) * ChunkSyms + (r + 1) = k
  BY <1>1, Constants
<1>8. Symbol(fb, k) = word(q + 1, r + 1)
  BY <1>2, <1>3, <1>6, Zenon
<1>9. k <= n
  OBVIOUS
<1>10. word(q + 1, r + 1) = packets[k].status
  <2> DEFINE at == (q + 1 - 1) * ChunkSyms + (r + 1)
  <2>1. word(q + 1, r + 1) = IF at <= n THEN packets[at].status ELSE "not_received"
    BY <1>1, Constants DEF word, at
  <2>2. at = k
    BY <1>7
  <2> HIDE DEF at, word
  <2> QED BY <1>9, <2>1, <2>2
<1> QED BY <1>8, <1>10

-----------------------------------------------------------------------------
\* The parts of a report: its first number, how many statuses it has, how many
\* entries it covers, its reference time and what it says of each number.
Base(st) == IF st.count = 0 THEN st.recv[1].seq ELSE st.next
Size(st) == Min({MaxStatus, Places(st.recv, Base(st))[Len(st.recv)] + 1})
Used(st) == Consumed(st.recv, Places(st.recv, Base(st)), Size(st))
RefTime(st) == (st.recv[1].ts \div RefTicks) * RefTicks
Delta(st, i) == st.recv[i].ts - (IF i = 1 THEN RefTime(st) ELSE st.recv[i - 1].ts)
InPlace(st, k) == CHOOSE i \in 1 .. Len(st.recv) : Places(st.recv, Base(st))[i] = k - 1
Info(st, k) ==
    IF \E i \in 1 .. Len(st.recv) : Places(st.recv, Base(st))[i] = k - 1
    THEN [status |-> DeltaStatus(Delta(st, InPlace(st, k))), delta |-> Delta(st, InPlace(st, k))]
    ELSE [status |-> "not_received", delta |-> 0]
Packets(st) == [k \in 1 .. Size(st) |-> Info(st, k)]
Feedback(st) ==
    build_transport_cc(Base(st), Size(st), RefTime(st), (st.count + 1) % CountMod, Packets(st))

\* report in these terms.
LEMMA ReportIs ==
    ASSUME NEW st, st.recv # << >>
    PROVE  report(st) = [recv |-> SubSeq(st.recv, Used(st) + 1, Len(st.recv)),
                         next |-> (Base(st) + Size(st)) % SeqSpace,
                         count |-> (st.count + 1) % CountMod,
                         out |-> Append(st.out, Feedback(st))]
BY DEF report, Base, Size, Used, RefTime, Delta, InPlace, Info, Packets, Feedback

\* A status says received or how it is to be decoded, never both.
LEMMA ReceivedStatus == ASSUME NEW d PROVE DeltaStatus(d) # "not_received"
BY DEF DeltaStatus

\* How many statuses a report has, which entries it covers, and that each of
\* them stands in its packet's place; lead numbers precede the first one.
Shape(st, t, lead) ==
    /\ lead = Lead(st.recv, Base(st))
    /\ Base(st) \in Space /\ lead \in Space
    /\ \A i \in 1 .. Len(st.recv) : Places(st.recv, Base(st))[i] = lead + (t[i] - t[1])
    /\ Size(st) = IF MaxStatus <= lead + (t[Len(st.recv)] - t[1]) + 1 THEN MaxStatus
                  ELSE lead + (t[Len(st.recv)] - t[1]) + 1
    /\ Size(st) \in Nat \ {0}
    /\ Used(st) \in 0 .. Len(st.recv)
    /\ \A i \in 1 .. Len(st.recv) : i <= Used(st) <=> lead + (t[i] - t[1]) < Size(st)

\* Every report has this shape.
LEMMA ReportShape ==
    ASSUME NEW st, NEW t, NEW newest \in Int, Listed(st.recv, t, newest), Len(st.recv) \in 1 .. MaxRecv + 1,
           st.next \in Space
    PROVE  Shape(st, t, Lead(st.recv, Base(st)))
<1> DEFINE lead == Lead(st.recv, Base(st))
<1> DEFINE L == Len(st.recv)
           place == Places(st.recv, Base(st))
<1>1. /\ L \in Nat \ {0} /\ \A i \in 1 .. L : t[i] \in Int /\ st.recv[i].seq = t[i] % SeqSpace
      /\ \A i, j \in 1 .. L : i < j => t[i] < t[j]
  <2>1. L \in Nat \ {0}
    BY Constants
  <2>2. \A i \in 1 .. L : t[i] \in Int /\ st.recv[i].seq = t[i] % SeqSpace
    BY DEF Listed
  <2>3. \A i, j \in 1 .. L : i < j => t[i] < t[j]
    BY DEF Listed
  <2> QED BY <2>1, <2>2, <2>3
<1>2. Base(st) \in Space
  <2>1. st.recv[1].seq = t[1] % SeqSpace /\ t[1] \in Int
    BY <1>1
  <2>2. st.recv[1].seq \in Space
    BY <2>1, NumberIn, Zenon
  <2> QED BY <2>2 DEF Base
<1>3. \A i \in 1 .. L : place[i] = lead + (t[i] - t[1])
  BY <1>2, PlacesAre
<1>4. lead \in Space
  <2>1. 1 \in 1 .. Len(st.recv)
    OBVIOUS
  <2> QED BY <1>2, <2>1, PlaceIsNumber
<1>5. lead \in Int /\ lead >= 0 /\ t[L] \in Int /\ t[1] \in Int /\ t[1] <= t[L] /\ place[L] = lead + (t[L] - t[1])
  BY <1>1, <1>3, <1>4 DEF Space
<1> HIDE DEF place, L, lead
<1>6. Size(st) = Min({MaxStatus, place[L] + 1})
  BY DEF Size, place, L
<1>7. place[L] + 1 \in Int /\ MaxStatus \in Int
  BY <1>5, Constants
<1>8. Size(st) = IF MaxStatus <= place[L] + 1 THEN MaxStatus ELSE place[L] + 1
  BY <1>6, <1>7, MinIs
<1>9. Size(st) \in Nat \ {0}
  BY <1>5, <1>7, <1>8, Constants
<1> DEFINE P == { i \in 1 .. L : place[i] < Size(st) }
<1>10. Cardinality(P) \in 0 .. L /\ P = 1 .. Cardinality(P)
  <2>1. P \in SUBSET (1 .. L)
    OBVIOUS
  <2>2. ASSUME NEW i \in 1 .. L, NEW j \in 1 .. L, j \in P, i < j PROVE i \in P
    <3>1. t[i] < t[j] /\ t[i] \in Int /\ t[j] \in Int /\ place[i] = lead + (t[i] - t[1])
          /\ place[j] = lead + (t[j] - t[1]) /\ place[j] < Size(st)
      BY <1>1, <1>3, <2>2
    <3> QED BY <1>5, <1>9, <3>1
  <2> HIDE DEF P
  <2>3. L \in Nat
    BY <1>1
  <2> QED BY <2>1, <2>2, <2>3, PrefixCount
<1>11. Used(st) = Cardinality(P)
  BY DEF Used, Consumed, P, place, L
<1>12. ASSUME NEW i \in 1 .. L PROVE i <= Used(st) <=> lead + (t[i] - t[1]) < Size(st)
  <2>1. i \in P <=> i <= Used(st)
    BY <1>10, <1>11
  <2>2. i \in P <=> lead + (t[i] - t[1]) < Size(st)
    BY <1>3
  <2> QED BY <2>1, <2>2
<1> QED BY <1>2, <1>3, <1>4, <1>5, <1>8, <1>9, <1>10, <1>11, <1>12 DEF L, place, lead, Shape

\* What the remote side reads out of a report: the covered entries as received,
\* and as lost only numbers in whose place no entry is.
LEMMA FeedbackTells ==
    ASSUME NEW st, NEW t, NEW newest \in Int, Listed(st.recv, t, newest), Len(st.recv) \in 1 .. MaxRecv + 1,
           NEW lead, Shape(st, t, lead)
    PROVE  /\ ToldReceived(Feedback(st)) = {st.recv[i].seq : i \in 1 .. Used(st)}
           /\ \A x \in ToldLost(Feedback(st)) : \E p \in 0 .. Size(st) - 1 :
                 /\ x = (Base(st) + p) % SeqSpace
                 /\ \A i \in 1 .. Len(st.recv) : lead + (t[i] - t[1]) # p
<1>1. /\ Base(st) \in Space /\ lead \in Space /\ lead = Lead(st.recv, Base(st))
      /\ \A i \in 1 .. Len(st.recv) : Places(st.recv, Base(st))[i] = lead + (t[i] - t[1])
      /\ Size(st) \in Nat \ {0} /\ Used(st) \in 0 .. Len(st.recv)
      /\ \A i \in 1 .. Len(st.recv) : i <= Used(st) <=> lead + (t[i] - t[1]) < Size(st)
  BY DEF Shape
<1>2. /\ Len(st.recv) \in Nat \ {0}
      /\ \A i \in 1 .. Len(st.recv) : t[i] \in Int /\ st.recv[i].seq = t[i] % SeqSpace
      /\ \A i, j \in 1 .. Len(st.recv) : i < j => t[i] < t[j]
  <2>1. Len(st.recv) \in Nat \ {0}
    BY Constants
  <2>2. \A i \in 1 .. Len(st.recv) : t[i] \in Int /\ st.recv[i].seq = t[i] % SeqSpace
    BY DEF Listed
  <2>3. \A i, j \in 1 .. Len(st.recv) : i < j => t[i] < t[j]
    BY DEF Listed
  <2> QED BY <2>1, <2>2, <2>3
<1> DEFINE L == Len(st.recv)
           n == Size(st)
           fb == Feedback(st)
           packets == Packets(st)
           place == Places(st.recv, Base(st))
           At(k) == \E i \in 1 .. L : place[i] = k - 1
<1>3. fb.base_seq = Base(st) /\ fb.status_count = n /\ fb.chunks = StatusChunks(packets)
  BY DEF Feedback, build_transport_cc, tcc_build_packet_status
<1>4. Len(packets) = n /\ \A k \in 1 .. n : packets[k] = Info(st, k)
  BY <1>1 DEF Packets
<1> HIDE DEF fb, packets
<1>5. ASSUME NEW k \in 1 .. n PROVE Symbol(fb, k) # "not_received" <=> At(k)
  <2>1. Len(packets) \in Nat /\ k \in 1 .. Len(packets)
    BY <1>1, <1>4
  <2>2. Symbol(fb, k) = packets[k].status
    BY <1>3, <2>1, ChunksDecode, Zenon
  <2>3. packets[k] = Info(st, k)
    BY <1>4
  <2>4. CASE At(k)
    <3>1. Info(st, k).status = DeltaStatus(Delta(st, InPlace(st, k)))
      BY <2>4 DEF Info
    <3> QED BY <2>2, <2>3, <2>4, <3>1, ReceivedStatus
  <2>5. CASE ~At(k)
    <3>1. Info(st, k).status = "not_received"
      BY <2>5 DEF Info
    <3> QED BY <2>2, <2>3, <2>5, <3>1
  <2> QED BY <2>4, <2>5
<1>6. \A k : NumberOf(fb, k) = (Base(st) + k - 1) % SeqSpace
  BY <1>3 DEF NumberOf
<1>7. ASSUME NEW x \in ToldReceived(fb) PROVE x \in {st.recv[i].seq : i \in 1 .. Used(st)}
  <2>1. PICK k \in 1 .. n : Symbol(fb, k) # "not_received" /\ x = NumberOf(fb, k)
    BY <1>3 DEF ToldReceived
  <2>2. PICK i \in 1 .. L : place[i] = k - 1
    BY <1>5, <2>1
  <2>3. lead + (t[i] - t[1]) = k - 1 /\ k - 1 < n
    BY <1>1, <2>1, <2>2
  <2>4. i \in 1 .. Used(st)
    BY <1>1, <2>3
  <2>5. (Base(st) + (lead + (t[i] - t[1]))) % SeqSpace = st.recv[i].seq
    BY <1>1, PlaceIsNumber
  <2>6. Base(st) + k - 1 = Base(st) + (lead + (t[i] - t[1]))
    <3>1. Base(st) \in Int
      BY <1>1 DEF Space
    <3> QED BY <2>1, <2>3, <3>1
  <2> QED BY <1>6, <2>1, <2>4, <2>5, <2>6
<1>8. ASSUME NEW i \in 1 .. Used(st) PROVE st.recv[i].seq \in ToldReceived(fb)
  <2> DEFINE k == lead + (t[i] - t[1]) + 1
  <2>1. i \in 1 .. L /\ 1 \in 1 .. L
    BY <1>1, <1>2
  <2>2. t[i] \in Int /\ t[1] \in Int /\ t[1] <= t[i] /\ lead \in Int /\ 0 <= lead /\ Base(st) \in Int
    BY <1>1, <1>2, <2>1 DEF Space
  <2>3. lead + (t[i] - t[1]) < n
    BY <1>1, <2>1
  <2>4. k \in 1 .. n /\ k - 1 = lead + (t[i] - t[1]) /\ Base(st) + k - 1 = Base(st) + (lead + (t[i] - t[1]))
    BY <1>1, <2>2, <2>3
  <2> HIDE DEF k
  <2>5. place[i] = k - 1
    BY <1>1, <2>1, <2>4
  <2>6. Symbol(fb, k) # "not_received"
    BY <1>5, <2>1, <2>4, <2>5
  <2>7. NumberOf(fb, k) = st.recv[i].seq
    BY <1>1, <1>6, <2>1, <2>4, PlaceIsNumber
  <2> QED BY <1>3, <2>4, <2>6, <2>7 DEF ToldReceived
<1>9. ASSUME NEW x \in ToldLost(fb)
      PROVE  \E p \in 0 .. n - 1 : /\ x = (Base(st) + p) % SeqSpace
                                   /\ \A i \in 1 .. L : lead + (t[i] - t[1]) # p
  <2>1. PICK k \in 1 .. n : Symbol(fb, k) = "not_received" /\ x = NumberOf(fb, k)
    BY <1>3 DEF ToldLost
  <2>2. \A i \in 1 .. L : place[i] # k - 1
    BY <1>5, <2>1
  <2>3. \A i \in 1 .. L : lead + (t[i] - t[1]) # k - 1
    BY <1>1, <2>2
  <2>4. Base(st) \in Int
    BY <1>1 DEF Space
  <2>5. k - 1 \in 0 .. n - 1 /\ Base(st) + k - 1 = Base(st) + (k - 1)
    BY <1>1, <2>1, <2>4
  <2>6. x = (Base(st) + (k - 1)) % SeqSpace
    BY <1>6, <2>1, <2>5
  <2> QED BY <2>3, <2>5, <2>6
<1>10. ToldReceived(fb) = {st.recv[i].seq : i \in 1 .. Used(st)}
  BY <1>7, <1>8
<1> QED BY <1>9, <1>10 DEF n, fb

-----------------------------------------------------------------------------
\* What is left of a list when its first u entries are dropped.
LEMMA RestOf ==
    ASSUME NEW S, NEW list \in Seq(S), NEW u \in 0 .. Len(list)
    PROVE  /\ SubSeq(list, u + 1, Len(list)) \in Seq(S)
           /\ Len(SubSeq(list, u + 1, Len(list))) = Len(list) - u
           /\ \A i \in 1 .. Len(list) - u : SubSeq(list, u + 1, Len(list))[i] = list[i + u]
<1> DEFINE n == Len(list)
           rest == SubSeq(list, u + 1, n)
<1>1. n \in Nat /\ u \in Nat /\ u <= n /\ u + 1 \in Int
  OBVIOUS
<1>2. \A i \in u + 1 .. n : list[i] \in S
  BY <1>1, ElementOfSeq
<1>3. /\ rest \in Seq(S)
      /\ Len(rest) = IF u + 1 <= n THEN n - (u + 1) + 1 ELSE 0
      /\ \A i \in 1 .. n - (u + 1) + 1 : rest[i] = list[u + 1 + i - 1]
  <2> HIDE DEF n
  <2> QED BY <1>1, <1>2, SubSeqProperties
<1> HIDE DEF rest, n
<1>4. Len(rest) = n - u
  BY <1>1, <1>3
<1>5. \A i \in 1 .. n - u : rest[i] = list[i + u]
  BY <1>1, <1>3
<1> QED BY <1>3, <1>4, <1>5 DEF rest, n

\* The packets that wait behind the first u.
Behind(list, t, u) == [i \in 1 .. Len(list) - u |-> t[i + u]]

\* The packets behind those a report covers still wait in order and near the newest.
LEMMA RestListed ==
    ASSUME NEW list, NEW t, NEW newest \in Int, Listed(list, t, newest), NEW u \in 0 .. Len(list)
    PROVE  Listed(SubSeq(list, u + 1, Len(list)), Behind(list, t, u), newest)
<1> DEFINE n == Len(list)
           rest == SubSeq(list, u + 1, n)
           t2 == Behind(list, t, u)
<1>1. list \in Seq(Entries) /\ n \in Nat /\ u \in Nat /\ u <= n
  BY DEF Listed
<1>2. /\ rest \in Seq(Entries) /\ Len(rest) = n - u
      /\ \A i \in 1 .. n - u : rest[i] = list[i + u]
  BY <1>1, RestOf
<1>3. /\ \A i \in 1 .. n : t[i] \in Int /\ list[i].seq = t[i] % SeqSpace
      /\ \A i, j \in 1 .. n : i < j => t[i] < t[j]
      /\ \A i \in 1 .. n : t[i] <= newest /\ newest - Reorder - 2 * (n - i) <= t[i]
  BY DEF Listed
<1>4. t2 = [i \in 1 .. n - u |-> t[i + u]]
  BY DEF Behind
<1> HIDE DEF rest, n, t2
<1>5. \A i \in 1 .. n - u : i + u \in 1 .. n /\ t2[i] = t[i + u]
  BY <1>1, <1>4
<1>6. t2 \in [1 .. Len(rest) -> Int]
  BY <1>2, <1>3, <1>4, <1>5
<1>7. \A i \in 1 .. Len(rest) : rest[i].seq = t2[i] % SeqSpace
  BY <1>2, <1>3, <1>5
<1>8. \A i, j \in 1 .. Len(rest) : i < j => t2[i] < t2[j]
  <2> SUFFICES ASSUME NEW i \in 1 .. Len(rest), NEW j \in 1 .. Len(rest), i < j PROVE t2[i] < t2[j]
    OBVIOUS
  <2>1. i + u < j + u /\ i + u \in 1 .. n /\ j + u \in 1 .. n /\ t2[i] = t[i + u] /\ t2[j] = t[j + u]
    BY <1>1, <1>2, <1>5
  <2> QED BY <1>3, <2>1
<1>9. \A i \in 1 .. Len(rest) : t2[i] <= newest /\ newest - Reorder - 2 * (Len(rest) - i) <= t2[i]
  <2> SUFFICES ASSUME NEW i \in 1 .. Len(rest)
               PROVE  t2[i] <= newest /\ newest - Reorder - 2 * (Len(rest) - i) <= t2[i]
    OBVIOUS
  <2>1. i + u \in 1 .. n /\ t2[i] = t[i + u] /\ Len(rest) - i = n - (i + u)
    BY <1>1, <1>2, <1>5
  <2> QED BY <1>3, <2>1
<1> QED BY <1>2, <1>6, <1>7, <1>8, <1>9 DEF Listed, rest, n, t2

\* The list with e put in at position at.
LEMMA InsertedAt ==
    ASSUME NEW S, NEW list \in Seq(S), NEW at \in 1 .. Len(list) + 1, NEW e \in S
    PROVE  /\ InsertAt(list, at, e) \in Seq(S)
           /\ Len(InsertAt(list, at, e)) = Len(list) + 1
           /\ \A i \in 1 .. Len(list) + 1 :
                 InsertAt(list, at, e)[i] = IF i < at THEN list[i] ELSE IF i = at THEN e ELSE list[i - 1]
<1> DEFINE n == Len(list)
           a == SubSeq(list, 1, at - 1)
           b == << e >>
           c == SubSeq(list, at, n)
<1>1. n \in Nat /\ at \in Int /\ at - 1 \in Int /\ 1 <= at /\ at <= n + 1 /\ \A i \in 1 .. n : list[i] \in S
  BY ElementOfSeq
<1>2. a \in Seq(S) /\ Len(a) = at - 1 /\ \A i \in 1 .. at - 1 : a[i] = list[i]
  <2>1. \A i \in 1 .. at - 1 : list[i] \in S
    BY <1>1
  <2>2. /\ a \in Seq(S) /\ Len(a) = (IF 1 <= at - 1 THEN at - 1 - 1 + 1 ELSE 0)
        /\ \A i \in 1 .. at - 1 - 1 + 1 : a[i] = list[1 + i - 1]
    BY <1>1, <2>1, SubSeqProperties
  <2> HIDE DEF a
  <2> QED BY <1>1, <2>2
<1>3. c \in Seq(S) /\ Len(c) = n - at + 1 /\ \A i \in 1 .. n - at + 1 : c[i] = list[at + i - 1]
  <2>1. \A i \in at .. n : list[i] \in S
    BY <1>1
  <2>2. /\ c \in Seq(S) /\ Len(c) = (IF at <= n THEN n - at + 1 ELSE 0)
        /\ \A i \in 1 .. n - at + 1 : c[i] = list[at + i - 1]
    <3> HIDE DEF n
    <3> QED BY <1>1, <2>1, SubSeqProperties
  <2> HIDE DEF c, n
  <2> QED BY <1>1, <2>2
<1>4. b \in Seq(S) /\ Len(b) = 1 /\ b[1] = e
  OBVIOUS
<1>5. InsertAt(list, at, e) = (a \o b) \o c
  BY DEF InsertAt
<1> HIDE DEF a, b, c, n
<1>6. /\ a \o b \in Seq(S) /\ Len(a \o b) = at
      /\ \A i \in 1 .. at : (a \o b)[i] = IF i < at THEN list[i] ELSE e
  <2>1. /\ a \o b \in Seq(S) /\ Len(a \o b) = Len(a) + Len(b)
        /\ \A i \in 1 .. Len(a) + Len(b) : (a \o b)[i] = IF i <= Len(a) THEN a[i] ELSE b[i - Len(a)]
    BY <1>2, <1>4, ConcatProperties
  <2>2. Len(a) + Len(b) = at
    BY <1>1, <1>2, <1>4
  <2>3. ASSUME NEW i \in 1 .. at PROVE (a \o b)[i] = IF i < at THEN list[i] ELSE e
    <3>1. CASE i < at
      <4>1. i \in 1 .. at - 1 /\ i <= Len(a) /\ i \in 1 .. Len(a) + Len(b)
        BY <1>1, <1>2, <2>2, <3>1
      <4> QED BY <1>2, <2>1, <3>1, <4>1
    <3>2. CASE i = at
      <4>1. ~(i <= Len(a)) /\ i - Len(a) = 1 /\ i \in 1 .. Len(a) + Len(b)
        BY <1>1, <1>2, <2>2, <3>2
      <4> QED BY <1>4, <2>1, <3>2, <4>1
    <3>3. i < at \/ i = at
      BY <1>1
    <3> QED BY <3>1, <3>2, <3>3
  <2> QED BY <2>1, <2>2, <2>3
<1> DEFINE d == a \o b
<1>7. /\ d \o c \in Seq(S) /\ Len(d \o c) = n + 1
      /\ \A i \in 1 .. n + 1 : (d \o c)[i] = IF i <= at THEN d[i] ELSE list[i - 1]
  <2>1. d \in Seq(S) /\ Len(d) = at
    BY <1>6
  <2> HIDE DEF d
  <2>2. /\ d \o c \in Seq(S) /\ Len(d \o c) = Len(d) + Len(c)
        /\ \A i \in 1 .. Len(d) + Len(c) : (d \o c)[i] = IF i <= Len(d) THEN d[i] ELSE c[i - Len(d)]
    BY <2>1, <1>3, ConcatProperties
  <2>3. Len(d) + Len(c) = n + 1
    BY <1>1, <1>3, <2>1
  <2>4. ASSUME NEW i \in 1 .. n + 1, ~(i <= at) PROVE c[i - at] = list[i - 1]
    <3>1. i - at \in 1 .. n - at + 1 /\ at + (i - at) - 1 = i - 1
      BY <1>1, <2>4
    <3> QED BY <1>3, <3>1
  <2> QED BY <2>1, <2>2, <2>3, <2>4
<1>8. \A i \in 1 .. n + 1 : (d \o c)[i] = IF i < at THEN list[i] ELSE IF i = at THEN e ELSE list[i - 1]
  <2> SUFFICES ASSUME NEW i \in 1 .. n + 1
               PROVE  (d \o c)[i] = IF i < at THEN list[i] ELSE IF i = at THEN e ELSE list[i - 1]
    OBVIOUS
  <2>1. CASE i <= at
    <3>1. i \in 1 .. at /\ (d \o c)[i] = d[i]
      <4> HIDE DEF d
      <4> QED BY <1>1, <1>7, <2>1
    <3>2. d[i] = IF i < at THEN list[i] ELSE e
      BY <1>6, <3>1
    <3> HIDE DEF d
    <3> QED BY <1>1, <2>1, <3>1, <3>2
  <2>2. CASE ~(i <= at)
    <3> HIDE DEF d
    <3> QED BY <1>1, <1>7, <2>2
  <2> QED BY <2>1, <2>2
<1> QED BY <1>5, <1>7, <1>8 DEF n, d

\* The packets that wait.
Waiting(list, t) == {t[i] : i \in 1 .. Len(list)}

\* A packet that arrives waits afterwards, in its place, whether it waited already or not.
LEMMA InsertListed ==
    ASSUME NEW list, NEW t, NEW newest \in Int, Listed(list, t, newest), Len(list) <= MaxRecv,
           NEW n \in Int, newest - Reorder <= n, n <= newest + 2, NEW now \in Int,
           NEW after, after = Insert(list, [seq |-> n % SeqSpace, ts |-> now]),
           NEW top2, top2 = Max({newest, n})
    PROVE  \E t2 : /\ Listed(after, t2, top2)
                   /\ Len(after) <= Len(list) + 1
                   /\ top2 - 2 * Len(after) <= newest - 2 * Len(list)
                   /\ Waiting(after, t2) = Waiting(list, t) \cup {n}
<1> DEFINE L == Len(list)
           e == [seq |-> n % SeqSpace, ts |-> now]
           P == { i \in 1 .. L : SeqBefore(list[i].seq, e.seq) }
           at == Cardinality(P) + 1
<1>1. list \in Seq(Entries) /\ L \in Nat /\ t \in [1 .. L -> Int]
  BY DEF Listed
<1>2. /\ \A i \in 1 .. L : t[i] \in Int /\ list[i].seq = t[i] % SeqSpace
      /\ \A i, j \in 1 .. L : i < j => t[i] < t[j]
      /\ \A i \in 1 .. L : t[i] <= newest /\ newest - Reorder - 2 * (L - i) <= t[i]
  BY DEF Listed
<1>3. top2 = IF newest <= n THEN n ELSE newest
  BY MaxIs
<1>4. e \in Entries /\ e.seq = n % SeqSpace
  BY NumberIn DEF Entries
<1>5. after = IF at <= L /\ list[at].seq = e.seq THEN list ELSE InsertAt(list, at, e)
  BY DEF Insert
<1> HIDE DEF L, e
<1>6. ASSUME NEW i \in 1 .. L PROVE t[i] - n < SeqSpace \div 2 /\ n - t[i] < SeqSpace \div 2
  <2>1. t[i] \in Int /\ t[i] <= newest /\ newest - Reorder - 2 * (L - i) <= t[i] /\ i >= 1 /\ L <= MaxRecv
    BY <1>1, <1>2 DEF L
  <2>2. t[i] - n <= Reorder /\ n - t[i] <= Reorder + 2 * MaxRecv
    <3>1. Reorder \in Int /\ MaxRecv \in Int /\ i \in Int /\ L \in Int
      BY <1>1, Constants
    <3> QED BY <2>1, <3>1
  <2>3. Reorder < SeqSpace \div 2 /\ Reorder + 2 * MaxRecv < SeqSpace \div 2
    BY Constants
  <2> QED BY <1>1, <2>1, <2>2, <2>3, Constants
<1>7. ASSUME NEW i \in 1 .. L PROVE i \in P <=> t[i] < n
  <2>1. t[i] \in Int /\ list[i].seq = t[i] % SeqSpace
    BY <1>2
  <2>2. SeqBefore(t[i] % SeqSpace, n % SeqSpace) <=> t[i] < n
    BY <1>6, <2>1, BeforeIsLess
  <2> QED BY <1>4, <2>1, <2>2
<1>8. Cardinality(P) \in 0 .. L /\ P = 1 .. Cardinality(P)
  <2>1. P \in SUBSET (1 .. L)
    OBVIOUS
  <2>2. ASSUME NEW i \in 1 .. L, NEW j \in 1 .. L, j \in P, i < j PROVE i \in P
    <3>1. t[i] \in Int /\ t[j] \in Int /\ t[i] < t[j]
      BY <1>2, <2>2
    <3>2. t[j] < n
      BY <1>7, <2>2
    <3> QED BY <1>7, <3>1, <3>2
  <2> HIDE DEF P
  <2> QED BY <1>1, <2>1, <2>2, PrefixCount
<1>9. at \in 1 .. L + 1 /\ \A i \in 1 .. L : i < at <=> t[i] < n
  <2> HIDE DEF P
  <2> QED BY <1>1, <1>7, <1>8
<1> HIDE DEF at
<1>10. CASE at <= L /\ list[at].seq = e.seq
  <2>1. after = list
    BY <1>5, <1>10
  <2>2. at \in 1 .. L
    BY <1>1, <1>9, <1>10
  <2>3. t[at] \in Int /\ ~(t[at] < n) /\ t[at] % SeqSpace = n % SeqSpace /\ t[at] <= newest
    BY <1>1, <1>2, <1>4, <1>9, <1>10, <2>2
  <2>4. t[at] = n
    <3>1. t[at] - n < SeqSpace /\ n - t[at] < SeqSpace
      <4>1. t[at] - n < SeqSpace \div 2 /\ n - t[at] < SeqSpace \div 2
        BY <1>6, <2>2
      <4>2. SeqSpace \div 2 <= SeqSpace /\ SeqSpace \div 2 \in Int /\ SeqSpace \in Int
        BY Constants
      <4> HIDE DEF at
      <4> QED BY <2>3, <4>1, <4>2
    <3> QED BY <2>3, <3>1, ModUnique, Constants
  <2>5. top2 = newest
    BY <1>3, <2>3, <2>4
  <2>6. Waiting(list, t) = Waiting(list, t) \cup {n}
    BY <2>2, <2>4 DEF Waiting, L
  <2>7. Len(list) <= Len(list) + 1 /\ newest - 2 * Len(list) <= newest - 2 * Len(list)
    BY <1>1 DEF L
  <2> QED BY <2>1, <2>5, <2>6, <2>7
<1>11. CASE ~(at <= L /\ list[at].seq = e.seq)
  <2> DEFINE t2 == [i \in 1 .. L + 1 |-> IF i < at THEN t[i] ELSE IF i = at THEN n ELSE t[i - 1]]
  <2>1. after = InsertAt(list, at, e)
    BY <1>5, <1>11
  <2>2. /\ after \in Seq(Entries) /\ Len(after) = L + 1
        /\ \A i \in 1 .. L + 1 : after[i] = IF i < at THEN list[i] ELSE IF i = at THEN e ELSE list[i - 1]
    <3>1. at \in 1 .. Len(list) + 1
      BY <1>9 DEF L
    <3>2. /\ InsertAt(list, at, e) \in Seq(Entries)
          /\ Len(InsertAt(list, at, e)) = Len(list) + 1
          /\ \A i \in 1 .. Len(list) + 1 :
                InsertAt(list, at, e)[i] = IF i < at THEN list[i] ELSE IF i = at THEN e ELSE list[i - 1]
      <4>1. list \in Seq(Entries) /\ e \in Entries
        BY <1>1, <1>4
      <4> QED BY <3>1, <4>1, InsertedAt
    <3> QED BY <2>1, <3>2 DEF L
  <2>3. \A i \in 1 .. L + 1 : t2[i] = IF i < at THEN t[i] ELSE IF i = at THEN n ELSE t[i - 1]
    OBVIOUS
  <2>4. ASSUME NEW i \in 1 .. L + 1
        PROVE  \/ i < at /\ i \in 1 .. L /\ t2[i] = t[i] /\ after[i] = list[i] /\ t[i] < n
               \/ i = at /\ t2[i] = n /\ after[i] = e
               \/ at < i /\ i - 1 \in 1 .. L /\ t2[i] = t[i - 1] /\ after[i] = list[i - 1] /\ n < t[i - 1]
    <3>1. CASE i < at
      <4>1. i \in 1 .. L
        BY <1>1, <1>9, <3>1
      <4> QED BY <1>9, <2>2, <2>3, <3>1, <4>1
    <3>2. CASE i = at
      <4>1. ~(i < at)
        BY <1>9, <3>2
      <4> QED BY <2>2, <2>3, <3>2, <4>1
    <3>3. CASE at < i
      <4>1. i - 1 \in 1 .. L /\ at \in 1 .. L /\ ~(i - 1 < at) /\ ~(i < at) /\ i # at
        BY <1>1, <1>9, <3>3
      <4>2. ~(t[at] < n) /\ t[at] \in Int /\ t[i - 1] \in Int /\ (at < i - 1 => t[at] < t[i - 1])
        BY <1>2, <1>9, <4>1
      <4>3. t[at] # n
        <5>1. list[at].seq # e.seq /\ list[at].seq = t[at] % SeqSpace
          BY <1>2, <1>11, <4>1
        <5> QED BY <1>4, <5>1
      <4>4. n < t[i - 1]
        BY <1>9, <3>3, <4>1, <4>2, <4>3
      <4> QED BY <2>2, <2>3, <3>3, <4>1, <4>4
    <3> QED BY <1>9, <3>1, <3>2, <3>3
  <2>5. \A i \in 1 .. L + 1 : t2[i] \in Int
    BY <1>2, <2>4
  <2>6. t2 \in [1 .. Len(after) -> Int]
    <3>1. t2 = [i \in 1 .. L + 1 |-> t2[i]]
      OBVIOUS
    <3> HIDE DEF t2
    <3> QED BY <2>2, <2>5, <3>1
  <2> HIDE DEF t2
  <2>7. \A i \in 1 .. Len(after) : after[i].seq = t2[i] % SeqSpace
    BY <1>2, <1>4, <2>2, <2>4
  <2>8. \A i, j \in 1 .. Len(after) : i < j => t2[i] < t2[j]
    <3> SUFFICES ASSUME NEW i \in 1 .. L + 1, NEW j \in 1 .. L + 1, i < j PROVE t2[i] < t2[j]
      BY <2>2
    <3>1. CASE i < at
      <4>1. i \in 1 .. L /\ t2[i] = t[i] /\ t[i] < n /\ t[i] \in Int
        BY <1>2, <1>9, <2>4, <3>1
      <4>2. CASE j < at
        BY <1>2, <1>9, <2>4, <4>1, <4>2
      <4>3. CASE ~(j < at)
        <5>1. t2[j] = n \/ n < t2[j]
          BY <1>9, <2>4, <4>3
        <5> QED BY <2>5, <4>1, <5>1
      <4> QED BY <4>2, <4>3
    <3>2. CASE ~(i < at)
      <4>1. j - 1 \in 1 .. L /\ t2[j] = t[j - 1] /\ n < t[j - 1] /\ t[j - 1] \in Int
        BY <1>2, <1>9, <2>4, <3>2
      <4>2. CASE i = at
        BY <1>9, <2>4, <4>1, <4>2
      <4>3. CASE i # at
        <5>1. i - 1 \in 1 .. L /\ t2[i] = t[i - 1] /\ i - 1 < j - 1
          BY <1>9, <2>4, <3>2, <4>3
        <5> QED BY <1>2, <4>1, <5>1
      <4> QED BY <4>2, <4>3
    <3> QED BY <3>1, <3>2
  <2>9. \A i \in 1 .. Len(after) : t2[i] <= top2 /\ top2 - Reorder - 2 * (Len(after) - i) <= t2[i]
    <3> DEFINE len == Len(after)
    <3> SUFFICES ASSUME NEW i \in 1 .. len
                 PROVE  t2[i] <= top2 /\ top2 - Reorder - 2 * (len - i) <= t2[i]
      OBVIOUS
    <3>0. i \in 1 .. L + 1 /\ len = L + 1 /\ i \in Int /\ L \in Int
      BY <1>1, <2>2
    <3> HIDE DEF len
    <3>1. top2 \in Int /\ newest <= top2 /\ n <= top2 /\ top2 <= newest + 2 /\ (n < newest => top2 = newest)
          /\ (top2 = n \/ top2 = newest)
      BY <1>3
    <3>2. CASE i < at
      <4>1. i \in 1 .. L /\ t2[i] = t[i] /\ t[i] \in Int
        BY <1>2, <1>9, <2>4, <3>0, <3>2
      <4>2. t[i] <= newest /\ newest - Reorder - 2 * (L - i) <= t[i]
        BY <1>2, <4>1
      <4>3. Reorder \in Int /\ L \in Int /\ i \in Int /\ newest \in Int
        BY <1>1, <3>0, Constants
      <4>4. top2 - Reorder - 2 * (L + 1 - i) <= newest - Reorder - 2 * (L - i)
        BY <3>1, <4>3
      <4>5. t2[i] <= top2 /\ top2 - Reorder - 2 * (L + 1 - i) <= t2[i]
        BY <3>1, <4>1, <4>2, <4>3, <4>4
      <4> QED BY <1>1, <3>0, <3>1, <4>3, <4>5
    <3>3. CASE i = at
      <4>1. t2[i] = n
        BY <1>9, <2>4, <3>0, <3>3
      <4> QED BY <1>1, <3>0, <3>1, <4>1, Constants
    <3>4. CASE at < i
      <4>1. i - 1 \in 1 .. L /\ t2[i] = t[i - 1] /\ n < t[i - 1] /\ t[i - 1] \in Int
        <5>1. at \in Int /\ ~(i < at) /\ i # at
          BY <1>9, <3>0, <3>4
        <5>2. i - 1 \in 1 .. L /\ t2[i] = t[i - 1] /\ n < t[i - 1]
          <6> HIDE DEF at, t2, L
          <6> QED BY <2>4, <3>0, <5>1
        <5> QED BY <1>2, <5>2
      <4>2. t[i - 1] <= newest /\ newest - Reorder - 2 * (L - (i - 1)) <= t[i - 1]
        BY <1>2, <4>1
      <4>3. top2 = newest
        BY <3>1, <4>1, <4>2
      <4> QED BY <1>1, <3>0, <4>1, <4>2, <4>3, Constants
    <3> QED BY <1>9, <3>0, <3>2, <3>3, <3>4
  <2>10. Waiting(after, t2) = Waiting(list, t) \cup {n}
    <3>1. ASSUME NEW i \in 1 .. L + 1 PROVE t2[i] \in Waiting(list, t) \cup {n}
      BY <2>4 DEF Waiting, L
    <3>2. ASSUME NEW i \in 1 .. L PROVE t[i] \in Waiting(after, t2)
      <4>1. CASE i < at
        <5>1. i \in 1 .. L + 1
          BY <1>1
        <5>2. t2[i] = t[i]
          BY <2>3, <4>1, <5>1
        <5> QED BY <2>2, <5>1, <5>2 DEF Waiting
      <4>2. CASE ~(i < at)
        <5>1. i + 1 \in 1 .. L + 1 /\ ~(i + 1 < at) /\ i + 1 # at /\ i + 1 - 1 = i
          BY <1>1, <1>9, <4>2
        <5>2. t2[i + 1] = t[i]
          BY <2>3, <5>1
        <5> QED BY <2>2, <5>1, <5>2 DEF Waiting
      <4> QED BY <4>1, <4>2
    <3>3. n \in Waiting(after, t2)
      <4>1. t2[at] = n
        BY <1>9, <2>3
      <4> QED BY <1>9, <2>2, <4>1 DEF Waiting
    <3> QED BY <2>2, <3>1, <3>2, <3>3 DEF Waiting, L
  <2>11. Listed(after, t2, top2)
    BY <2>2, <2>6, <2>7, <2>8, <2>9 DEF Listed
  <2>12. Len(after) <= Len(list) + 1 /\ top2 - 2 * Len(after) <= newest - 2 * Len(list)
    <3>1. Len(after) = Len(list) + 1 /\ Len(list) \in Nat
      BY <1>1, <2>2 DEF L
    <3>2. top2 \in Int /\ top2 <= newest + 2
      BY <1>3
    <3> QED BY <3>1, <3>2
  <2> QED BY <2>10, <2>11, <2>12
<1> QED BY <1>10, <1>11

-----------------------------------------------------------------------------
\* The packets t wait in the state st and have arrived.
Settled(st, t, newest, arr) ==
    /\ Listed(st.recv, t, newest)
    /\ Waiting(st.recv, t) \subseteq arr
    /\ st.next \in Space
    /\ st.count \in 0 .. CountMod - 1

\* No report has been made: all that arrived waits.
NothingReported(st, t, arr) == st.count = 0 /\ arr \subseteq Waiting(st.recv, t)

\* The reports have come to N: what waits is not below N, what arrived below N has
\* been reported, one of them (w) not long ago.
ReportedTo(st, t, newest, arr, w, N) ==
    /\ w \in arr /\ N \in Int
    /\ st.next = N % SeqSpace /\ N <= newest + 1
    /\ w < N /\ newest - Reorder - 2 * Len(st.recv) <= w
    /\ \A m \in arr : m < N \/ m \in Waiting(st.recv, t)
    /\ \A m \in Waiting(st.recv, t) : N <= m

\* No packet has come after a report had passed its number.
InTime(st, t, newest, arr) ==
    NothingReported(st, t, arr) \/ \E w, N : ReportedTo(st, t, newest, arr, w, N)

\* The next report counts from N.
CountsFrom(st, t, newest, arr, N) ==
    /\ N \in Int /\ Base(st) = N % SeqSpace
    /\ N <= t[1] /\ newest - SeqSpace \div 2 <= N
    /\ \A m \in arr : m < N \/ m \in Waiting(st.recv, t)
    /\ \/ N = t[1]
       \/ \E w \in arr : w < N /\ newest - Reorder - 2 * Len(st.recv) <= w

\* While every packet comes in time, a report counts from a packet that is not
\* above the waiting ones.
LEMMA CountedFrom ==
    ASSUME NEW newest \in Int, NEW arr \in SUBSET Int, NEW st, NEW t,
           Settled(st, t, newest, arr), Len(st.recv) \in 1 .. MaxRecv + 1, InTime(st, t, newest, arr)
    PROVE  \E N : CountsFrom(st, t, newest, arr, N)
<1> DEFINE L == Len(st.recv)
<1>1. Listed(st.recv, t, newest) /\ 1 \in 1 .. Len(st.recv) /\ L \in Nat
  BY Constants DEF Settled
<1>2. /\ \A i \in 1 .. L : t[i] \in Int
      /\ \A i, j \in 1 .. L : i < j => t[i] < t[j]
      /\ st.recv[1].seq = t[1] % SeqSpace
  BY <1>1 DEF Listed
<1>3. newest - SeqSpace \div 2 < t[1] /\ t[1] \in Int
  BY <1>1, <1>2, Near
<1>4. \A m \in Waiting(st.recv, t) : t[1] <= m
  <2> SUFFICES ASSUME NEW i \in 1 .. L PROVE t[1] <= t[i]
    BY DEF Waiting
  <2>1. t[i] \in Int /\ (i = 1 \/ 1 < i)
    BY <1>1, <1>2
  <2> QED BY <1>1, <1>2, <1>3, <2>1
<1>5. SeqSpace \div 2 \in Int
  BY Constants
<1>6. CASE st.count = 0
  <2>1. Base(st) = t[1] % SeqSpace
    BY <1>2, <1>6 DEF Base
  <2>2. \A m \in arr : m < t[1] \/ m \in Waiting(st.recv, t)
    <3>1. CASE NothingReported(st, t, arr)
      BY <3>1 DEF NothingReported
    <3>2. CASE \E w, N : ReportedTo(st, t, newest, arr, w, N)
      <4>1. PICK w, N : ReportedTo(st, t, newest, arr, w, N)
        BY <3>2
      <4>2. /\ N \in Int /\ \A m \in arr : m < N \/ m \in Waiting(st.recv, t)
            /\ \A m \in Waiting(st.recv, t) : N <= m
        BY <4>1 DEF ReportedTo
      <4>3. t[1] \in Waiting(st.recv, t)
        BY <1>1 DEF Waiting
      <4> QED BY <1>3, <4>2, <4>3
    <3> QED BY <3>1, <3>2 DEF InTime
  <2>3. t[1] <= t[1] /\ newest - SeqSpace \div 2 <= t[1]
    BY <1>3, <1>5
  <2>4. CountsFrom(st, t, newest, arr, t[1])
    BY <1>3, <2>1, <2>2, <2>3 DEF CountsFrom
  <2> QED BY <2>4
<1>7. CASE st.count # 0
  <2>1. PICK w, N : ReportedTo(st, t, newest, arr, w, N)
    BY <1>7 DEF InTime, NothingReported
  <2>2. /\ w \in arr /\ N \in Int /\ w \in Int
        /\ st.next = N % SeqSpace
        /\ w < N /\ newest - Reorder - 2 * L <= w
        /\ \A m \in arr : m < N \/ m \in Waiting(st.recv, t)
        /\ \A m \in Waiting(st.recv, t) : N <= m
    BY <2>1 DEF ReportedTo
  <2>3. N <= t[1]
    BY <1>1, <2>2 DEF Waiting
  <2>4. newest - SeqSpace \div 2 <= N
    <3>1. L <= MaxRecv + 1 /\ MaxRecv \in Int /\ Reorder \in Int /\ Reorder + 2 * MaxRecv < SeqSpace \div 2
      BY Constants
    <3> QED BY <1>1, <1>5, <2>2, <3>1
  <2>5. Base(st) = N % SeqSpace
    BY <1>7, <2>2 DEF Base
  <2>6. CountsFrom(st, t, newest, arr, N)
    BY <2>2, <2>3, <2>4, <2>5 DEF CountsFrom
  <2> QED BY <2>6
<1> QED BY <1>6, <1>7

\* What a report does to the waiting packets.
LEMMA ReportSettles ==
    ASSUME NEW newest \in Int, NEW arr \in SUBSET Int, NEW st, NEW t,
           Settled(st, t, newest, arr), Len(st.recv) \in 1 .. MaxRecv + 1,
           NEW t2, t2 = Behind(st.recv, t, Used(st))
    PROVE  /\ Shape(st, t, Lead(st.recv, Base(st)))
           /\ Settled(report(st), t2, newest, arr)
           /\ Len(report(st).recv) = Len(st.recv) - Used(st)
           /\ Waiting(report(st).recv, t2) = {t[i] : i \in Used(st) + 1 .. Len(st.recv)}
           /\ report(st).next = (Base(st) + Size(st)) % SeqSpace
           /\ report(st).out = Append(st.out, Feedback(st))
<1> DEFINE L == Len(st.recv)
           u == Used(st)
           r == report(st)
<1>1. Listed(st.recv, t, newest) /\ st.next \in Space /\ Waiting(st.recv, t) \subseteq arr
  BY DEF Settled
<1>2. Shape(st, t, Lead(st.recv, Base(st)))
  BY <1>1, ReportShape
<1>3. u \in 0 .. L /\ Base(st) \in Int /\ Size(st) \in Int
  BY <1>2 DEF Shape, Space
<1>4. st.recv # << >> /\ st.recv \in Seq(Entries) /\ L \in Nat
  BY <1>1 DEF Listed
<1>5. /\ r.recv = SubSeq(st.recv, u + 1, L) /\ r.next = (Base(st) + Size(st)) % SeqSpace
      /\ r.count = (st.count + 1) % CountMod /\ r.out = Append(st.out, Feedback(st))
  BY <1>4, ReportIs
<1> HIDE DEF r
<1>6. Listed(r.recv, t2, newest)
  BY <1>1, <1>3, <1>5, RestListed
<1>7. Len(r.recv) = L - u
  BY <1>3, <1>4, <1>5, RestOf
<1>8. Waiting(r.recv, t2) = {t[i] : i \in u + 1 .. L}
  <2>1. t2 = [i \in 1 .. L - u |-> t[i + u]]
    BY DEF Behind
  <2>2. ASSUME NEW i \in 1 .. L - u PROVE t2[i] \in {t[j] : j \in u + 1 .. L}
    <3>1. i + u \in u + 1 .. L /\ t2[i] = t[i + u]
      BY <1>3, <1>4, <2>1
    <3> QED BY <3>1
  <2>3. ASSUME NEW j \in u + 1 .. L PROVE \E i \in 1 .. L - u : t2[i] = t[j]
    <3>1. j - u \in 1 .. L - u /\ j - u + u = j
      BY <1>3, <1>4
    <3> QED BY <2>1, <3>1
  <2> HIDE DEF u, L
  <2> QED BY <1>7, <2>2, <2>3 DEF Waiting
<1>9. Waiting(r.recv, t2) \subseteq arr
  <2>1. ASSUME NEW i \in u + 1 .. L PROVE t[i] \in Waiting(st.recv, t)
    <3>1. i \in 1 .. Len(st.recv)
      BY <1>3, <1>4
    <3> QED BY <3>1 DEF Waiting
  <2> QED BY <1>1, <1>8, <2>1
<1>10. r.next \in Space
  <2>1. Base(st) + Size(st) \in Int
    BY <1>3
  <2> HIDE DEF u, L
  <2> QED BY <1>5, <2>1, NumberIn
<1>11. r.count \in 0 .. CountMod - 1
  <2>1. st.count + 1 \in Int
    BY Constants DEF Settled
  <2> QED BY <1>5, <2>1, Constants, DivMod
<1> QED BY <1>2, <1>5, <1>6, <1>7, <1>8, <1>9, <1>10, <1>11 DEF Settled, r

\* The numbers of the packets that arrived lately.
Lately(newest, arr) == {n % SeqSpace : n \in {m \in arr : m > newest - SeqSpace \div 2}}

\* While every packet comes in time, a report declares no packet lost that
\* arrived lately, and the next packets can still come in time.
LEMMA ReportInTime ==
    ASSUME NEW newest \in Int, NEW arr \in SUBSET Int, \A m \in arr : m <= newest, NEW st, NEW t,
           Settled(st, t, newest, arr), Len(st.recv) \in 1 .. MaxRecv + 1, InTime(st, t, newest, arr)
    PROVE  /\ InTime(report(st), Behind(st.recv, t, Used(st)), newest, arr)
           /\ ToldLost(Feedback(st)) \cap Lately(newest, arr) = {}
<1> DEFINE L == Len(st.recv)
           u == Used(st)
           n == Size(st)
           r == report(st)
           t2 == Behind(st.recv, t, u)
<1>1. PICK N : CountsFrom(st, t, newest, arr, N)
  BY CountedFrom
<1>2. /\ N \in Int /\ Base(st) = N % SeqSpace
      /\ N <= t[1] /\ newest - SeqSpace \div 2 <= N
      /\ \A m \in arr : m < N \/ m \in Waiting(st.recv, t)
      /\ \/ N = t[1]
         \/ \E w \in arr : w < N /\ newest - Reorder - 2 * L <= w
  BY <1>1 DEF CountsFrom
<1>3. Listed(st.recv, t, newest) /\ Waiting(st.recv, t) \subseteq arr /\ 1 \in 1 .. L /\ L \in Nat /\ L \in 1 .. L
  BY Constants DEF Settled
<1>4. /\ \A i \in 1 .. L : t[i] \in Int /\ t[i] <= newest
      /\ \A i, j \in 1 .. L : i < j => t[i] < t[j]
      /\ st.recv[1].seq = t[1] % SeqSpace
      /\ \A i \in 1 .. L : newest - Reorder - 2 * (L - i) <= t[i]
  BY <1>3 DEF Listed
<1>5. /\ Shape(st, t, Lead(st.recv, Base(st)))
      /\ Settled(r, t2, newest, arr)
      /\ Len(r.recv) = L - u
      /\ Waiting(r.recv, t2) = {t[i] : i \in u + 1 .. L}
      /\ r.next = (Base(st) + n) % SeqSpace
  <2> HIDE DEF L
  <2>1. t2 = Behind(st.recv, t, Used(st))
    OBVIOUS
  <2> HIDE DEF t2
  <2> QED BY <2>1, ReportSettles DEF L
<1>6. Lead(st.recv, Base(st)) = t[1] - N
  <2>1. t[1] \in Int /\ t[1] <= newest /\ t[1] - N < SeqSpace
    <3>1. t[1] \in Int /\ t[1] <= newest
      BY <1>3, <1>4
    <3>2. SeqSpace \div 2 < SeqSpace /\ SeqSpace \div 2 \in Int /\ SeqSpace \in Int
      BY Constants
    <3> QED BY <1>2, <3>1, <3>2
  <2>2. ((t[1] % SeqSpace) - (N % SeqSpace)) % SeqSpace = t[1] - N
    BY <1>2, <2>1, WrappedDistance
  <2> QED BY <1>2, <1>4, <2>2 DEF Lead
<1>7. /\ n = IF MaxStatus <= t[1] - N + (t[L] - t[1]) + 1 THEN MaxStatus
             ELSE t[1] - N + (t[L] - t[1]) + 1
      /\ n \in Nat \ {0} /\ u \in 0 .. L
      /\ \A i \in 1 .. L : i <= u <=> t[1] - N + (t[i] - t[1]) < n
  BY <1>5, <1>6 DEF Shape
<1>8. t[1] \in Int /\ t[L] \in Int /\ t[L] <= newest
  BY <1>3, <1>4
<1> HIDE DEF L, u, n, r, t2
<1>9. n <= t[L] - N + 1 /\ n \in Int /\ 0 < n
  BY <1>2, <1>7, <1>8
<1>10. \A i \in 1 .. L : i <= u <=> t[i] < N + n
  <2> SUFFICES ASSUME NEW i \in 1 .. L PROVE i <= u <=> t[i] < N + n
    OBVIOUS
  <2>1. t[i] \in Int /\ (i <= u <=> t[1] - N + (t[i] - t[1]) < n)
    BY <1>4, <1>7
  <2> QED BY <1>2, <1>8, <1>9, <2>1
<1>11. r.next = (N + n) % SeqSpace
  <2>1. ((N % SeqSpace) + n) % SeqSpace = (N + n) % SeqSpace
    BY <1>2, <1>9, ModPlus, Constants
  <2> QED BY <1>2, <1>5, <2>1
<1>12. \A m \in arr : m < N + n \/ m \in Waiting(r.recv, t2)
  <2> SUFFICES ASSUME NEW m \in arr, ~(m < N + n) PROVE m \in Waiting(r.recv, t2)
    OBVIOUS
  <2>1. m \in Int /\ ~(m < N)
    BY <1>2, <1>9
  <2>2. PICK i \in 1 .. L : m = t[i]
    BY <1>2, <2>1 DEF Waiting, L
  <2>3. i \in u + 1 .. L
    BY <1>3, <1>7, <1>10, <2>2
  <2> QED BY <1>5, <2>2, <2>3
<1>13. \A m \in Waiting(r.recv, t2) : N + n <= m
  <2> SUFFICES ASSUME NEW i \in u + 1 .. L PROVE N + n <= t[i]
    BY <1>5
  <2>1. i \in 1 .. L /\ ~(i <= u)
    BY <1>7
  <2> QED BY <1>2, <1>4, <1>9, <1>10, <2>1
<1>14. InTime(r, t2, newest, arr)
  <2>1. \E w \in arr : w < N + n /\ newest - Reorder - 2 * Len(r.recv) <= w
    <3>1. CASE u = 0
      <4>1. ~(t[1] < N + n)
        BY <1>3, <1>10, <3>1
      <4>2. PICK w \in arr : w < N /\ newest - Reorder - 2 * L <= w
        BY <1>2, <1>9, <4>1
      <4>3. w \in Int /\ Len(r.recv) = L
        BY <1>3, <1>5, <3>1
      <4> QED BY <1>2, <1>9, <4>2, <4>3
    <3>2. CASE u # 0
      <4>1. u \in 1 .. L
        BY <1>7, <3>2
      <4>2. t[u] \in arr
        <5>1. t[u] \in Waiting(st.recv, t)
          BY <4>1 DEF Waiting, L
        <5> QED BY <1>3, <5>1
      <4>3. t[u] < N + n
        BY <1>10, <4>1
      <4>4. newest - Reorder - 2 * (L - u) <= t[u]
        BY <1>4, <4>1
      <4> QED BY <1>5, <4>2, <4>3, <4>4
    <3> QED BY <3>1, <3>2
  <2>2. PICK w \in arr : w < N + n /\ newest - Reorder - 2 * Len(r.recv) <= w
    BY <2>1
  <2>3. N + n \in Int /\ N + n <= newest + 1
    BY <1>2, <1>8, <1>9
  <2>4. ReportedTo(r, t2, newest, arr, w, N + n)
    BY <1>11, <1>12, <1>13, <2>2, <2>3 DEF ReportedTo
  <2> QED BY <2>4 DEF InTime
<1>15. ASSUME NEW x \in ToldLost(Feedback(st)), x \in Lately(newest, arr) PROVE FALSE
  <2>1. PICK m \in arr : m > newest - SeqSpace \div 2 /\ x = m % SeqSpace
    BY <1>15 DEF Lately
  <2>2. PICK p \in 0 .. n - 1 : /\ x = (Base(st) + p) % SeqSpace
                                /\ \A i \in 1 .. L : t[1] - N + (t[i] - t[1]) # p
    <3>1. \A y \in ToldLost(Feedback(st)) : \E p \in 0 .. Size(st) - 1 :
                 /\ y = (Base(st) + p) % SeqSpace
                 /\ \A i \in 1 .. Len(st.recv) : Lead(st.recv, Base(st)) + (t[i] - t[1]) # p
      BY <1>3, <1>5, FeedbackTells
    <3> QED BY <1>6, <3>1 DEF n, L
  <2>3. p \in Int /\ 0 <= p /\ p < n /\ m \in Int /\ m <= newest
    BY <1>9, <2>2
  <2>4. x = (N + p) % SeqSpace
    <3>1. ((N % SeqSpace) + p) % SeqSpace = (N + p) % SeqSpace
      BY <1>2, <2>3, ModPlus, Constants
    <3> QED BY <1>2, <2>2, <3>1
  <2>5. N + p \in Int /\ N + p <= newest /\ newest - SeqSpace \div 2 <= N + p /\ N <= N + p
    BY <1>2, <1>8, <1>9, <2>3, Constants
  <2>6. m - (N + p) < SeqSpace /\ (N + p) - m < SeqSpace
    <3>1. SeqSpace \div 2 < SeqSpace /\ SeqSpace \div 2 \in Int /\ SeqSpace \in Int
      BY Constants
    <3> QED BY <2>1, <2>3, <2>5, <3>1
  <2>7. m = N + p
    BY <2>1, <2>3, <2>4, <2>5, <2>6, ModUnique, Constants
  <2>8. PICK i \in 1 .. L : m = t[i]
    BY <1>2, <2>5, <2>7 DEF Waiting, L
  <2>9. t[1] - N + (t[i] - t[1]) = p
    BY <1>2, <1>4, <1>8, <2>3, <2>7, <2>8
  <2> QED BY <2>2, <2>9
<1> QED BY <1>14, <1>15 DEF r, t2, u

-----------------------------------------------------------------------------
IsSequence(s) == \E S : s \in Seq(S)

\* A sequence with one more element.
LEMMA Appended ==
    ASSUME NEW s, IsSequence(s), NEW e
    PROVE  /\ IsSequence(Append(s, e)) /\ Len(s) \in Nat /\ Len(Append(s, e)) = Len(s) + 1
           /\ \A i \in 1 .. Len(s) : Append(s, e)[i] = s[i]
           /\ Append(s, e)[Len(s) + 1] = e
<1>1. PICK S : s \in Seq(S)
  BY DEF IsSequence
<1>2. s \in Seq(S \cup {e}) /\ e \in S \cup {e}
  BY <1>1, SeqMonotonic
<1> DEFINE T == S \cup {e}
<1> HIDE DEF T
<1>3. s \in Seq(T) /\ e \in T
  BY <1>2 DEF T
<1>4. Append(s, e) \in Seq(T)
  BY <1>3
<1> QED BY <1>3, <1>4 DEF IsSequence

\* What the feedback packets of one step tell received.
Told(fbs) == UNION {ToldReceived(fbs[f]) : f \in 1 .. Len(fbs)}

\* How far the reports of one step have come: the numbers that waited are told or
\* wait, never both, and if every packet came in time no loss is told wrongly.
Followed(st, numbers, inTime, newest, arr) ==
    /\ \E t : Settled(st, t, newest, arr) /\ (inTime => InTime(st, t, newest, arr))
    /\ IsSequence(st.out)
    /\ Told(st.out) \cup Numbers(st.recv) = numbers
    /\ Told(st.out) \cap Numbers(st.recv) = {}
    /\ inTime => \A f \in 1 .. Len(st.out) : ToldLost(st.out[f]) \cap Lately(newest, arr) = {}

\* One more feedback packet tells what it tells.
LEMMA ToldAppended ==
    ASSUME NEW fbs, IsSequence(fbs), NEW fb
    PROVE  Told(Append(fbs, fb)) = Told(fbs) \cup ToldReceived(fb)
<1> DEFINE n == Len(fbs)
           s == Append(fbs, fb)
<1>1. /\ n \in Nat /\ Len(s) = n + 1 /\ \A i \in 1 .. n : s[i] = fbs[i]
      /\ s[n + 1] = fb
  BY Appended
<1> HIDE DEF n, s
<1>2. ASSUME NEW x \in Told(s) PROVE x \in Told(fbs) \cup ToldReceived(fb)
  <2>1. PICK f \in 1 .. n + 1 : x \in ToldReceived(s[f])
    BY <1>1 DEF Told
  <2>2. CASE f \in 1 .. n
    <3>1. x \in ToldReceived(fbs[f])
      BY <1>1, <2>1, <2>2
    <3> QED BY <2>2, <3>1 DEF Told, n
  <2>3. CASE f = n + 1
    BY <1>1, <2>1, <2>3
  <2> QED BY <1>1, <2>2, <2>3
<1>3. ASSUME NEW x \in Told(fbs) PROVE x \in Told(s)
  <2>1. PICK f \in 1 .. n : x \in ToldReceived(fbs[f])
    BY DEF Told, n
  <2>2. s[f] = fbs[f] /\ f \in 1 .. Len(s)
    BY <1>1
  <2> QED BY <2>1, <2>2 DEF Told
<1>4. ASSUME NEW x \in ToldReceived(fb) PROVE x \in Told(s)
  <2>1. n + 1 \in 1 .. Len(s)
    BY <1>1
  <2> QED BY <1>1, <2>1 DEF Told
<1> QED BY <1>2, <1>3, <1>4 DEF s

\* A report splits the numbers that wait into those it tells and those it leaves.
LEMMA ReportSplits ==
    ASSUME NEW newest \in Int, NEW arr \in SUBSET Int, NEW st, NEW t,
           Settled(st, t, newest, arr), Len(st.recv) \in 1 .. MaxRecv + 1
    PROVE  /\ Numbers(st.recv) = ToldReceived(Feedback(st)) \cup Numbers(report(st).recv)
           /\ ToldReceived(Feedback(st)) \cap Numbers(report(st).recv) = {}
<1> DEFINE L == Len(st.recv)
           u == Used(st)
           told == ToldReceived(Feedback(st))
           rest == report(st).recv
<1>1. Listed(st.recv, t, newest) /\ st.recv \in Seq(Entries) /\ L \in Nat /\ st.recv # << >>
  BY DEF Settled, Listed
<1>2. Shape(st, t, Lead(st.recv, Base(st)))
  BY ReportSettles
<1>3. told = {st.recv[i].seq : i \in 1 .. u}
  BY <1>1, <1>2, FeedbackTells
<1>4. u \in 0 .. L
  BY <1>2 DEF Shape
<1>5. rest = SubSeq(st.recv, u + 1, L)
  BY <1>1, ReportIs
<1> HIDE DEF told, rest, u
<1>6. Len(rest) = L - u /\ \A i \in 1 .. L - u : rest[i] = st.recv[i + u]
  BY <1>1, <1>4, <1>5, RestOf
<1>7. Numbers(rest) = {st.recv[i].seq : i \in u + 1 .. L}
  <2>1. ASSUME NEW i \in 1 .. L - u PROVE rest[i].seq \in {st.recv[j].seq : j \in u + 1 .. L}
    <3>1. i + u \in u + 1 .. L /\ rest[i] = st.recv[i + u]
      BY <1>1, <1>4, <1>6
    <3> QED BY <3>1
  <2>2. ASSUME NEW j \in u + 1 .. L PROVE \E i \in 1 .. L - u : rest[i].seq = st.recv[j].seq
    <3>1. j - u \in 1 .. L - u /\ j - u + u = j
      BY <1>1, <1>4
    <3> QED BY <1>6, <3>1
  <2> HIDE DEF L
  <2> QED BY <1>6, <2>1, <2>2 DEF Numbers
<1>8. 1 .. L = (1 .. u) \cup (u + 1 .. L)
  BY <1>1, <1>4
<1>9. Numbers(st.recv) = told \cup Numbers(rest)
  <2> HIDE DEF L
  <2> QED BY <1>3, <1>7, <1>8 DEF Numbers, L
<1>10. told \cap Numbers(rest) = {}
  <2> SUFFICES ASSUME NEW i \in 1 .. u, NEW j \in u + 1 .. L, st.recv[i].seq = st.recv[j].seq PROVE FALSE
    BY <1>3, <1>7
  <2>1. i \in 1 .. L /\ j \in 1 .. L /\ i # j
    BY <1>1, <1>4
  <2>2. Len(st.recv) <= MaxRecv + 1
    BY Constants
  <2> QED BY <1>1, <2>1, <2>2, NumbersDiffer
<1> QED BY <1>9, <1>10 DEF told, rest

\* A report carries on what the reports of the step have told.
LEMMA ReportFollows ==
    ASSUME NEW newest \in Int, NEW arr \in SUBSET Int, \A m \in arr : m <= newest,
           NEW numbers, NEW inTime \in BOOLEAN, NEW st, Len(st.recv) \in 1 .. MaxRecv + 1,
           Followed(st, numbers, inTime, newest, arr)
    PROVE  Followed(report(st), numbers, inTime, newest, arr)
<1> DEFINE r == report(st)
           fb == Feedback(st)
<1>1. PICK t : Settled(st, t, newest, arr) /\ (inTime => InTime(st, t, newest, arr))
  BY DEF Followed
<1>2. /\ IsSequence(st.out) /\ Told(st.out) \cup Numbers(st.recv) = numbers
      /\ Told(st.out) \cap Numbers(st.recv) = {}
      /\ inTime => \A f \in 1 .. Len(st.out) : ToldLost(st.out[f]) \cap Lately(newest, arr) = {}
  BY DEF Followed
<1>3. Settled(r, Behind(st.recv, t, Used(st)), newest, arr) /\ r.out = Append(st.out, fb)
  BY <1>1, ReportSettles
<1>4. inTime => /\ InTime(r, Behind(st.recv, t, Used(st)), newest, arr)
                /\ ToldLost(fb) \cap Lately(newest, arr) = {}
  BY <1>1, ReportInTime
<1>5. Numbers(st.recv) = ToldReceived(fb) \cup Numbers(r.recv) /\ ToldReceived(fb) \cap Numbers(r.recv) = {}
  BY <1>1, ReportSplits
<1> HIDE DEF r, fb
<1>6. Told(r.out) = Told(st.out) \cup ToldReceived(fb)
  BY <1>2, <1>3, ToldAppended
<1>7. /\ IsSequence(r.out) /\ Len(st.out) \in Nat /\ Len(r.out) = Len(st.out) + 1
      /\ \A i \in 1 .. Len(st.out) : r.out[i] = st.out[i]
      /\ r.out[Len(st.out) + 1] = fb
  BY <1>2, <1>3, Appended
<1>8. Told(r.out) \cup Numbers(r.recv) = numbers /\ Told(r.out) \cap Numbers(r.recv) = {}
  BY <1>2, <1>5, <1>6
<1>9. ASSUME inTime, NEW f \in 1 .. Len(r.out) PROVE ToldLost(r.out[f]) \cap Lately(newest, arr) = {}
  <2>1. CASE f \in 1 .. Len(st.out)
    BY <1>2, <1>7, <1>9, <2>1
  <2>2. CASE f = Len(st.out) + 1
    BY <1>4, <1>7, <1>9, <2>2
  <2> QED BY <1>7, <2>1, <2>2
<1>10. \E t2 : Settled(r, t2, newest, arr) /\ (inTime => InTime(r, t2, newest, arr))
  BY <1>3, <1>4
<1> QED BY <1>7, <1>8, <1>9, <1>10 DEF Followed, r

-----------------------------------------------------------------------------
\* A report that covers nothing comes MaxStatus numbers closer to the first entry.
LEMMA ReportApproaches ==
    ASSUME NEW newest \in Int, NEW arr \in SUBSET Int, NEW st, NEW t,
           Settled(st, t, newest, arr), Len(st.recv) \in 1 .. MaxRecv + 1,
           Used(st) = 0
    PROVE  /\ report(st).recv = st.recv
           /\ MaxStatus <= Lead(st.recv, Base(st))
           /\ \/ Lead(report(st).recv, Base(report(st))) = 0
              \/ Lead(report(st).recv, Base(report(st))) = Lead(st.recv, Base(st)) - MaxStatus
<1> DEFINE L == Len(st.recv)
           lead == Lead(st.recv, Base(st))
           r == report(st)
           base == Base(st)
<1>1. /\ Listed(st.recv, t, newest) /\ st.recv \in Seq(Entries) /\ L \in Nat /\ st.recv # << >>
      /\ 1 \in 1 .. L /\ L \in 1 .. L
  BY DEF Settled, Listed
<1>2. /\ t[1] \in Int /\ t[L] \in Int /\ t[1] <= t[L]
      /\ st.recv[1].seq = t[1] % SeqSpace
  <2>1. t[1] \in Int /\ t[L] \in Int /\ st.recv[1].seq = t[1] % SeqSpace
    BY <1>1 DEF Listed
  <2>2. L = 1 \/ 1 < L
    <3> HIDE DEF L
    <3> QED BY <1>1
  <2>3. 1 < L => t[1] < t[L]
    BY <1>1 DEF Listed
  <2> QED BY <2>1, <2>2, <2>3
<1>3. /\ Shape(st, t, lead)
      /\ r.next = (base + Size(st)) % SeqSpace
  BY ReportSettles
<1>4. /\ base \in Space /\ lead \in Space
      /\ Size(st) = IF MaxStatus <= lead + (t[L] - t[1]) + 1 THEN MaxStatus ELSE lead + (t[L] - t[1]) + 1
      /\ \A i \in 1 .. L : i <= 0 <=> lead + (t[i] - t[1]) < Size(st)
  BY <1>3 DEF Shape
<1>5. r.recv = st.recv
  <2>1. r.recv = SubSeq(st.recv, 0 + 1, L)
    <3>1. r.recv = SubSeq(st.recv, Used(st) + 1, L)
      <4>1. r = [recv |-> SubSeq(st.recv, Used(st) + 1, L),
                 next |-> (base + Size(st)) % SeqSpace,
                 count |-> (st.count + 1) % CountMod,
                 out |-> Append(st.out, Feedback(st))]
        BY <1>1, ReportIs, Zenon
      <4> HIDE DEF r, L, base
      <4> QED BY <4>1, Zenon
    <3> HIDE DEF L, r
    <3> QED BY <3>1
  <2>2. SubSeq(st.recv, 1, L) = st.recv
    BY <1>1, SubSeqFull
  <2> QED BY <2>1, <2>2
<1> HIDE DEF L, lead, r, base
<1>6. lead \in Int /\ 0 <= lead /\ lead < SeqSpace /\ base \in Int /\ SeqSpace \in Int /\ MaxStatus \in Int
  BY <1>4, Constants DEF Space
<1>7. ~(lead < Size(st))
  <2>1. lead + (t[1] - t[1]) = lead
    BY <1>2, <1>6
  <2>2. ~(lead + (t[1] - t[1]) < Size(st))
    BY <1>1, <1>4
  <2> QED BY <2>1, <2>2
<1>8. MaxStatus <= lead /\ Size(st) = MaxStatus
  BY <1>2, <1>4, <1>6, <1>7
<1>9. (base + lead) % SeqSpace = st.recv[1].seq
  <2>1. Len(st.recv) <= MaxRecv + 1
    BY Constants
  <2>2. (base + (lead + (t[1] - t[1]))) % SeqSpace = st.recv[1].seq
    BY <1>1, <1>4, <2>1, PlaceIsNumber DEF base, lead, L
  <2>3. lead + (t[1] - t[1]) = lead
    BY <1>2, <1>6
  <2> QED BY <2>2, <2>3
<1>10. CASE r.count = 0
  <2>1. Lead(r.recv, Base(r)) = (st.recv[1].seq - st.recv[1].seq) % SeqSpace
    BY <1>5, <1>10 DEF Lead, Base
  <2>2. st.recv[1].seq \in Int
    <3>1. t[1] % SeqSpace \in Space
      BY <1>2, NumberIn, Zenon
    <3> QED BY <1>2, <3>1 DEF Space
  <2>3. st.recv[1].seq - st.recv[1].seq = 0
    BY <2>2
  <2>4. 0 % SeqSpace = 0
    BY Constants
  <2>5. Lead(r.recv, Base(r)) = 0
    BY <2>1, <2>3, <2>4
  <2> QED BY <1>5, <1>8, <2>5 DEF r, lead
<1>11. CASE r.count # 0
  <2>1. Base(r) = (base + MaxStatus) % SeqSpace
    BY <1>3, <1>8, <1>11 DEF Base
  <2>2. Lead(r.recv, Base(r)) = (((base + lead) % SeqSpace) - ((base + MaxStatus) % SeqSpace)) % SeqSpace
    BY <1>5, <1>9, <2>1 DEF Lead
  <2>3. /\ base + MaxStatus \in Int /\ base + lead \in Int /\ base + MaxStatus <= base + lead
        /\ (base + lead) - (base + MaxStatus) < SeqSpace
        /\ (base + lead) - (base + MaxStatus) = lead - MaxStatus
    BY <1>6, <1>8, Constants
  <2>4. Lead(r.recv, Base(r)) = lead - MaxStatus
    BY <2>2, <2>3, WrappedDistance
  <2> QED BY <1>5, <1>8, <2>4 DEF r, lead
<1> QED BY <1>10, <1>11

\* One round of the while loop in handle_incoming.
Round(st) == IF Len(st.recv) > MaxRecv THEN report(st) ELSE st

\* b gives the states of the first n rounds of the loop.
RoundsOf(b, st, n) == b = [k \in 0 .. n |-> IF k = 0 THEN st ELSE Round(b[k - 1])]

\* The loop has a state after each round.
LEMMA RoundsExist == ASSUME NEW st, NEW n \in Nat PROVE \E b : RoundsOf(b, st, n)
<1> DEFINE P == { m \in 0 .. n : \E b : RoundsOf(b, st, m) }
<1>1. 0 \in P
  <2> DEFINE b == [k \in 0 .. 0 |-> st]
  <2>1. b = [k \in 0 .. 0 |-> IF k = 0 THEN st ELSE Round(b[k - 1])]
    OBVIOUS
  <2> HIDE DEF b
  <2>2. RoundsOf(b, st, 0)
    BY <2>1, Zenon DEF RoundsOf
  <2> QED BY <2>2
<1>2. ASSUME NEW m \in 1 .. n, m - 1 \in P PROVE m \in P
  <2>1. PICK b : RoundsOf(b, st, m - 1)
    BY <1>2
  <2> DEFINE h == [k \in 0 .. m |-> IF k = m THEN Round(b[m - 1]) ELSE b[k]]
  <2>2. \A k \in 0 .. m - 1 : b[k] = IF k = 0 THEN st ELSE Round(b[k - 1])
    BY <2>1 DEF RoundsOf
  <2>3. \A k \in 0 .. m : h[k] = IF k = m THEN Round(b[m - 1]) ELSE b[k]
    OBVIOUS
  <2>4. h = [k \in 0 .. m |-> h[k]]
    OBVIOUS
  <2> HIDE DEF h
  <2>5. ASSUME NEW k \in 0 .. m PROVE h[k] = IF k = 0 THEN st ELSE Round(h[k - 1])
    <3>1. CASE k = m
      <4>1. k # 0 /\ k - 1 = m - 1 /\ m - 1 \in 0 .. m /\ m - 1 # m
        BY <1>2, <3>1
      <4>2. h[m - 1] = b[m - 1]
        BY <2>3, <4>1
      <4> QED BY <2>3, <3>1, <4>1, <4>2
    <3>2. CASE k = 0 /\ k # m
      BY <1>2, <2>2, <2>3, <3>2
    <3>3. CASE k # 0 /\ k # m
      <4>1. k \in 0 .. m - 1 /\ k - 1 \in 0 .. m /\ k - 1 # m
        BY <1>2, <3>3
      <4>2. h[k - 1] = b[k - 1] /\ h[k] = b[k]
        BY <2>3, <3>3, <4>1
      <4> QED BY <2>2, <3>3, <4>1, <4>2
    <3> QED BY <3>1, <3>2, <3>3
  <2>6. h = [k \in 0 .. m |-> IF k = 0 THEN st ELSE Round(h[k - 1])]
    BY <2>4, <2>5
  <2>7. RoundsOf(h, st, m)
    BY <2>6, Zenon DEF RoundsOf
  <2> QED BY <2>7
<1>3. \A k \in 0 .. n : k \in P
  <2> HIDE DEF P
  <2> QED BY <1>1, <1>2, UpTo
<1> QED BY <1>3

\* How many rounds the model of the loop makes.
RoundCount == (SeqSpace \div MaxStatus) + 1

\* The loop goes on from one round to the next and ends with the last.
LEMMA DrainIs ==
    ASSUME NEW st
    PROVE  \E b : /\ Drain(st) = b[RoundCount] /\ b[0] = st
                  /\ \A k \in 1 .. RoundCount : b[k] = Round(b[k - 1])
<1>1. RoundCount \in Nat
  <2>1. SeqSpace \div MaxStatus \in Nat
    BY Constants
  <2> QED BY <2>1 DEF RoundCount
<1> DEFINE round == CHOOSE b : RoundsOf(b, st, RoundCount)
<1>2. Drain(st) = round[RoundCount]
  BY Zenon DEF Drain, RoundsOf, Round, RoundCount
<1>3. RoundsOf(round, st, RoundCount)
  BY <1>1, RoundsExist
<1> HIDE DEF round
<1>4. \A k \in 0 .. RoundCount : round[k] = IF k = 0 THEN st ELSE Round(round[k - 1])
  BY <1>3 DEF RoundsOf
<1>5. round[0] = st
  BY <1>1, <1>4
<1>6. \A k \in 1 .. RoundCount : round[k] = Round(round[k - 1])
  BY <1>1, <1>4
<1> QED BY <1>2, <1>5, <1>6

\* After k rounds the list is back under its limit, or k times MaxStatus numbers of
\* one cycle are behind the report.
Progress(st, k, numbers, inTime, newest, arr) ==
    /\ Followed(st, numbers, inTime, newest, arr)
    /\ Len(st.recv) <= MaxRecv + 1
    /\ Len(st.recv) > MaxRecv => Lead(st.recv, Base(st)) + k * MaxStatus < SeqSpace

\* A round makes progress.
LEMMA RoundProgress ==
    ASSUME NEW newest \in Int, NEW arr \in SUBSET Int, \A m \in arr : m <= newest,
           NEW numbers, NEW inTime \in BOOLEAN, NEW st, NEW k \in Nat \ {0},
           Progress(st, k - 1, numbers, inTime, newest, arr)
    PROVE  Progress(Round(st), k, numbers, inTime, newest, arr)
<1>1. Followed(st, numbers, inTime, newest, arr) /\ Len(st.recv) <= MaxRecv + 1
  BY DEF Progress
<1>2. PICK t : Settled(st, t, newest, arr)
  BY <1>1 DEF Followed
<1>3. Len(st.recv) \in Nat /\ MaxRecv \in Nat \ {0}
  BY <1>2, Constants DEF Settled, Listed
<1>4. CASE Len(st.recv) <= MaxRecv
  <2>1. Round(st) = st /\ ~(Len(st.recv) > MaxRecv)
    BY <1>3, <1>4 DEF Round
  <2> QED BY <1>1, <2>1 DEF Progress
<1>5. CASE Len(st.recv) > MaxRecv
  <2> DEFINE r == report(st)
             lead == Lead(st.recv, Base(st))
  <2>1. Round(st) = r /\ Len(st.recv) \in 1 .. MaxRecv + 1
    BY <1>1, <1>3, <1>5 DEF Round
  <2>2. Followed(r, numbers, inTime, newest, arr)
    BY <1>1, <2>1, ReportFollows
  <2>3. Shape(st, t, lead) /\ Len(r.recv) = Len(st.recv) - Used(st)
    BY <1>2, <2>1, ReportSettles
  <2>4. Used(st) \in Nat /\ lead \in Int
    BY <1>3, <2>3 DEF Shape, Space
  <2>5. Len(r.recv) <= MaxRecv + 1
    BY <1>1, <1>3, <2>3, <2>4
  <2>6. ASSUME Len(r.recv) > MaxRecv PROVE Lead(r.recv, Base(r)) + k * MaxStatus < SeqSpace
    <3>1. Used(st) = 0
      BY <1>1, <1>3, <2>3, <2>4, <2>6
    <3>2. /\ MaxStatus <= lead
          /\ Lead(r.recv, Base(r)) = 0 \/ Lead(r.recv, Base(r)) = lead - MaxStatus
      BY <1>2, <2>1, <3>1, ReportApproaches
    <3>3. lead + (k - 1) * MaxStatus < SeqSpace
      BY <1>5 DEF Progress
    <3> HIDE DEF lead, r
    <3> DEFINE m == (k - 1) * MaxStatus
               l == Lead(r.recv, Base(r))
    <3>4. m \in Int /\ k * MaxStatus = m + MaxStatus /\ MaxStatus \in Int /\ SeqSpace \in Int
      BY Constants
    <3> HIDE DEF m, l
    <3>5. lead + m < SeqSpace /\ (l = 0 \/ l = lead - MaxStatus)
      BY <3>2, <3>3 DEF m, l
    <3>6. l + (m + MaxStatus) < SeqSpace
      BY <2>4, <3>2, <3>4, <3>5
    <3> QED BY <3>4, <3>6 DEF l
  <2> HIDE DEF r
  <2> QED BY <2>1, <2>2, <2>5, <2>6 DEF Progress
<1> QED BY <1>3, <1>4, <1>5

\* The loop leaves at most MaxRecv packets waiting: its reports reach the first
\* one within a cycle of the number space.
LEMMA DrainFollows ==
    ASSUME NEW newest \in Int, NEW arr \in SUBSET Int, \A m \in arr : m <= newest,
           NEW numbers, NEW inTime \in BOOLEAN, NEW st, Len(st.recv) <= MaxRecv + 1,
           Followed(st, numbers, inTime, newest, arr)
    PROVE  Followed(Drain(st), numbers, inTime, newest, arr) /\ Len(Drain(st).recv) <= MaxRecv
<1> DEFINE n == RoundCount
<1>1. PICK b : /\ Drain(st) = b[n] /\ b[0] = st
               /\ \A k \in 1 .. n : b[k] = Round(b[k - 1])
  BY DrainIs
<1>2. n \in Nat /\ n * MaxStatus >= SeqSpace
  <2> DEFINE q == SeqSpace \div MaxStatus
             r == SeqSpace % MaxStatus
  <2>1. q \in Int /\ r \in 0 .. MaxStatus - 1 /\ SeqSpace = MaxStatus * q + r
    BY Constants, DivMod
  <2>2. q \in Nat
    BY Constants
  <2>3. n = q + 1
    BY DEF RoundCount
  <2> HIDE DEF q, r, n
  <2>4. n * MaxStatus = MaxStatus * q + MaxStatus
    BY <2>1, <2>3, Constants
  <2> DEFINE p == MaxStatus * q
  <2>5. p \in Int /\ MaxStatus \in Int
    BY <2>1, Constants
  <2>6. SeqSpace = p + r /\ n * MaxStatus = p + MaxStatus
    BY <2>1, <2>4
  <2> HIDE DEF p
  <2> QED BY <2>1, <2>2, <2>3, <2>5, <2>6
<1> HIDE DEF n
<1> DEFINE Ok == { k \in 0 .. n : Progress(b[k], k, numbers, inTime, newest, arr) }
<1>3. 0 \in Ok
  <2>1. Len(st.recv) > MaxRecv => Lead(st.recv, Base(st)) + 0 * MaxStatus < SeqSpace
    <3> SUFFICES ASSUME Len(st.recv) > MaxRecv PROVE Lead(st.recv, Base(st)) + 0 * MaxStatus < SeqSpace
      OBVIOUS
    <3>1. PICK t : Settled(st, t, newest, arr)
      BY DEF Followed
    <3>2. Len(st.recv) \in Nat
      BY <3>1 DEF Settled, Listed
    <3>3. Len(st.recv) \in 1 .. MaxRecv + 1
      BY <3>2, Constants
    <3>4. Lead(st.recv, Base(st)) \in Space
      <4>1. Shape(st, t, Lead(st.recv, Base(st)))
        BY <3>1, <3>3, ReportSettles
      <4> QED BY <4>1 DEF Shape
    <3>5. 0 * MaxStatus = 0
      BY Constants
    <3> QED BY <3>4, <3>5, Constants DEF Space
  <2>2. Progress(st, 0, numbers, inTime, newest, arr)
    BY <2>1 DEF Progress
  <2> QED BY <1>1, <1>2, <2>2
<1>4. \A k \in 1 .. n : k - 1 \in Ok => k \in Ok
  <2> SUFFICES ASSUME NEW k \in 1 .. n, Progress(b[k - 1], k - 1, numbers, inTime, newest, arr)
               PROVE  Progress(b[k], k, numbers, inTime, newest, arr)
    BY <1>2
  <2>1. b[k] = Round(b[k - 1]) /\ k \in Nat \ {0}
    BY <1>1, <1>2
  <2>2. Progress(Round(b[k - 1]), k, numbers, inTime, newest, arr)
    BY <2>1, RoundProgress
  <2> QED BY <2>1, <2>2
<1>5. \A k \in 0 .. n : k \in Ok
  <2> HIDE DEF Ok
  <2> QED BY <1>2, <1>3, <1>4, UpTo
<1>6. Progress(b[n], n, numbers, inTime, newest, arr)
  BY <1>2, <1>5
<1> HIDE DEF Ok
<1> DEFINE d == b[n]
<1>7. /\ Followed(d, numbers, inTime, newest, arr)
      /\ Len(d.recv) <= MaxRecv + 1
      /\ Len(d.recv) > MaxRecv => Lead(d.recv, Base(d)) + n * MaxStatus < SeqSpace
  BY <1>6 DEF Progress
<1> HIDE DEF d
<1>8. PICK t : Settled(d, t, newest, arr)
  BY <1>7 DEF Followed
<1>9. Len(d.recv) \in Nat
  BY <1>8 DEF Settled, Listed
<1>10. CASE Len(d.recv) > MaxRecv
  <2>1. Len(d.recv) \in 1 .. MaxRecv + 1
    BY <1>7, <1>9, <1>10, Constants
  <2>2. Lead(d.recv, Base(d)) \in Space
    <3>1. Shape(d, t, Lead(d.recv, Base(d)))
      BY <1>8, <2>1, ReportSettles
    <3> QED BY <3>1 DEF Shape
  <2> DEFINE l == Lead(d.recv, Base(d))
             p == n * MaxStatus
  <2>3. l \in Nat /\ p \in Int
    BY <1>2, <2>2, Constants DEF Space
  <2>4. p >= SeqSpace /\ l + p < SeqSpace
    BY <1>2, <1>7, <1>10
  <2> HIDE DEF l, p
  <2> QED BY <2>3, <2>4, Constants
<1>11. CASE ~(Len(d.recv) > MaxRecv)
  BY <1>1, <1>7, <1>9, <1>11, Constants DEF d
<1> QED BY <1>10, <1>11

-----------------------------------------------------------------------------
\* The invariant: the packets that wait arrived and lie near the newest, in order,
\* no more than the limit; unless a packet came after a report had passed its
\* number, all that arrived and does not wait lies below the reports.
TransportInv ==
    /\ top \in Int /\ clock \in Int /\ crossed \in BOOLEAN
    /\ arrived \in SUBSET Int /\ \A m \in arrived : m <= top
    /\ Len(recv) <= MaxRecv
    /\ \E t : /\ Settled(State, t, top, arrived)
              /\ ~crossed => InTime(State, t, top, arrived)
    /\ LossesTrue

\* The initial state satisfies it.
LEMMA TransportStart == ASSUME Init PROVE TransportInv
<1>1. /\ recv = <<>> /\ next_report_seq = 0 /\ fb_count = 0 /\ out = <<>>
      /\ top = Start - 1 /\ arrived = {} /\ crossed = FALSE /\ clock = 0
  BY DEF Init
<1> DEFINE t == [i \in 1 .. 0 |-> 0]
           st == [recv |-> <<>>, next |-> 0, count |-> 0, out |-> <<>>]
<1>2. State = st /\ st.recv = << >> /\ st.next = 0 /\ st.count = 0
  BY <1>1 DEF State
<1>3. Len(<< >>) = 0 /\ << >> \in Seq(Entries) /\ 1 .. 0 = {} /\ t \in [1 .. 0 -> Int]
  OBVIOUS
<1> HIDE DEF t, st
<1>4. Listed(<< >>, t, top)
  BY <1>3 DEF Listed
<1>5. Waiting(<< >>, t) = {}
  BY <1>3 DEF Waiting
<1>6. 0 \in Space /\ 0 \in 0 .. CountMod - 1
  BY Constants DEF Space
<1>7. Settled(State, t, top, arrived)
  BY <1>1, <1>2, <1>4, <1>5, <1>6 DEF Settled
<1>8. InTime(State, t, top, arrived)
  BY <1>1, <1>2 DEF InTime, NothingReported
<1>9. LossesTrue
  BY <1>1, <1>3 DEF LossesTrue
<1>10. Len(recv) <= MaxRecv /\ top \in Int
  BY <1>1, <1>3, Constants DEF Space
<1>11. clock \in Int /\ crossed \in BOOLEAN /\ arrived \in SUBSET Int /\ \A m \in arrived : m <= top
  <2>1. clock \in Int
    BY <1>1
  <2>2. crossed \in BOOLEAN
    BY <1>1
  <2>3. arrived = {}
    BY <1>1
  <2> QED BY <2>1, <2>2, <2>3
<1>12. \E t2 : Settled(State, t2, top, arrived) /\ (~crossed => InTime(State, t2, top, arrived))
  BY <1>7, <1>8
<1> QED BY <1>9, <1>10, <1>11, <1>12 DEF TransportInv

\* The state before a report, or before a packet, has told nothing yet.
LEMMA StateFollowed ==
    ASSUME TransportInv
    PROVE  /\ Followed(State, Numbers(recv), ~crossed, top, arrived)
           /\ State.recv = recv /\ State.next = next_report_seq /\ State.count = fb_count /\ State.out = << >>
           /\ Len(recv) \in Nat /\ recv \in Seq(Entries)
<1>1. /\ State.recv = recv /\ State.next = next_report_seq /\ State.count = fb_count /\ State.out = << >>
  BY DEF State
<1>2. PICK t : /\ Settled(State, t, top, arrived)
               /\ ~crossed => InTime(State, t, top, arrived)
  BY DEF TransportInv
<1>3. IsSequence(<< >>) /\ Len(<< >>) = 0 /\ 1 .. 0 = {}
  <2>1. << >> \in Seq({})
    OBVIOUS
  <2> QED BY <2>1 DEF IsSequence
<1>4. Told(<< >>) = {}
  BY <1>3 DEF Told
<1>5. recv \in Seq(Entries) /\ Len(recv) \in Nat
  <2>1. recv \in Seq(Entries)
    BY <1>1, <1>2 DEF Settled, Listed
  <2> QED BY <2>1
<1>6. Followed(State, Numbers(recv), ~crossed, top, arrived)
  BY <1>1, <1>2, <1>3, <1>4 DEF Followed
<1> QED BY <1>1, <1>5, <1>6

\* A packet that arrives waits with the others; it came in time unless a report had
\* passed its number.
LEMMA ArrivalFollows ==
    ASSUME TransportInv, NEW n \in Int, top - Reorder <= n, n <= top + 2, NEW now \in Int,
           NEW st, st = [State EXCEPT !.recv = Insert(@, [seq |-> n % SeqSpace, ts |-> now])]
    PROVE  /\ Followed(st, Numbers(recv) \cup {n % SeqSpace},
                       ~(crossed \/ Passed(n % SeqSpace)), Max({top, n}), arrived \cup {n})
           /\ Len(st.recv) <= MaxRecv + 1
<1> DEFINE e == [seq |-> n % SeqSpace, ts |-> now]
           after == Insert(recv, e)
           newest == Max({top, n})
           arr == arrived \cup {n}
<1>1. /\ top \in Int /\ arrived \in SUBSET Int /\ (\A m \in arrived : m <= top)
      /\ Len(recv) <= MaxRecv
  BY DEF TransportInv
<1>2. PICK t : /\ Settled(State, t, top, arrived)
               /\ ~crossed => InTime(State, t, top, arrived)
  BY DEF TransportInv
<1>3. /\ State.recv = recv /\ State.next = next_report_seq /\ State.count = fb_count /\ State.out = << >>
      /\ Len(recv) \in Nat
  BY StateFollowed
<1>4. st.recv = after /\ st.next = next_report_seq /\ st.count = fb_count /\ st.out = << >>
  BY DEF State
<1>5. /\ Listed(recv, t, top) /\ Waiting(recv, t) \subseteq arrived
      /\ next_report_seq \in Space /\ fb_count \in 0 .. CountMod - 1
  BY <1>2, <1>3 DEF Settled
<1>6. PICK t2 : /\ Listed(after, t2, newest)
                /\ Len(after) <= Len(recv) + 1
                /\ newest - 2 * Len(after) <= top - 2 * Len(recv)
                /\ Waiting(after, t2) = Waiting(recv, t) \cup {n}
  <2>1. /\ top \in Int /\ n \in Int /\ now \in Int /\ Listed(recv, t, top) /\ Len(recv) <= MaxRecv
        /\ top - Reorder <= n /\ n <= top + 2
        /\ after = Insert(recv, [seq |-> n % SeqSpace, ts |-> now]) /\ newest = Max({top, n})
    BY <1>1, <1>5
  <2> HIDE DEF after, e, newest
  <2> QED BY <2>1, InsertListed
<1>7. newest = IF top <= n THEN n ELSE top
  BY <1>1, MaxIs
<1> HIDE DEF after, newest, e
<1>8. Settled(st, t2, newest, arr)
  BY <1>4, <1>5, <1>6 DEF Settled
<1>9. Len(after) \in Nat /\ newest \in Int
  <2>1. after \in Seq(Entries)
    BY <1>6 DEF Listed
  <2> QED BY <1>1, <1>7, <2>1
<1>10. Numbers(after) = Numbers(recv) \cup {n % SeqSpace}
  <2>1. \A i \in 1 .. Len(after) : after[i].seq = t2[i] % SeqSpace
    BY <1>6 DEF Listed
  <2>2. \A i \in 1 .. Len(recv) : recv[i].seq = t[i] % SeqSpace
    BY <1>5 DEF Listed
  <2>3. Numbers(after) = {m % SeqSpace : m \in Waiting(after, t2)}
    BY <2>1 DEF Numbers, Waiting
  <2>4. Numbers(recv) = {m % SeqSpace : m \in Waiting(recv, t)}
    BY <2>2 DEF Numbers, Waiting
  <2> QED BY <1>6, <2>3, <2>4
<1>11. ASSUME ~(crossed \/ Passed(n % SeqSpace)) PROVE InTime(st, t2, newest, arr)
  <2>1. CASE NothingReported(State, t, arrived)
    <3>1. st.count = 0 /\ arr \subseteq Waiting(st.recv, t2)
      BY <1>3, <1>4, <1>6, <2>1 DEF NothingReported
    <3> QED BY <3>1 DEF NothingReported, InTime
  <2>2. CASE \E w, N : ReportedTo(State, t, top, arrived, w, N)
    <3>1. PICK w, N : ReportedTo(State, t, top, arrived, w, N)
      BY <2>2
    <3>2. /\ w \in arrived /\ w \in Int /\ N \in Int
          /\ next_report_seq = N % SeqSpace /\ N <= top + 1
          /\ w < N /\ top - Reorder - 2 * Len(recv) <= w
          /\ (\A m \in arrived : m < N \/ m \in Waiting(recv, t))
          /\ (\A m \in Waiting(recv, t) : N <= m)
      BY <1>1, <1>3, <3>1 DEF ReportedTo
    <3> DEFINE L == Len(recv)
    <3>0. /\ w \in Int /\ N \in Int /\ N <= top + 1 /\ w < N /\ top - Reorder - 2 * L <= w
          /\ top \in Int /\ L \in Nat /\ L <= MaxRecv
      BY <1>1, <1>3, <3>2
    <3> HIDE DEF L
    <3>3. CASE n < N
      <4>1. N - n < SeqSpace \div 2 /\ n - N < SeqSpace \div 2
        <5>1. Reorder + 2 * MaxRecv < SeqSpace \div 2 /\ MaxRecv \in Nat \ {0} /\ Reorder \in Int
              /\ SeqSpace \div 2 \in Int
          BY Constants
        <5> QED BY <3>0, <3>3, <5>1
      <4>2. SeqBefore(n % SeqSpace, next_report_seq)
        <5>1. SeqBefore(n % SeqSpace, N % SeqSpace)
          BY <3>2, <3>3, <4>1, BeforeIsLess
        <5> QED BY <3>2, <5>1
      <4>3. next_report_seq # n % SeqSpace
        BY <4>2 DEF SeqBefore
      <4>4. ASSUME NEW i \in 1 .. Len(recv) PROVE recv[i].seq # w % SeqSpace
        <5>1. t[i] \in Int /\ recv[i].seq = t[i] % SeqSpace /\ t[i] <= top
          BY <1>5 DEF Listed
        <5>2. w < t[i]
          <6>1. t[i] \in Waiting(recv, t)
            BY DEF Waiting
          <6>2. N <= t[i]
            BY <3>2, <6>1
          <6> QED BY <3>2, <5>1, <6>2
        <5>3. t[i] - w < SeqSpace /\ w - t[i] < SeqSpace
          <6>1. t[i] \in Int /\ t[i] <= top /\ w < t[i]
            BY <5>1, <5>2
          <6> QED BY <3>0, <6>1, SpanFits
        <5>4. CASE t[i] % SeqSpace = w % SeqSpace
          <6>1. t[i] = w
            BY <3>2, <5>1, <5>3, <5>4, ModUnique, Constants
          <6> QED BY <3>2, <5>2, <6>1
        <5> QED BY <5>1, <5>4
      <4> QED BY <1>11, <3>2, <4>2, <4>3, <4>4 DEF Passed
    <3>4. CASE ~(n < N)
      <4>1. w \in arr /\ N <= newest + 1 /\ newest - Reorder - 2 * Len(after) <= w
        <5>1. Reorder \in Int
          BY Constants
        <5> DEFINE l == Len(after)
        <5>2. newest - 2 * l <= top - 2 * L /\ l \in Nat
          BY <1>6, <1>9 DEF L
        <5>3. w \in arr /\ top <= newest
          BY <1>1, <1>7, <3>2
        <5> HIDE DEF l
        <5>4. newest - Reorder - 2 * l <= w
          <6> DEFINE x == 2 * l
                     y == 2 * L
          <6>1. newest - x <= top - y /\ x \in Int /\ y \in Int /\ top - Reorder - y <= w
            BY <3>0, <5>2
          <6>2. newest \in Int /\ top \in Int /\ w \in Int
            BY <1>9, <3>0
          <6> HIDE DEF x, y
          <6>3. newest - Reorder - x <= w
            BY <5>1, <6>1, <6>2
          <6> QED BY <6>3 DEF x
        <5>5. N <= newest + 1
          BY <1>9, <3>0, <5>3
        <5> QED BY <5>3, <5>4, <5>5 DEF l
      <4>2. \A m \in arr : m < N \/ m \in Waiting(after, t2)
        BY <1>6, <3>2
      <4>3. \A m \in Waiting(after, t2) : N <= m
        BY <1>6, <3>2, <3>4
      <4>4. ReportedTo(st, t2, newest, arr, w, N)
        BY <1>4, <3>2, <4>1, <4>2, <4>3 DEF ReportedTo
      <4> QED BY <4>4 DEF InTime
    <3> QED BY <3>3, <3>4
  <2> QED BY <1>2, <1>11, <2>1, <2>2 DEF InTime
<1>12. IsSequence(st.out) /\ Told(st.out) = {} /\ Len(st.out) = 0
  <2>1. << >> \in Seq({}) /\ Len(<< >>) = 0 /\ 1 .. 0 = {}
    OBVIOUS
  <2> QED BY <1>4, <2>1 DEF IsSequence, Told
<1>13. 1 .. Len(st.out) = {}
  BY <1>12
<1>14. Followed(st, Numbers(recv) \cup {n % SeqSpace}, ~(crossed \/ Passed(n % SeqSpace)), newest, arr)
  BY <1>4, <1>8, <1>10, <1>11, <1>12, <1>13 DEF Followed
<1>15. Len(st.recv) <= MaxRecv + 1
  <2>1. Len(after) <= Len(recv) + 1 /\ Len(recv) <= MaxRecv
    BY <1>1, <1>6
  <2>2. Len(after) <= MaxRecv + 1
    <3> DEFINE l == Len(after)
               m == Len(recv)
    <3>1. l \in Int /\ m \in Int /\ MaxRecv \in Int /\ l <= m + 1 /\ m <= MaxRecv
      BY <1>3, <1>9, <2>1, Constants
    <3> HIDE DEF l, m
    <3>2. l <= MaxRecv + 1
      BY <3>1
    <3> QED BY <3>2 DEF l
  <2> QED BY <1>4, <2>2
<1> QED BY <1>14, <1>15 DEF newest

\* A state the step leads to, when what its reports told is known.
LEMMA FollowedBecomes ==
    ASSUME NEW st, Becomes(st), NEW numbers,
           Followed(st, numbers, ~crossed', top', arrived'), Len(st.recv) <= MaxRecv,
           top' \in Int, clock' \in Int, crossed' \in BOOLEAN,
           arrived' \in SUBSET Int, \A m \in arrived' : m <= top'
    PROVE  /\ TransportInv'
           /\ Told(out') \cup Numbers(recv') = numbers
           /\ Told(out') \cap Numbers(recv') = {}
<1>1. recv' = st.recv /\ next_report_seq' = st.next /\ fb_count' = st.count /\ out' = st.out
  BY DEF Becomes
<1>2. State'.recv = st.recv /\ State'.next = st.next /\ State'.count = st.count
  BY <1>1 DEF State
<1>3. PICK t : /\ Settled(st, t, top', arrived')
               /\ ~crossed' => InTime(st, t, top', arrived')
  BY DEF Followed
<1>4. Settled(State', t, top', arrived')
  BY <1>2, <1>3 DEF Settled
<1>5. ASSUME ~crossed' PROVE InTime(State', t, top', arrived')
  BY <1>2, <1>3, <1>5 DEF InTime, NothingReported, ReportedTo
<1>6. LossesTrue'
  <2>1. Recent' = Lately(top', arrived')
    BY DEF Recent, Lately
  <2>2. ~crossed' => \A f \in 1 .. Len(out') : ToldLost(out'[f]) \cap Lately(top', arrived') = {}
    BY <1>1 DEF Followed
  <2>3. ~crossed' => \A f \in 1 .. Len(out') : ToldLost(out'[f]) \cap Recent' = {}
    BY <2>1, <2>2
  <2> QED BY <2>3 DEF LossesTrue, ToldLost, NumberOf, Symbol
<1>7. (\E t2 : Settled(State, t2, top, arrived) /\ (~crossed => InTime(State, t2, top, arrived)))'
  <2>1. \E t2 : Settled(State', t2, top', arrived') /\ (~crossed' => InTime(State', t2, top', arrived'))
    BY <1>4, <1>5
  <2> QED BY <2>1
<1>8. TransportInv'
  BY <1>1, <1>6, <1>7 DEF TransportInv
<1> QED BY <1>1, <1>8 DEF Followed

\* A step tells and keeps: what waited and perhaps one number x more, none twice.
Keeps(x) ==
    /\ Told(out') \cup Numbers(recv') = Numbers(recv) \cup x
    /\ Told(out') \cap Numbers(recv') = {}

\* A packet that arrives keeps the invariant.
LEMMA ArriveStep ==
    ASSUME TransportInv, NEW n \in (top - Reorder) .. (top + 2), NEW pause \in {0, 1, ByteMod},
           Arrive(n, pause)
    PROVE  TransportInv' /\ n \in arrived' /\ Keeps({n % SeqSpace})
<1> DEFINE now == clock + pause
<1>1. /\ top \in Int /\ clock \in Int /\ crossed \in BOOLEAN
      /\ arrived \in SUBSET Int /\ \A m \in arrived : m <= top
  BY DEF TransportInv
<1>2. /\ top' = Max({top, n}) /\ arrived' = arrived \cup {n}
      /\ crossed' = (crossed \/ Passed(n % SeqSpace)) /\ clock' = now
  BY DEF Arrive
<1>3. n \in Int /\ top - Reorder <= n /\ n <= top + 2 /\ now \in Int
  BY <1>1, Constants
<1>4. top' = IF top <= n THEN n ELSE top
  BY <1>1, <1>2, <1>3, MaxIs
<1>5. PICK st \in {handle_incoming(State, n % SeqSpace, now)} : Becomes(st)
  BY DEF Arrive
<1> HIDE DEF now
<1>6. PICK st0 : st0 = [State EXCEPT !.recv = Insert(@, [seq |-> n % SeqSpace, ts |-> now])]
  OBVIOUS
<1>7. st = Drain(st0)
  BY <1>5, <1>6 DEF handle_incoming
<1>8. /\ Followed(st0, Numbers(recv) \cup {n % SeqSpace},
                  ~(crossed \/ Passed(n % SeqSpace)), Max({top, n}), arrived \cup {n})
      /\ Len(st0.recv) <= MaxRecv + 1
  BY <1>3, <1>6, ArrivalFollows
<1>9. /\ top' \in Int /\ clock' \in Int /\ crossed' \in BOOLEAN
      /\ arrived' \in SUBSET Int /\ (\A m \in arrived' : m <= top') /\ n \in arrived'
  <2>1. top' \in Int /\ top <= top' /\ n <= top'
    BY <1>1, <1>3, <1>4
  <2>2. \A m \in arrived' : m <= top'
    BY <1>1, <1>2, <1>3, <2>1
  <2>3. crossed' \in BOOLEAN
    BY <1>1, <1>2 DEF Passed
  <2> QED BY <1>1, <1>2, <1>3, <2>1, <2>2, <2>3
<1>10. Followed(st0, Numbers(recv) \cup {n % SeqSpace}, ~crossed', top', arrived')
  BY <1>2, <1>8
<1>11. /\ Followed(st, Numbers(recv) \cup {n % SeqSpace}, ~crossed', top', arrived')
       /\ Len(st.recv) <= MaxRecv
  <2>1. (~crossed') \in BOOLEAN
    BY <1>9
  <2> QED BY <1>7, <1>8, <1>9, <1>10, <2>1, DrainFollows
<1>12. /\ TransportInv'
       /\ Told(out') \cup Numbers(recv') = Numbers(recv) \cup {n % SeqSpace}
       /\ Told(out') \cap Numbers(recv') = {}
  BY <1>5, <1>9, <1>11, FollowedBecomes
<1> QED BY <1>9, <1>12 DEF Keeps

\* A report of the nack loop keeps the invariant.
LEMMA NackLoopReportStep ==
    ASSUME TransportInv, NackLoopReport
    PROVE  TransportInv' /\ Keeps({})
<1>1. /\ top \in Int /\ clock \in Int /\ crossed \in BOOLEAN /\ Len(recv) <= MaxRecv
      /\ arrived \in SUBSET Int /\ \A m \in arrived : m <= top
  BY DEF TransportInv
<1>2. recv # << >> /\ top' = top /\ arrived' = arrived /\ crossed' = crossed /\ clock' = clock
  BY DEF NackLoopReport, netVars
<1>3. PICK st \in {report(State)} : Becomes(st)
  BY DEF NackLoopReport
<1>4. PICK st0 : st0 = State
  OBVIOUS
<1>5. /\ Followed(st0, Numbers(recv), ~crossed, top, arrived)
      /\ st0.recv = recv /\ Len(recv) \in Nat /\ recv \in Seq(Entries)
  BY <1>4, StateFollowed
<1>6. Len(st0.recv) \in 1 .. MaxRecv + 1
  <2>1. Len(recv) # 0
    BY <1>2, <1>5
  <2> QED BY <1>1, <1>5, <2>1, Constants
<1>7. st = report(st0)
  BY <1>3, <1>4
<1>8. Followed(st, Numbers(recv), ~crossed, top, arrived)
  <2>1. (~crossed) \in BOOLEAN
    BY <1>1
  <2> QED BY <1>1, <1>5, <1>6, <1>7, <2>1, ReportFollows
<1>9. Len(st.recv) <= MaxRecv
  <2>1. PICK t : Settled(st0, t, top, arrived)
    BY <1>5 DEF Followed
  <2>2. /\ Len(report(st0).recv) = Len(st0.recv) - Used(st0)
        /\ Shape(st0, t, Lead(st0.recv, Base(st0)))
    BY <1>1, <1>6, <2>1, ReportSettles
  <2>3. Used(st0) \in 0 .. Len(st0.recv)
    BY <2>2 DEF Shape
  <2> QED BY <1>1, <1>5, <1>7, <2>2, <2>3, Constants
<1>10. /\ TransportInv'
       /\ Told(out') \cup Numbers(recv') = Numbers(recv)
       /\ Told(out') \cap Numbers(recv') = {}
  <2>1. Followed(st, Numbers(recv), ~crossed', top', arrived')
    BY <1>2, <1>8
  <2>2. /\ top' \in Int /\ clock' \in Int /\ crossed' \in BOOLEAN
        /\ arrived' \in SUBSET Int /\ \A m \in arrived' : m <= top'
    BY <1>1, <1>2
  <2> QED BY <1>3, <1>9, <2>1, <2>2, FollowedBecomes
<1> QED BY <1>10 DEF Keeps

\* Nothing happens.
LEMMA TransportStutters == ASSUME TransportInv, UNCHANGED vars PROVE TransportInv'
<1>1. /\ recv' = recv /\ next_report_seq' = next_report_seq /\ fb_count' = fb_count /\ out' = out
      /\ top' = top /\ arrived' = arrived /\ crossed' = crossed /\ clock' = clock
  BY DEF vars, twccVars, netVars
<1>2. State' = State
  BY <1>1 DEF State
<1>3. LossesTrue'
  BY <1>1 DEF TransportInv, LossesTrue, ToldLost, NumberOf, Symbol, Recent
<1> QED BY <1>1, <1>2, <1>3 DEF TransportInv

\* Every step keeps the invariant.
LEMMA TransportStep == ASSUME TransportInv, [Next]_vars PROVE TransportInv'
<1>1. CASE \E n \in (top - Reorder) .. (top + 2), pause \in {0, 1, ByteMod} : Arrive(n, pause)
  BY <1>1, ArriveStep
<1>2. CASE NackLoopReport
  BY <1>2, NackLoopReportStep
<1>3. CASE UNCHANGED vars
  BY <1>3, TransportStutters
<1> QED BY <1>1, <1>2, <1>3 DEF Next

\* In every reachable state the packets that wait arrived, lie near the newest, and
\* the reports have not passed what came in time.
THEOREM TransportAlways == Spec => []TransportInv
<1>1. Init => TransportInv
  BY TransportStart
<1>2. TransportInv /\ [Next]_vars => TransportInv'
  BY TransportStep
<1> QED BY <1>1, <1>2, PTL DEF Spec

-----------------------------------------------------------------------------
\* The list of TransportInv is ordered by wrapped number too.
LEMMA InvGivesOrder == ASSUME TransportInv PROVE FeedbackTrue
<1>1. PICK t : Settled(State, t, top, arrived)
  BY DEF TransportInv
<1>2. Listed(recv, t, top) /\ Len(recv) <= MaxRecv /\ top \in Int
  <2>1. State.recv = recv
    BY StateFollowed
  <2> QED BY <1>1, <2>1 DEF Settled, TransportInv
<1> DEFINE n == Len(recv)
<1>3. ASSUME NEW i \in 1 .. n - 1 PROVE SeqBefore(recv[i].seq, recv[i + 1].seq)
  <2>1. n \in Nat
    BY <1>2 DEF Listed
  <2>2. i \in 1 .. n /\ i + 1 \in 1 .. n /\ i < i + 1
    BY <2>1
  <2>3. /\ t[i] \in Int /\ t[i + 1] \in Int /\ t[i] < t[i + 1] /\ t[i + 1] <= top
        /\ recv[i].seq = t[i] % SeqSpace /\ recv[i + 1].seq = t[i + 1] % SeqSpace
    BY <1>2, <2>2 DEF Listed
  <2>4. top - SeqSpace \div 2 < t[i]
    <3>1. n <= MaxRecv + 1
      BY <1>2, <2>1, Constants
    <3> QED BY <1>2, <2>2, <3>1, Near
  <2>5. t[i] - t[i + 1] < SeqSpace \div 2 /\ t[i + 1] - t[i] < SeqSpace \div 2
    <3>1. t[i] \in Int /\ t[i + 1] \in Int /\ t[i] < t[i + 1] /\ t[i + 1] <= top /\ top \in Int
      BY <1>2, <2>3
    <3> DEFINE x == t[i]
               y == t[i + 1]
               h == SeqSpace \div 2
    <3>2. x \in Int /\ y \in Int /\ x < y /\ y <= top /\ top \in Int /\ h \in Nat /\ top - h < x
      BY <2>4, <3>1, Constants
    <3> HIDE DEF x, y, h
    <3>3. x - y < h /\ y - x < h
      BY <3>2
    <3> QED BY <3>3 DEF x, y, h
  <2>6. SeqBefore(t[i] % SeqSpace, t[i + 1] % SeqSpace)
    BY <2>3, <2>5, BeforeIsLess
  <2> QED BY <2>3, <2>6
<1>4. BacklogOrdered
  BY <1>2, <1>3 DEF BacklogOrdered
<1> QED BY <1>4 DEF FeedbackTrue, TransportInv

\* Always at most MaxRecv packets wait, in ascending order of wrapped number, and
\* as long as no packet came after a report had passed its number no feedback
\* declares a packet lost that has arrived: report() and handle_incoming().
THEOREM FeedbackAlwaysTrue == Spec => []FeedbackTrue
<1>1. TransportInv => FeedbackTrue
  BY InvGivesOrder
<1> QED BY <1>1, TransportAlways, PTL

\* What ReceiptsConserved says of one step.
Conserved ==
    LET told  == UNION {ToldReceived(out'[f]) : f \in 1..Len(out')}
        after == told \cup Numbers(recv')
        extra == after \ Numbers(recv)
    IN  /\ Numbers(recv) \subseteq after
        /\ Cardinality(extra) <= 1
        /\ extra \subseteq {n % SeqSpace : n \in arrived'}
        /\ told \cap Numbers(recv') = {}

\* A step that keeps what waited and one number more conserves the receipts.
LEMMA KeepsConserves ==
    ASSUME NEW x, Keeps(x), x = {} \/ \E n \in arrived' : x = {n % SeqSpace}
    PROVE  Conserved
<1> DEFINE told == Told(out')
           after == told \cup Numbers(recv')
           extra == after \ Numbers(recv)
<1>1. after = Numbers(recv) \cup x /\ told \cap Numbers(recv') = {}
  BY DEF Keeps
<1>2. extra \subseteq x
  BY <1>1
<1>3. extra = {} \/ \E n \in arrived' : extra = {n % SeqSpace}
  BY <1>2
<1> HIDE DEF extra
<1>4. Cardinality(extra) <= 1
  <2>1. CASE extra = {}
    <3>1. Cardinality(extra) = 0
      BY <2>1, FS_EmptySet
    <3> QED BY <3>1
  <2>2. CASE \E n \in arrived' : extra = {n % SeqSpace}
    <3>1. Cardinality(extra) = 1
      BY <2>2, FS_Singleton
    <3> QED BY <3>1
  <2> QED BY <1>3, <2>1, <2>2
<1>5. extra \subseteq {n % SeqSpace : n \in arrived'}
  BY <1>3
<1>6. Numbers(recv) \subseteq after
  BY <1>1
<1> QED BY <1>1, <1>4, <1>5, <1>6 DEF Conserved, Told, extra

\* Every step conserves them.
LEMMA ConservedStep == ASSUME TransportInv, [Next]_vars PROVE [Conserved]_vars
<1>1. CASE \E n \in (top - Reorder) .. (top + 2), pause \in {0, 1, ByteMod} : Arrive(n, pause)
  <2>1. PICK n \in (top - Reorder) .. (top + 2), pause \in {0, 1, ByteMod} : Arrive(n, pause)
    BY <1>1
  <2>2. n \in arrived' /\ Keeps({n % SeqSpace})
    BY <2>1, ArriveStep
  <2> QED BY <2>2, KeepsConserves
<1>2. CASE NackLoopReport
  <2>1. Keeps({})
    BY <1>2, NackLoopReportStep
  <2> QED BY <2>1, KeepsConserves
<1> QED BY <1>1, <1>2 DEF Next

\* No report forgets, invents or repeats a receipt: in every step, what its feedback
\* packets tell received and what still waits are what waited and at most one
\* number more, of a packet that arrived; nothing is both told and kept.
THEOREM ReceiptsAlwaysConserved == Spec => ReceiptsConserved
<1>1. TransportInv /\ [Next]_vars => [Conserved]_vars
  BY ConservedStep
<1> QED BY <1>1, TransportAlways, PTL DEF Spec, ReceiptsConserved, Conserved

-----------------------------------------------------------------------------
\* How a delta goes into a report, and what is read back.
Encoded(d) == IF DeltaStatus(d) = "small" THEN <<"byte", d % ByteMod>> ELSE <<"word", d % WordMod>>
SignedDelta(x) == IF x[1] = "word" /\ x[2] >= WordMod \div 2 THEN x[2] - WordMod ELSE x[2]

\* A delta that no packet overtook and that is within a large one has a place in the
\* report and is read back.
LEMMA DeltaReadBack ==
    ASSUME NEW d \in 0 .. (WordMod \div 2) - 1
    PROVE  DeltaStatus(d) \in {"small", "large"} /\ SignedDelta(Encoded(d)) = d
<1>1. /\ ByteMod \in Nat \ {0} /\ WordMod \in Nat \ {0}
      /\ ByteMod \div 2 \in Nat /\ WordMod \div 2 \in Nat
      /\ 2 * (ByteMod \div 2) <= ByteMod /\ 2 * (WordMod \div 2) <= WordMod
  BY Constants
<1>2. d \in Nat /\ d < WordMod \div 2
  BY <1>1
<1>3. CASE d < ByteMod \div 2
  <2>1. DeltaStatus(d) = "small"
    BY <1>1, <1>2, <1>3 DEF DeltaStatus
  <2>2. d % ByteMod = d
    <3>1. d \in 0 .. ByteMod - 1 /\ d = ByteMod * 0 + d
      BY <1>1, <1>2, <1>3
    <3> QED BY <1>1, <1>2, <3>1, ModIs
  <2>3. Encoded(d) = <<"byte", d>>
    BY <2>1, <2>2 DEF Encoded
  <2> QED BY <2>1, <2>3 DEF SignedDelta
<1>4. CASE ~(d < ByteMod \div 2)
  <2>1. DeltaStatus(d) = "large"
    BY <1>1, <1>2, <1>4 DEF DeltaStatus
  <2>2. d % WordMod = d
    <3>1. d \in 0 .. WordMod - 1 /\ d = WordMod * 0 + d
      BY <1>1, <1>2
    <3> QED BY <1>1, <1>2, <3>1, ModIs
  <2>3. Encoded(d) = <<"word", d>>
    BY <2>1, <2>2 DEF Encoded
  <2>4. ~(d >= WordMod \div 2)
    BY <1>1, <1>2
  <2> QED BY <2>1, <2>3, <2>4 DEF SignedDelta
<1> QED BY <1>3, <1>4

\* The first n elements of e.
FirstOf(e, n) == [j \in 1 .. n |-> e[j]]

\* Pieces of at most one element, one after the other: c of them have come with the k-th.
LEMMA PiecesFlattened ==
    ASSUME NEW n \in Nat \ {0}, NEW m \in Nat, NEW S, NEW e \in [1 .. m -> S],
           NEW c \in [0 .. n -> 0 .. m], c[0] = 0,
           NEW piece, piece = [k \in 1 .. n |-> piece[k]],
           \A k \in 1 .. n : \/ c[k] = c[k - 1] /\ piece[k] = << >>
                             \/ c[k] = c[k - 1] + 1 /\ piece[k] = << e[c[k]] >>
    PROVE  FlattenSeq(piece) = FirstOf(e, c[n])
<1> DEFINE Rec(b) == b = [i \in 1 .. n |-> IF i = 1 THEN piece[i] ELSE b[i - 1] \o piece[i]]
           flatten == CHOOSE b : Rec(b)
           upto(l) == [j \in 1 .. l |-> e[j]]
           sol == [k \in 1 .. n |-> upto(c[k])]
<1>1. FlattenSeq(piece) = flatten[n]
  <2>1. Len(piece) = n
    <3>1. DOMAIN piece = 1 .. n
      OBVIOUS
    <3> QED BY <3>1
  <2> QED BY <2>1 DEF FlattenSeq
<1>2. \A l \in 0 .. m : upto(l) \in Seq(S) /\ Len(upto(l)) = l /\ \A j \in 1 .. l : upto(l)[j] = e[j]
  OBVIOUS
<1>3. upto(0) = << >>
  OBVIOUS
<1>4. ASSUME NEW l \in 1 .. m PROVE upto(l) = upto(l - 1) \o << e[l] >>
  <2> DEFINE a == upto(l - 1)
             b == << e[l] >>
             d == upto(l)
  <2>1. l - 1 \in 0 .. m /\ l \in 0 .. m /\ l \in Nat /\ l - 1 \in Nat
    OBVIOUS
  <2>2. /\ a \in Seq(S) /\ Len(a) = l - 1 /\ \A j \in 1 .. l - 1 : a[j] = e[j]
        /\ d \in Seq(S) /\ Len(d) = l /\ \A j \in 1 .. l : d[j] = e[j]
    <3> HIDE DEF upto
    <3> QED BY <1>2, <2>1
  <2>3. b \in Seq(S) /\ Len(b) = 1 /\ b[1] = e[l]
    OBVIOUS
  <2> HIDE DEF a, b, d
  <2>4. /\ a \o b \in Seq(S) /\ Len(a \o b) = l
        /\ \A j \in 1 .. l : (a \o b)[j] = IF j <= l - 1 THEN a[j] ELSE b[j - (l - 1)]
    <3>1. /\ a \o b \in Seq(S) /\ Len(a \o b) = Len(a) + Len(b)
          /\ \A j \in 1 .. Len(a) + Len(b) : (a \o b)[j] = IF j <= Len(a) THEN a[j] ELSE b[j - Len(a)]
      BY <2>2, <2>3, ConcatProperties, Zenon
    <3>2. Len(a) + Len(b) = l
      BY <2>1, <2>2, <2>3
    <3> QED BY <2>2, <3>1, <3>2
  <2>5. \A j \in 1 .. l : d[j] = (a \o b)[j]
    <3> SUFFICES ASSUME NEW j \in 1 .. l PROVE d[j] = (a \o b)[j]
      OBVIOUS
    <3>1. CASE j <= l - 1
      BY <2>1, <2>2, <2>4, <3>1
    <3>2. CASE ~(j <= l - 1)
      <4>1. j = l /\ j - (l - 1) = 1
        BY <3>2
      <4> QED BY <2>1, <2>2, <2>3, <2>4, <3>2, <4>1
    <3> QED BY <3>1, <3>2
  <2>6. d = a \o b
    BY <2>2, <2>4, <2>5, SeqEqual
  <2> QED BY <2>6 DEF a, b, d
<1> HIDE DEF upto
<1>5. \A k \in 1 .. n : sol[k] = upto(c[k])
  OBVIOUS
<1>6. ASSUME NEW k \in 1 .. n PROVE sol[k] = IF k = 1 THEN piece[k] ELSE sol[k - 1] \o piece[k]
  <2>0. k - 1 \in 0 .. n /\ c[k - 1] \in 0 .. m /\ c[k] \in 0 .. m
    <3>1. k - 1 \in 0 .. n /\ k \in 0 .. n
      OBVIOUS
    <3> QED BY <3>1
  <2>1. upto(c[k]) = upto(c[k - 1]) \o piece[k]
    <3>1. upto(c[k - 1]) \in Seq(S)
      BY <1>2, <2>0
    <3>2. CASE c[k] = c[k - 1] /\ piece[k] = << >>
      <4> DEFINE a == upto(c[k - 1])
      <4>1. a \in Seq(S)
        BY <3>1
      <4> HIDE DEF a
      <4>2. a \o << >> = a
        BY <4>1, ConcatEmptySeq
      <4> QED BY <3>2, <4>2 DEF a
    <3>3. CASE c[k] = c[k - 1] + 1 /\ piece[k] = << e[c[k]] >>
      <4>1. c[k] \in 1 .. m /\ c[k] - 1 = c[k - 1]
        BY <2>0, <3>3
      <4>2. upto(c[k]) = upto(c[k] - 1) \o << e[c[k]] >>
        BY <1>4, <4>1
      <4> QED BY <3>3, <4>1, <4>2
    <3> QED BY <3>2, <3>3
  <2>2. CASE k = 1
    <3>1. upto(c[k - 1]) = << >>
      BY <1>3, <2>2
    <3>2. piece[k] \in Seq(S)
      <4>1. CASE piece[k] = << >>
        BY <4>1
      <4>2. CASE c[k] = c[k - 1] + 1 /\ piece[k] = << e[c[k]] >>
        <5>1. c[k] \in 1 .. m
          BY <2>0, <4>2
        <5>2. e[c[k]] \in S
          BY <5>1
        <5> DEFINE x == e[c[k]]
        <5>3. x \in S /\ piece[k] = << x >>
          BY <4>2, <5>2
        <5>4. << x >> \in Seq(S)
          <6> HIDE DEF x
          <6> QED BY <5>3
        <5> QED BY <5>3, <5>4, Zenon
      <4> QED BY <4>1, <4>2
    <3>3. << >> \o piece[k] = piece[k]
      BY <3>2, ConcatEmptySeq
    <3> QED BY <1>5, <2>1, <2>2, <3>1, <3>3
  <2>3. CASE k # 1
    <3>1. k - 1 \in 1 .. n
      BY <2>3
    <3> QED BY <1>5, <2>1, <2>3, <3>1
  <2> QED BY <2>2, <2>3
<1>7. sol = [k \in 1 .. n |-> sol[k]]
  OBVIOUS
<1> HIDE DEF sol
<1>8. Rec(sol)
  BY <1>6, <1>7
<1>9. Rec(flatten)
  <2> HIDE DEF Rec
  <2> QED BY <1>8
<1> HIDE DEF flatten
<1>10. \A k \in 1 .. n : flatten[k] = IF k = 1 THEN piece[k] ELSE flatten[k - 1] \o piece[k]
  BY <1>9
<1> DEFINE Ok == { k \in 0 .. n : k # 0 => flatten[k] = sol[k] }
<1>11. 0 \in Ok
  OBVIOUS
<1>12. \A k \in 1 .. n : k - 1 \in Ok => k \in Ok
  <2> SUFFICES ASSUME NEW k \in 1 .. n, k - 1 # 0 => flatten[k - 1] = sol[k - 1]
               PROVE  flatten[k] = sol[k]
    OBVIOUS
  <2> QED BY <1>6, <1>10
<1>13. \A k \in 0 .. n : k \in Ok
  <2> HIDE DEF Ok
  <2>1. n \in Nat
    OBVIOUS
  <2> QED BY <1>11, <1>12, <2>1, UpTo, Zenon
<1>14. flatten[n] = sol[n]
  BY <1>13
<1>15. sol[n] = upto(c[n])
  BY <1>5
<1> HIDE DEF flatten, sol
<1>16. FlattenSeq(piece) = upto(c[n])
  BY <1>1, <1>14, <1>15
<1> QED BY <1>16 DEF upto, FirstOf

\* How many entries a report has covered with its k-th status.
Covered(st, k) == Cardinality({i \in 1 .. Len(st.recv) : Places(st.recv, Base(st))[i] < k})

\* The statuses cover the entries one after the other.
LEMMA CoveredSteps ==
    ASSUME NEW st, NEW t, NEW newest \in Int, Listed(st.recv, t, newest), Len(st.recv) \in 1 .. MaxRecv + 1,
           NEW lead, Shape(st, t, lead)
    PROVE  /\ Covered(st, 0) = 0 /\ Covered(st, Size(st)) = Used(st)
           /\ \A k \in 0 .. Size(st) : Covered(st, k) \in 0 .. Used(st)
           /\ \A k \in 1 .. Size(st) :
                 \/ /\ Covered(st, k) = Covered(st, k - 1)
                    /\ \A i \in 1 .. Len(st.recv) : Places(st.recv, Base(st))[i] # k - 1
                 \/ /\ Covered(st, k) = Covered(st, k - 1) + 1
                    /\ Places(st.recv, Base(st))[Covered(st, k)] = k - 1
                    /\ \A i \in 1 .. Len(st.recv) :
                          Places(st.recv, Base(st))[i] = k - 1 => i = Covered(st, k)
<1> DEFINE L == Len(st.recv)
           place == Places(st.recv, Base(st))
           c(k) == Covered(st, k)
           n == Size(st)
           P(k) == {i \in 1 .. L : place[i] < k}
<1>1. /\ lead \in Space /\ n \in Nat \ {0} /\ Used(st) \in 0 .. L
      /\ \A i \in 1 .. L : place[i] = lead + (t[i] - t[1])
      /\ \A i \in 1 .. L : i <= Used(st) <=> lead + (t[i] - t[1]) < n
  BY DEF Shape
<1>2. /\ L \in Nat \ {0} /\ \A i \in 1 .. L : t[i] \in Int
      /\ \A i, j \in 1 .. L : i < j => t[i] < t[j]
  <2>1. L \in Nat \ {0}
    BY Constants
  <2>2. \A i \in 1 .. L : t[i] \in Int
    BY DEF Listed
  <2>3. \A i, j \in 1 .. L : i < j => t[i] < t[j]
    BY DEF Listed
  <2> QED BY <2>1, <2>2, <2>3
<1>3. \A k : c(k) = Cardinality(P(k))
  BY DEF Covered
<1> HIDE DEF L, place, n, c
<1>4. ASSUME NEW i \in 1 .. L, NEW j \in 1 .. L, i < j PROVE place[i] < place[j]
  <2>1. lead \in Int /\ t[1] \in Int /\ t[i] \in Int /\ t[j] \in Int /\ t[i] < t[j]
    BY <1>1, <1>2, <1>4 DEF Space
  <2>2. place[i] = lead + (t[i] - t[1]) /\ place[j] = lead + (t[j] - t[1])
    BY <1>1
  <2> QED BY <2>1, <2>2
<1>5. ASSUME NEW i \in 1 .. L PROVE place[i] \in Nat
  <2>1. lead \in Nat /\ t[1] \in Int /\ t[i] \in Int /\ (i = 1 \/ 1 < i)
    BY <1>1, <1>2 DEF Space
  <2>2. t[1] <= t[i]
    BY <1>2, <2>1
  <2> QED BY <1>1, <2>1, <2>2
<1>6. ASSUME NEW k \in Int PROVE c(k) \in 0 .. L /\ \A i \in 1 .. L : i <= c(k) <=> place[i] < k
  <2>1. P(k) \in SUBSET (1 .. L)
    OBVIOUS
  <2>2. ASSUME NEW i \in 1 .. L, NEW j \in 1 .. L, j \in P(k), i < j PROVE i \in P(k)
    <3>1. place[i] < place[j] /\ place[j] < k /\ place[i] \in Nat /\ place[j] \in Nat
      BY <1>4, <1>5, <2>2
    <3>2. place[i] < k
      BY <3>1
    <3> QED BY <3>2
  <2>3. \A i \in 1 .. L : i \in P(k) <=> place[i] < k
    OBVIOUS
  <2>4. L \in Nat
    BY <1>2
  <2> DEFINE Q == P(k)
  <2>5. Cardinality(Q) \in 0 .. L /\ Q = 1 .. Cardinality(Q)
    <3> HIDE DEF Q
    <3>1. Q \in SUBSET (1 .. L) /\ \A i, j \in 1 .. L : j \in Q /\ i < j => i \in Q
      BY <2>1, <2>2 DEF Q
    <3> QED BY <2>4, <3>1, PrefixCount
  <2> HIDE DEF P
  <2>6. c(k) = Cardinality(Q)
    BY <1>3
  <2> QED BY <2>3, <2>5, <2>6 DEF Q
<1>7. c(0) = 0
  <2>1. c(0) \in 0 .. L /\ \A i \in 1 .. L : i <= c(0) <=> place[i] < 0
    BY <1>6
  <2>2. CASE c(0) # 0
    <3>1. c(0) \in 1 .. L /\ place[c(0)] < 0
      BY <2>1, <2>2
    <3> QED BY <1>5, <3>1
  <2> QED BY <2>2
<1>8. c(n) = Used(st)
  <2>1. c(n) \in 0 .. L /\ \A i \in 1 .. L : i <= c(n) <=> place[i] < n
    <3>1. n \in Int
      BY <1>1
    <3> QED BY <3>1, <1>6, Zenon
  <2>2. \A i \in 1 .. L : i <= Used(st) <=> place[i] < n
    BY <1>1
  <2> DEFINE u == Used(st)
  <2>3. u \in 0 .. L /\ c(n) \in 0 .. L /\ \A i \in 1 .. L : i <= c(n) <=> i <= u
    BY <1>1, <2>1, <2>2
  <2> HIDE DEF u
  <2>4. c(n) = u
    <3>1. c(n) # 0 => c(n) <= u
      BY <2>3
    <3>2. u # 0 => u <= c(n)
      BY <2>3
    <3> QED BY <2>3, <3>1, <3>2
  <2> QED BY <2>4 DEF u
<1>9. ASSUME NEW k \in 0 .. n PROVE c(k) \in 0 .. Used(st)
  <2>0. k <= n /\ k \in Int /\ n \in Int
    BY <1>1
  <2>1. c(k) \in 0 .. L /\ c(n) \in 0 .. L
    BY <2>0, <1>6, Zenon
  <2>5. \A i \in 1 .. L : (i <= c(k) <=> place[i] < k) /\ (i <= c(n) <=> place[i] < n)
    BY <2>0, <1>6, Zenon
  <2>2. CASE c(k) # 0
    <3> DEFINE a == c(k)
               b == c(n)
    <3>0. a \in 0 .. L /\ a # 0 /\ \A i \in 1 .. L : (i <= a <=> place[i] < k) /\ (i <= b <=> place[i] < n)
      BY <2>1, <2>2, <2>5
    <3> HIDE DEF a, b
    <3>1. a \in 1 .. L /\ place[a] < k
      BY <1>2, <3>0
    <3>2. place[a] < n
      BY <1>5, <2>0, <3>1
    <3>3. a <= b
      BY <3>0, <3>1, <3>2
    <3> QED BY <1>1, <1>8, <2>1, <3>3 DEF a, b
  <2> QED BY <1>1, <2>1, <2>2
<1>10. ASSUME NEW k \in 1 .. n
       PROVE  \/ c(k) = c(k - 1) /\ \A i \in 1 .. L : place[i] # k - 1
              \/ c(k) = c(k - 1) + 1 /\ place[c(k)] = k - 1 /\ \A i \in 1 .. L : place[i] = k - 1 => i = c(k)
  <2>1. /\ k \in Int /\ k - 1 \in Int
        /\ c(k) \in 0 .. L /\ \A i \in 1 .. L : i <= c(k) <=> place[i] < k
        /\ c(k - 1) \in 0 .. L /\ \A i \in 1 .. L : i <= c(k - 1) <=> place[i] < k - 1
    <3>1. k \in Int /\ k - 1 \in Int
      OBVIOUS
    <3> QED BY <3>1, <1>6, Zenon
  <2> DEFINE a == c(k - 1)
             b == c(k)
  <2>2. a \in 0 .. L /\ b \in 0 .. L /\ L \in Nat
    BY <1>2, <2>1
  <2>3. \A i \in 1 .. L : place[i] \in Nat /\ (i <= b <=> place[i] < k) /\ (i <= a <=> place[i] < k - 1)
    BY <1>5, <2>1
  <2> HIDE DEF a, b
  <2>4. \A i \in 1 .. L : (i <= b /\ ~(i <= a)) <=> place[i] = k - 1
    BY <2>1, <2>3
  <2>5. a <= b
    <3>1. a # 0 => a <= b
      BY <2>1, <2>2, <2>3
    <3> QED BY <2>2, <3>1
  <2>6. CASE a = b
    <3>1. \A i \in 1 .. L : place[i] # k - 1
      BY <2>2, <2>4, <2>6
    <3> QED BY <2>6, <3>1 DEF a, b
  <2>7. CASE a # b
    <3>1. a + 1 \in 1 .. L /\ b \in 1 .. L /\ a + 1 <= b /\ ~(a + 1 <= a) /\ ~(b <= a) /\ b <= b
      BY <2>2, <2>5, <2>7
    <3>2. place[a + 1] = k - 1 /\ place[b] = k - 1
      BY <2>4, <3>1
    <3>3. a + 1 = b
      <4>1. CASE a + 1 < b
        <5>1. place[a + 1] < place[b]
          BY <1>4, <3>1, <4>1
        <5> QED BY <2>3, <3>1, <3>2, <5>1
      <4> QED BY <2>2, <3>1, <4>1
    <3>4. ASSUME NEW i \in 1 .. L, place[i] = k - 1 PROVE i = b
      <4>1. i <= b /\ ~(i <= a)
        BY <2>4, <3>4
      <4> QED BY <2>2, <3>3, <4>1
    <3> QED BY <3>2, <3>3, <3>4 DEF a, b
  <2> QED BY <2>6, <2>7
<1> QED BY <1>7, <1>8, <1>9, <1>10 DEF c, n, L, place

\* No covered packet arrived before the one in front of it, or later than a large
\* delta can tell.
Smooth(st) == \A i \in 1 .. Used(st) : Delta(st, i) \in 0 .. (WordMod \div 2) - 1

\* The deltas of a report are those of the entries it covers.
LEMMA DeltasAre ==
    ASSUME NEW st, NEW t, NEW newest \in Int, Listed(st.recv, t, newest), Len(st.recv) \in 1 .. MaxRecv + 1,
           NEW lead, Shape(st, t, lead), Smooth(st)
    PROVE  Feedback(st).deltas = [i \in 1 .. Used(st) |-> Encoded(Delta(st, i))]
<1> DEFINE L == Len(st.recv)
           n == Size(st)
           u == Used(st)
           place == Places(st.recv, Base(st))
           packets == Packets(st)
           one(p) == IF p.status = "small" THEN << <<"byte", p.delta % ByteMod>> >>
                     ELSE IF p.status = "large" THEN << <<"word", p.delta % WordMod>> >>
                     ELSE << >>
           piece == [k \in 1 .. n |-> one(packets[k])]
           e == [i \in 1 .. u |-> Encoded(Delta(st, i))]
           c == [k \in 0 .. n |-> Covered(st, k)]
           S == {e[i] : i \in 1 .. u}
<1>1. n \in Nat \ {0} /\ u \in 0 .. L /\ L \in Nat
  <2>1. L \in Nat
    BY Constants
  <2> QED BY <2>1 DEF Shape
<1>2. Len(packets) = n /\ \A k \in 1 .. n : packets[k] = Info(st, k)
  BY <1>1 DEF Packets
<1>3. Feedback(st).deltas = DeltaBytes(packets)
  BY DEF Feedback, build_transport_cc, tcc_build_packet_status
<1>4. DeltaBytes(packets) = FlattenSeq(piece)
  BY <1>2 DEF DeltaBytes
<1>5. /\ Covered(st, 0) = 0 /\ Covered(st, n) = u
      /\ \A k \in 0 .. n : Covered(st, k) \in 0 .. u
      /\ \A k \in 1 .. n :
            \/ Covered(st, k) = Covered(st, k - 1) /\ \A i \in 1 .. L : place[i] # k - 1
            \/ /\ Covered(st, k) = Covered(st, k - 1) + 1 /\ place[Covered(st, k)] = k - 1
               /\ \A i \in 1 .. L : place[i] = k - 1 => i = Covered(st, k)
  BY CoveredSteps
<1>6. \A k \in 0 .. n : c[k] = Covered(st, k)
  OBVIOUS
<1>7. \A k \in 1 .. n : piece[k] = one(packets[k])
  OBVIOUS
<1>8. piece = [k \in 1 .. n |-> piece[k]]
  OBVIOUS
<1>9. \A i \in 1 .. u : e[i] = Encoded(Delta(st, i))
  OBVIOUS
<1> HIDE DEF L, n, u, place, packets, piece, e, c
<1>10. ASSUME NEW k \in 1 .. n
       PROVE  \/ c[k] = c[k - 1] /\ piece[k] = << >>
              \/ c[k] = c[k - 1] + 1 /\ piece[k] = << e[c[k]] >>
  <2>1. k - 1 \in 0 .. n /\ k \in 0 .. n
    BY <1>1
  <2>2. c[k] = Covered(st, k) /\ c[k - 1] = Covered(st, k - 1) /\ c[k] \in 0 .. u /\ c[k - 1] \in 0 .. u
    BY <1>5, <1>6, <2>1
  <2>3. piece[k] = one(Info(st, k))
    BY <1>2, <1>7
  <2>4. \/ c[k] = c[k - 1] /\ \A i \in 1 .. L : place[i] # k - 1
        \/ /\ c[k] = c[k - 1] + 1 /\ place[c[k]] = k - 1
           /\ \A i \in 1 .. L : place[i] = k - 1 => i = c[k]
    BY <1>5, <2>2
  <2>5. CASE \A i \in 1 .. L : place[i] # k - 1
    <3>1. Info(st, k).status = "not_received"
      BY <2>5 DEF Info, L, place
    <3>2. piece[k] = << >>
      BY <2>3, <3>1
    <3>3. CASE c[k] = c[k - 1]
      BY <3>2, <3>3
    <3>4. CASE c[k] = c[k - 1] + 1
      <4>1. c[k] \in 1 .. L
        BY <1>1, <2>2, <3>4
      <4>2. place[c[k]] # k - 1
        BY <2>5, <4>1
      <4>3. c[k] # c[k - 1]
        BY <2>2, <3>4
      <4> QED BY <2>4, <4>2, <4>3, Zenon
    <3> QED BY <2>4, <3>3, <3>4
  <2>6. CASE /\ c[k] = c[k - 1] + 1 /\ place[c[k]] = k - 1
             /\ \A i \in 1 .. L : place[i] = k - 1 => i = c[k]
    <3> DEFINE i0 == c[k]
    <3>1. i0 \in 1 .. u /\ i0 \in 1 .. L
      BY <1>1, <2>2, <2>6
    <3>2. place[i0] = k - 1 /\ \A i \in 1 .. L : place[i] = k - 1 => i = i0
      BY <2>6
    <3> HIDE DEF i0
    <3>3. InPlace(st, k) = i0
      BY <3>1, <3>2 DEF InPlace, L, place
    <3> DEFINE d == Delta(st, i0)
    <3>4. Info(st, k).status = DeltaStatus(d) /\ Info(st, k).delta = d
      BY <3>1, <3>2, <3>3 DEF Info, L, place
    <3>5. d \in 0 .. (WordMod \div 2) - 1
      BY <3>1 DEF Smooth, u
    <3> HIDE DEF d
    <3>6. DeltaStatus(d) \in {"small", "large"}
      BY <3>5, DeltaReadBack
    <3>7. one(Info(st, k)) = << Encoded(d) >>
      BY <3>4, <3>6 DEF Encoded
    <3>8. e[i0] = Encoded(d)
      BY <1>9, <3>1 DEF d
    <3> HIDE DEF one
    <3>9. piece[k] = << e[i0] >>
      BY <2>3, <3>7, <3>8
    <3> QED BY <2>6, <3>9 DEF i0
  <2> QED BY <2>4, <2>5, <2>6
<1> HIDE DEF one
<1>11. c \in [0 .. n -> 0 .. u] /\ c[0] = 0 /\ c[n] = u
  <2>1. c[0] = 0 /\ c[n] = u
    BY <1>1, <1>5, <1>6
  <2>2. c \in [0 .. n -> 0 .. u]
    BY <1>5 DEF c
  <2> QED BY <2>1, <2>2
<1>12. e \in [1 .. u -> S]
  BY DEF e
<1> HIDE DEF S
<1>13. u \in Nat
  BY <1>1
<1>14. FlattenSeq(piece) = FirstOf(e, c[n])
  <2>1. \A k \in 1 .. n : \/ c[k] = c[k - 1] /\ piece[k] = << >>
                          \/ c[k] = c[k - 1] + 1 /\ piece[k] = << e[c[k]] >>
    BY <1>10
  <2>2. n \in Nat \ {0}
    BY <1>1
  <2>3. \A e0 \in [1 .. u -> S] : \A c0 \in [0 .. n -> 0 .. u] : \A p0 :
           c0[0] = 0 /\ p0 = [k \in 1 .. n |-> p0[k]]
           /\ (\A k \in 1 .. n : \/ c0[k] = c0[k - 1] /\ p0[k] = << >>
                                 \/ c0[k] = c0[k - 1] + 1 /\ p0[k] = << e0[c0[k]] >>)
           => FlattenSeq(p0) = FirstOf(e0, c0[n])
    BY <1>13, <2>2, PiecesFlattened, Zenon
  <2>4. (\A k \in 1 .. n : \/ c[k] = c[k - 1] /\ piece[k] = << >>
                           \/ c[k] = c[k - 1] + 1 /\ piece[k] = << e[c[k]] >>)
        => FlattenSeq(piece) = FirstOf(e, c[n])
    BY <1>8, <1>11, <1>12, <2>3, Zenon
  <2> QED BY <2>1, <2>4, Zenon
<1>15. FlattenSeq(piece) = e
  BY <1>11, <1>14 DEF e, FirstOf
<1> QED BY <1>3, <1>4, <1>15 DEF e, u

\* The deltas, added up from the reference time, are the arrival times.
LEMMA TimesAddUp ==
    ASSUME NEW fb, NEW u \in Nat, NEW ts \in [1 .. u -> Int], NEW ref \in Int, fb.reference_time = ref,
           NEW d \in [1 .. u -> 0 .. (WordMod \div 2) - 1],
           fb.deltas = [i \in 1 .. u |-> Encoded(d[i])],
           \A i \in 1 .. u : d[i] = ts[i] - (IF i = 1 THEN ref ELSE ts[i - 1])
    PROVE  DecodedTimes(fb) = ts
<1> DEFINE Rec(b) == b = [i \in 0 .. u |-> IF i = 0 THEN ref ELSE b[i - 1] + SignedDelta(fb.deltas[i])]
           time == CHOOSE b : Rec(b)
           sol == [i \in 0 .. u |-> IF i = 0 THEN ref ELSE ts[i]]
<1>1. Len(fb.deltas) = u /\ \A i \in 1 .. u : fb.deltas[i] = Encoded(d[i])
  OBVIOUS
<1>2. DecodedTimes(fb) = [i \in 1 .. u |-> time[i]]
  <2>1. fb.reference_time = ref
    OBVIOUS
  <2> QED BY <1>1, <2>1 DEF DecodedTimes, SignedDelta
<1>3. \A i \in 1 .. u : SignedDelta(fb.deltas[i]) = d[i]
  <2> SUFFICES ASSUME NEW i \in 1 .. u PROVE SignedDelta(fb.deltas[i]) = d[i]
    OBVIOUS
  <2>1. d[i] \in 0 .. (WordMod \div 2) - 1
    OBVIOUS
  <2>2. SignedDelta(Encoded(d[i])) = d[i]
    BY <2>1, DeltaReadBack
  <2> QED BY <1>1, <2>2
<1>4. \A i \in 0 .. u : sol[i] = IF i = 0 THEN ref ELSE sol[i - 1] + SignedDelta(fb.deltas[i])
  <2>1. sol[0] = ref
    <3>1. 0 \in 0 .. u
      OBVIOUS
    <3> QED BY <3>1
  <2>2. ASSUME NEW i \in 1 .. u PROVE sol[i] = sol[i - 1] + d[i]
    <3>1. sol[i] = ts[i] /\ sol[i - 1] = IF i = 1 THEN ref ELSE ts[i - 1]
      OBVIOUS
    <3>2. sol[i - 1] \in Int /\ ts[i] \in Int
      <4>1. i # 1 => i - 1 \in 1 .. u
        OBVIOUS
      <4> QED BY <3>1, <4>1
    <3>3. d[i] = ts[i] - sol[i - 1]
      BY <3>1
    <3> DEFINE x == sol[i - 1]
               y == ts[i]
               z == d[i]
    <3>4. x \in Int /\ y \in Int /\ z = y - x
      BY <3>2, <3>3
    <3> HIDE DEF x, y, z
    <3>5. y = x + z
      BY <3>4
    <3> HIDE DEF sol
    <3> QED BY <3>1, <3>5 DEF x, y, z
  <2> HIDE DEF sol
  <2> SUFFICES ASSUME NEW i \in 0 .. u
               PROVE  sol[i] = IF i = 0 THEN ref ELSE sol[i - 1] + SignedDelta(fb.deltas[i])
    OBVIOUS
  <2>3. CASE i = 0
    BY <2>1, <2>3
  <2>4. CASE i # 0
    <3>1. i \in 1 .. u
      BY <2>4
    <3> QED BY <1>3, <2>2, <2>4, <3>1, Zenon
  <2> QED BY <2>3, <2>4
<1>5. sol = [i \in 0 .. u |-> sol[i]]
  OBVIOUS
<1>6. Rec(sol)
  <2> HIDE DEF sol
  <2> QED BY <1>4, <1>5
<1>7. Rec(time)
  <2> HIDE DEF Rec
  <2> QED BY <1>6
<1> HIDE DEF time
<1>8. \A i \in 0 .. u : time[i] = IF i = 0 THEN ref ELSE time[i - 1] + SignedDelta(fb.deltas[i])
  BY <1>7
<1>9. \A i \in 0 .. u : time[i] = sol[i]
  <2>1. time[0] = sol[0]
    <3>1. 0 \in 0 .. u
      OBVIOUS
    <3> HIDE DEF sol
    <3> QED BY <1>4, <1>8, <3>1, Zenon
  <2>2. \A k \in 1 .. u : time[k - 1] = sol[k - 1] => time[k] = sol[k]
    <3> HIDE DEF sol
    <3> SUFFICES ASSUME NEW k \in 1 .. u, time[k - 1] = sol[k - 1] PROVE time[k] = sol[k]
      OBVIOUS
    <3>1. k \in 0 .. u /\ k # 0
      OBVIOUS
    <3>2. time[k] = time[k - 1] + SignedDelta(fb.deltas[k]) /\ sol[k] = sol[k - 1] + SignedDelta(fb.deltas[k])
      BY <1>4, <1>8, <3>1, Zenon
    <3> QED BY <3>2, Zenon
  <2> HIDE DEF sol
  <2>3. u \in Nat
    OBVIOUS
  <2> DEFINE Ok == {k \in 0 .. u : time[k] = sol[k]}
  <2>4. 0 \in Ok /\ \A k \in 1 .. u : k - 1 \in Ok => k \in Ok
    BY <2>1, <2>2, <2>3
  <2>5. \A k \in 0 .. u : k \in Ok
    <3> HIDE DEF Ok
    <3> QED BY <2>3, <2>4, UpTo, Zenon
  <2> QED BY <2>5
<1>10. \A i \in 1 .. u : time[i] = ts[i]
  BY <1>9
<1>11. [i \in 1 .. u |-> time[i]] = ts
  BY <1>10
<1> QED BY <1>2, <1>11

\* What TimesDecode says of one step.
Decoded ==
    LET ts == [i \in 1..(Len(recv) - Len(recv')) |-> recv[i].ts]
    IN  (/\ NackLoopReport
         /\ \A i \in 1..Len(ts) - 1 : ts[i + 1] - ts[i] \in 0..(WordMod \div 2) - 1)
        => DecodedTimes(out'[1]) = ts

\* The first delta counts from the reference time, less than RefTicks before it.
LEMMA FirstDelta ==
    ASSUME NEW a \in Int
    PROVE  (a \div RefTicks) * RefTicks \in Int /\ a - (a \div RefTicks) * RefTicks \in 0 .. (WordMod \div 2) - 1
<1> DEFINE q == a \div RefTicks
           r == a % RefTicks
<1>1. q \in Int /\ r \in 0 .. RefTicks - 1 /\ a = RefTicks * q + r
  BY Constants, DivMod
<1>2. RefTicks \in Nat \ {0} /\ RefTicks <= WordMod \div 2 /\ WordMod \div 2 \in Int
  BY Constants, BoundsAssumption
<1> HIDE DEF q, r
<1> DEFINE p == q * RefTicks
<1>3. p \in Int /\ a = p + r
  BY <1>1, <1>2
<1> HIDE DEF p
<1>4. a - p \in 0 .. (WordMod \div 2) - 1
  BY <1>1, <1>2, <1>3
<1> QED BY <1>3, <1>4 DEF p, q

\* A report of the nack loop tells the arrival times.
LEMMA DecodedStep == ASSUME TransportInv, [Next]_vars PROVE [Decoded]_vars
<1> SUFFICES ASSUME NackLoopReport PROVE Decoded
  BY DEF Decoded
<1>1. PICK t : Settled(State, t, top, arrived)
  BY DEF TransportInv
<1>2. PICK st : st = State
  OBVIOUS
<1>3. /\ top \in Int /\ arrived \in SUBSET Int /\ Len(recv) <= MaxRecv
  BY DEF TransportInv
<1>4. /\ st.recv = recv /\ st.out = << >> /\ recv \in Seq(Entries) /\ Len(recv) \in Nat /\ recv # << >>
  BY <1>2, StateFollowed DEF NackLoopReport
<1>5. Len(st.recv) \in 1 .. MaxRecv + 1
  <2>1. Len(recv) # 0
    BY <1>4
  <2> QED BY <1>3, <1>4, <2>1, Constants
<1>6. recv' = report(st).recv /\ out' = report(st).out
  BY <1>2 DEF NackLoopReport, Becomes
<1> DEFINE u == Used(st)
           lead == Lead(st.recv, Base(st))
           ts == [i \in 1 .. u |-> recv[i].ts]
           d == [i \in 1 .. u |-> Delta(st, i)]
           ref == RefTime(st)
           fb == Feedback(st)
<1>7. /\ Shape(st, t, lead) /\ Len(report(st).recv) = Len(st.recv) - u
      /\ report(st).out = Append(st.out, fb)
  BY <1>1, <1>2, <1>3, <1>5, ReportSettles
<1>8. u \in 0 .. Len(recv) /\ Listed(st.recv, t, top)
  BY <1>1, <1>2, <1>4, <1>7 DEF Shape, Settled
<1>9. Len(recv) - Len(recv') = u
  BY <1>4, <1>6, <1>7, <1>8
<1>10. out'[1] = fb
  <2> HIDE DEF fb
  <2>1. Append(<< >>, fb)[1] = fb
    OBVIOUS
  <2> QED BY <1>4, <1>6, <1>7, <2>1
<1> HIDE DEF u, lead
<1>11. \A i \in 1 .. Len(recv) : recv[i].ts \in Int
  <2>1. \A i \in 1 .. Len(recv) : recv[i] \in Entries
    BY <1>4, ElementOfSeq
  <2> QED BY <2>1 DEF Entries
<1>12. ts \in [1 .. u -> Int] /\ Len(ts) = u /\ \A i \in 1 .. u : ts[i] = recv[i].ts
  BY <1>4, <1>8, <1>11
<1>13. ref \in Int /\ recv[1].ts - ref \in 0 .. (WordMod \div 2) - 1
  <2>1. recv[1].ts \in Int
    BY <1>4, <1>5, <1>11
  <2> QED BY <1>4, <2>1, FirstDelta DEF RefTime
<1>14. SUFFICES ASSUME \A i \in 1 .. u - 1 : ts[i + 1] - ts[i] \in 0 .. (WordMod \div 2) - 1
                PROVE  DecodedTimes(fb) = ts
  BY <1>9, <1>10, <1>12 DEF Decoded
<1> HIDE DEF ts, ref
<1>15. \A i \in 1 .. u : Delta(st, i) = ts[i] - (IF i = 1 THEN ref ELSE ts[i - 1])
  <2> SUFFICES ASSUME NEW i \in 1 .. u PROVE Delta(st, i) = ts[i] - (IF i = 1 THEN ref ELSE ts[i - 1])
    OBVIOUS
  <2>1. i # 1 => i - 1 \in 1 .. u
    BY <1>4, <1>8
  <2> QED BY <1>4, <1>12, <2>1 DEF Delta, ref
<1>16. \A i \in 1 .. u : Delta(st, i) \in 0 .. (WordMod \div 2) - 1
  <2> SUFFICES ASSUME NEW i \in 1 .. u PROVE Delta(st, i) \in 0 .. (WordMod \div 2) - 1
    OBVIOUS
  <2>1. CASE i = 1
    BY <1>12, <1>13, <1>15, <2>1
  <2>2. CASE i # 1
    <3>1. i - 1 \in 1 .. u - 1 /\ i - 1 + 1 = i
      BY <1>4, <1>8, <2>2
    <3>2. ts[i] - ts[i - 1] \in 0 .. (WordMod \div 2) - 1
      BY <1>14, <3>1
    <3> QED BY <1>15, <2>2, <3>2
  <2> QED BY <2>1, <2>2
<1>17. Smooth(st)
  BY <1>16 DEF Smooth, u
<1>18. fb.deltas = [i \in 1 .. u |-> Encoded(Delta(st, i))]
  BY <1>3, <1>5, <1>7, <1>8, <1>17, DeltasAre DEF u
<1>19. fb.reference_time = ref
  BY DEF Feedback, build_transport_cc, ref
<1>20. d \in [1 .. u -> 0 .. (WordMod \div 2) - 1] /\ \A i \in 1 .. u : d[i] = Delta(st, i)
  BY <1>16
<1> HIDE DEF d, fb
<1>21. fb.deltas = [i \in 1 .. u |-> Encoded(d[i])]
  BY <1>18, <1>20
<1>22. \A i \in 1 .. u : d[i] = ts[i] - (IF i = 1 THEN ref ELSE ts[i - 1])
  BY <1>15, <1>20
<1>23. u \in Nat
  BY <1>4, <1>8
<1> QED BY <1>12, <1>13, <1>19, <1>20, <1>21, <1>22, <1>23, TimesAddUp

\* Whenever the packets a report covers arrived in order of number, with no pause
\* above a large delta, the remote side reads their arrival times out of the report's
\* reference time and deltas: tcc_build_packet_status and report().
THEOREM TimesAlwaysDecode == Spec => TimesDecode
<1>1. TransportInv /\ [Next]_vars => [Decoded]_vars
  BY DecodedStep
<1> QED BY <1>1, TransportAlways, PTL DEF Spec, TimesDecode, Decoded
=============================================================================
