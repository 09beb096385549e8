------------------------- MODULE Negotiation_proofs -------------------------
(***************************************************************************)
(* Proofs about the offer/answer exchange, for all transceivers, codecs    *)
(* and directions, any number of descriptions and changes: transceivers in *)
(* use never share a MID, an answer fits its offer, the offerer obeys it,  *)
(* and the two peers end in agreement.                                     *)
(***************************************************************************)
EXTENDS Negotiation, ModularArithmetic, SequenceTheorems, FiniteSetTheorems

(***************************************************************************)
(* Peers, and what the helpers on sequences find.                          *)
(***************************************************************************)
\* There are two peers.
LEMMA Others ==
    ASSUME NEW p \in Peers
    PROVE  Other(p) \in Peers /\ Other(p) # p /\ Other(Other(p)) = p /\ Peers = {p, Other(p)}
<1>1. PICK q \in Peers : Peers = {p, q} /\ p # q
  BY NegotiationAssumption
<1>2. Other(p) = q /\ Other(q) = p
  BY <1>1 DEF Other
<1> QED BY <1>1, <1>2

\* The smallest of some places, or 0: what SelectInSeq finds.
FirstOf(I) == IF I # {} THEN Min(I) ELSE 0

\* It is one of them.
LEMMA FirstIs ==
    ASSUME NEW n \in Nat, NEW I \in SUBSET (1 .. n)
    PROVE  /\ FirstOf(I) \in 0 .. n
           /\ FirstOf(I) = 0 <=> I = {}
           /\ FirstOf(I) # 0 => FirstOf(I) \in I
<1>1. CASE I = {}
  BY <1>1 DEF FirstOf
<1>2. CASE I # {}
  <2>1. I \in SUBSET Nat
    OBVIOUS
  <2>2. \E x \in I : \A y \in I : x <= y
    BY <1>2, <2>1, NatMin
  <2>3. Min(I) \in I
    BY <2>2 DEF Min
  <2>4. FirstOf(I) = Min(I) /\ Min(I) \in 1 .. n
    BY <1>2, <2>3 DEF FirstOf
  <2> HIDE DEF FirstOf
  <2> QED BY <1>2, <2>3, <2>4
<1> QED BY <1>1, <1>2

\* Positions lists places of P.
InOrder(s, k, P) ==
    /\ s \in Seq(1 .. k) /\ { s[i] : i \in DOMAIN s } = P \cap (1 .. k)
    /\ 1 .. k \subseteq P => s = [i \in 1 .. k |-> i]

\* Before the first place there is nothing to list.
LEMMA InOrderStart == ASSUME NEW P PROVE InOrder(<< >>, 0, P)
<1>1. << >> \in Seq(1 .. 0) /\ DOMAIN << >> = {} /\ 1 .. 0 = {}
  BY EmptySeq
<1>2. << >> = [i \in 1 .. 0 |-> i]
  OBVIOUS
<1> QED BY <1>1, <1>2 DEF InOrder

\* Positions goes on to the next place.
LEMMA InOrderStep ==
    ASSUME NEW P, NEW k \in Nat \ {0}, NEW s, InOrder(s, k - 1, P)
    PROVE  InOrder(IF k \in P THEN Append(s, k) ELSE s, k, P)
<1> DEFINE t == Append(s, k)
<1>1. /\ s \in Seq(1 .. k - 1) /\ { s[i] : i \in DOMAIN s } = P \cap (1 .. k - 1)
      /\ 1 .. k - 1 \subseteq P => s = [i \in 1 .. k - 1 |-> i]
  BY DEF InOrder
<1>2. Len(s) \in Nat /\ DOMAIN s = 1 .. Len(s) /\ \A i \in DOMAIN s : s[i] \in 1 .. k - 1
  BY <1>1, LenProperties, ElementOfSeq
<1>3. s \in Seq(1 .. k)
  <2> DEFINE S == 1 .. k - 1
             T == 1 .. k
  <2>1. S \subseteq T /\ s \in Seq(S)
    BY <1>1
  <2> HIDE DEF S, T
  <2>2. s \in Seq(T)
    BY <2>1, SeqMonotonic
  <2> QED BY <2>2 DEF T
<1>4. CASE k \notin P
  <2>1. P \cap (1 .. k) = P \cap (1 .. k - 1) /\ ~(1 .. k \subseteq P)
    BY <1>4
  <2> QED BY <1>1, <1>3, <1>4, <2>1 DEF InOrder
<1>5. CASE k \in P
  <2>1. k \in 1 .. k
    OBVIOUS
  <2>2. /\ t \in Seq(1 .. k) /\ Len(t) = Len(s) + 1 /\ DOMAIN t = 1 .. Len(s) + 1
        /\ \A i \in 1 .. Len(s) : t[i] = s[i]
        /\ t[Len(s) + 1] = k
    BY <1>2, <1>3, <2>1, AppendProperties
  <2>3. { t[i] : i \in DOMAIN t } = P \cap (1 .. k)
    <3>1. P \cap (1 .. k) = (P \cap (1 .. k - 1)) \cup {k}
      BY <1>5
    <3>2. DOMAIN t = DOMAIN s \cup {Len(s) + 1}
      BY <1>2, <2>2
    <3> HIDE DEF t
    <3>3. { t[i] : i \in DOMAIN t } = { s[i] : i \in DOMAIN s } \cup {k}
      <4>1. ASSUME NEW x \in { s[i] : i \in DOMAIN s } \cup {k} PROVE \E i \in DOMAIN t : x = t[i]
        BY <1>2, <2>2, <3>2, <4>1
      <4>2. ASSUME NEW i \in DOMAIN t PROVE t[i] \in { s[j] : j \in DOMAIN s } \cup {k}
        BY <1>2, <2>2, <3>2, <4>2
      <4> QED BY <4>1, <4>2
    <3> QED BY <1>1, <3>1, <3>3
  <2>4. ASSUME 1 .. k \subseteq P PROVE t = [i \in 1 .. k |-> i]
    <3>1. s = [i \in 1 .. k - 1 |-> i]
      BY <1>1, <2>4
    <3>2. Len(s) = k - 1
      BY <3>1, <1>2
    <3> DEFINE u == [i \in 1 .. k |-> i]
    <3>3. Len(t) = k /\ \A i \in 1 .. k : t[i] = u[i]
      BY <2>2, <3>1, <3>2
    <3>4. u \in Seq(1 .. k) /\ Len(u) = k
      OBVIOUS
    <3> HIDE DEF t, u
    <3>5. t = u
      BY <2>2, <3>3, <3>4, SeqEqual
    <3> QED BY <3>5 DEF u
  <2>5. InOrder(t, k, P)
    <3> HIDE DEF t
    <3> QED BY <2>2, <2>3, <2>4 DEF InOrder
  <2> QED BY <1>5, <2>5
<1> QED BY <1>4, <1>5

\* What Positions returns.
LEMMA PositionsAre ==
    ASSUME NEW n \in Nat, NEW P PROVE InOrder(Positions(n, P), n, P)
<1> DEFINE A == Seq(1 .. n)
           G(s, k) == IF k \in P THEN Append(s, k) ELSE s
           g == [k \in 1 .. n |-> [s \in A |-> G(s, k)]]
           Rec(b) == b = [k \in 0 .. n |-> IF k = 0 THEN << >> ELSE G(b[k - 1], k)]
           upto == CHOOSE b : Rec(b)
<1>1. Positions(n, P) = upto[n]
  BY DEF Positions
<1>2. << >> \in A
  BY EmptySeq
<1>3. ASSUME NEW k \in 1 .. n, NEW s \in A PROVE G(s, k) \in A
  BY <1>3, AppendProperties
<1> HIDE DEF A
<1>4. g \in [1 .. n -> [A -> A]]
  <2> HIDE DEF G
  <2>1. \A k \in 1 .. n : [s \in A |-> G(s, k)] \in [A -> A]
    BY <1>3
  <2> QED BY <2>1
<1> HIDE DEF g
<1>5. PICK f : Solves(f, A, << >>, n, g)
  BY <1>2, <1>4, Recursion, Zenon
<1>6. f \in [0 .. n -> A] /\ f[0] = << >> /\ \A k \in 1 .. n : f[k] = g[k][f[k - 1]]
  BY <1>5 DEF Solves
<1>7. \A k \in 1 .. n : f[k] = G(f[k - 1], k)
  <2> SUFFICES ASSUME NEW k \in 1 .. n PROVE f[k] = G(f[k - 1], k)
    OBVIOUS
  <2>1. f[k - 1] \in A /\ f[k] = g[k][f[k - 1]]
    BY <1>6
  <2>2. g[k] = [s \in A |-> G(s, k)]
    BY DEF g
  <2> QED BY <2>1, <2>2
<1> HIDE DEF G
<1>8. Rec(f)
  BY <1>6, <1>7
<1>9. Rec(upto)
  <2> HIDE DEF Rec
  <2> QED BY <1>8
<1> HIDE DEF upto
<1>10. upto[0] = << >> /\ \A k \in 1 .. n : upto[k] = G(upto[k - 1], k)
  BY <1>9
<1> DEFINE Ok == { k \in 0 .. n : InOrder(upto[k], k, P) }
<1>11. 0 \in Ok
  BY <1>10, InOrderStart
<1>12. \A k \in 1 .. n : k - 1 \in Ok => k \in Ok
  <2> SUFFICES ASSUME NEW k \in 1 .. n, InOrder(upto[k - 1], k - 1, P) PROVE InOrder(upto[k], k, P)
    OBVIOUS
  <2>1. InOrder(G(upto[k - 1], k), k, P)
    BY InOrderStep DEF G
  <2> QED BY <1>10, <2>1
<1> HIDE DEF Ok
<1>13. \A k \in 0 .. n : k \in Ok
  BY <1>11, <1>12, UpTo, Zenon
<1>14. n \in Ok
  BY <1>13
<1> QED BY <1>1, <1>14 DEF Ok

(***************************************************************************)
(* The inductive invariant.                                                *)
(***************************************************************************)
Line == [mid : Nat, codec : Codecs \cup {"app"}, live : BOOLEAN, dir : Directions]

\* Where create_offer puts a transceiver matters only until the offer is set:
\* what it computes for an offer made later is not looked at.
Transceiver(M) ==
    [codec : Codecs, mid : Nat \cup {NoMid}, mline : M, dir : Directions, stopped : BOOLEAN,
     track : BOOLEAN]

TrsType(ts) == \E M : ts \in Seq(Transceiver(M))

IsTr(t) == t \in Transceiver({t.mline})

\* An offer as create_offer writes it: no MID twice, a rejected line has no
\* direction left, the application line has both.
GoodOffer(lines) ==
    /\ lines \in Seq(Line)
    /\ \A j, k \in DOMAIN lines : lines[j].mid = lines[k].mid => j = k
    /\ \A k \in DOMAIN lines :
          IF lines[k].codec = "app" THEN lines[k].dir = {"send", "recv"}
          ELSE lines[k].live \/ lines[k].dir = {}

\* An answer as create_answer writes it.
Answers(answer, offer) ==
    /\ answer \in Seq(Line) /\ DOMAIN answer = DOMAIN offer
    /\ \A k \in DOMAIN answer :
          /\ answer[k].mid = offer[k].mid /\ answer[k].codec = offer[k].codec
          /\ answer[k].live => offer[k].live
          /\ answer[k].dir # {} => answer[k].live
          /\ answer[k].dir \subseteq reverse_direction(offer[k].dir)

\* Transceivers in use were placed on different lines.
Placed(ts) ==
    \A i \in DOMAIN ts :
        ts[i].mline # NoLine =>
            /\ ts[i].mline \in Nat \ {0}
            /\ \A j \in DOMAIN ts : ~ts[i].stopped /\ ~ts[j].stopped /\ ts[i].mline = ts[j].mline => i = j

UniqueMids(ts) ==
    \A i, j \in DOMAIN ts :
        i # j /\ ~ts[i].stopped /\ ~ts[j].stopped /\ ts[i].mid # NoMid => ts[i].mid # ts[j].mid

\* What a peer knows in each signalling state.
StableInv(p) ==
    /\ local[p] = NoSdp /\ midCounter[p] \in Nat
    /\ \A i \in DOMAIN trs[p] : trs[p][i].mid = NoMid
    /\ Placed(trs[p])
    /\ \A d \in drafts[p] : d.type = "offer" /\ GoodOffer(d.lines)

OffererInv(p) == local[p].type = "offer" /\ GoodOffer(local[p].lines)

AnswererInv(p) ==
    /\ local[p] = NoSdp
    /\ GoodOffer(remote[p].lines) /\ Bundled(remote[p].lines)
    /\ \A d \in drafts[p] : d.type = "answer" => Answers(d.lines, remote[p].lines)

AnsweredInv(p) == local[p].type = "answer" /\ Answers(local[p].lines, remote[p].lines)

PeerInv(p) ==
    /\ TrsType(trs[p]) /\ UniqueMids(trs[p])
    /\ \/ signaling[p] = "stable" /\ StableInv(p)
       \/ signaling[p] \in {"have_local_offer", "have_remote_pranswer"} /\ OffererInv(p)
       \/ signaling[p] = "have_remote_offer" /\ AnswererInv(p)
       \/ signaling[p] = "have_local_pranswer" /\ AnsweredInv(p)

Tables ==
    /\ DOMAIN trs = Peers /\ DOMAIN midCounter = Peers /\ DOMAIN signaling = Peers
    /\ DOMAIN local = Peers /\ DOMAIN remote = Peers /\ DOMAIN drafts = Peers
    /\ needSctp \in [Peers -> BOOLEAN] /\ edits \in Nat

NegotiationInv == Tables /\ \A p \in Peers : PeerInv(p)

(***************************************************************************)
(* Transceivers.                                                           *)
(***************************************************************************)
\* A sequence of transceivers, element by element.
LEMMA TrsFacts ==
    ASSUME NEW ts, TrsType(ts)
    PROVE  Len(ts) \in Nat /\ DOMAIN ts = 1 .. Len(ts) /\ \A i \in DOMAIN ts : IsTr(ts[i])
<1>1. PICK M : ts \in Seq(Transceiver(M))
  BY DEF TrsType
<1>2. Len(ts) \in Nat /\ DOMAIN ts = 1 .. Len(ts)
  BY <1>1, LenProperties
<1>3. ASSUME NEW i \in DOMAIN ts PROVE IsTr(ts[i])
  <2>1. ts[i] \in Transceiver(M)
    BY <1>1, <1>2, ElementOfSeq
  <2> QED BY <2>1 DEF Transceiver, IsTr
<1> QED BY <1>2, <1>3

\* What is a transceiver at every place is such a sequence.
LEMMA TrsMade ==
    ASSUME NEW n \in Nat, NEW f, f = [i \in 1 .. n |-> f[i]], \A i \in 1 .. n : IsTr(f[i])
    PROVE  TrsType(f) /\ Len(f) = n
<1> DEFINE M == { f[i].mline : i \in 1 .. n }
<1>1. ASSUME NEW i \in 1 .. n PROVE f[i] \in Transceiver(M)
  <2>1. f[i].mline \in M /\ f[i] \in Transceiver({f[i].mline})
    BY DEF IsTr
  <2> QED BY <2>1 DEF Transceiver
<1> HIDE DEF M
<1>2. f \in [1 .. n -> Transceiver(M)]
  BY <1>1
<1>3. f \in Seq(Transceiver(M)) /\ Len(f) = n
  BY <1>2
<1> QED BY <1>3 DEF TrsType

\* Whatever the application or an answer does to a transceiver that keeps its
\* MID and stays stopped if it was.
LEMMA MidsKept ==
    ASSUME NEW ts, NEW us, TrsType(ts), UniqueMids(ts), DOMAIN us = DOMAIN ts,
           us = [i \in DOMAIN us |-> us[i]],
           \A i \in DOMAIN ts : /\ IsTr(us[i]) /\ us[i].mid = ts[i].mid
                                /\ ts[i].stopped => us[i].stopped
    PROVE  TrsType(us) /\ UniqueMids(us) /\ Len(us) = Len(ts)
<1>1. Len(ts) \in Nat /\ DOMAIN ts = 1 .. Len(ts)
  BY TrsFacts
<1>2. TrsType(us) /\ Len(us) = Len(ts)
  BY <1>1, TrsMade
<1> QED BY <1>2 DEF UniqueMids

\* A new transceiver has no MID.
LEMMA MidsAdded ==
    ASSUME NEW ts, TrsType(ts), NEW t, IsTr(t), t.mid = NoMid
    PROVE  /\ TrsType(Append(ts, t))
           /\ UniqueMids(ts) => UniqueMids(Append(ts, t))
           /\ DOMAIN Append(ts, t) = DOMAIN ts \cup {Len(ts) + 1} /\ Len(ts) + 1 \notin DOMAIN ts
           /\ \A i \in DOMAIN ts : Append(ts, t)[i] = ts[i]
           /\ Append(ts, t)[Len(ts) + 1] = t
<1>1. PICK M : ts \in Seq(Transceiver(M))
  BY DEF TrsType
<1> DEFINE N == M \cup {t.mline}
           us == Append(ts, t)
<1>2. Transceiver(M) \subseteq Transceiver(N) /\ t \in Transceiver(N)
  BY DEF Transceiver, IsTr
<1>3. ts \in Seq(Transceiver(N))
  BY <1>1, <1>2, SeqMonotonic, Zenon
<1>4. Len(ts) \in Nat /\ DOMAIN ts = 1 .. Len(ts)
  BY <1>1, LenProperties
<1>5. /\ us \in Seq(Transceiver(N)) /\ Len(us) = Len(ts) + 1
      /\ \A i \in 1 .. Len(ts) : us[i] = ts[i]
      /\ us[Len(ts) + 1] = t
  BY <1>2, <1>3, AppendProperties
<1>6. DOMAIN us = 1 .. Len(ts) + 1
  BY <1>5, LenProperties
<1> HIDE DEF us, N
<1>7. TrsType(us)
  BY <1>5 DEF TrsType
<1>8. DOMAIN us = DOMAIN ts \cup {Len(ts) + 1} /\ Len(ts) + 1 \notin DOMAIN ts
  BY <1>4, <1>6
<1>9. UniqueMids(ts) => UniqueMids(us)
  <2>1. ASSUME UniqueMids(ts), NEW i \in DOMAIN us, NEW j \in DOMAIN us, i # j,
               ~us[i].stopped, ~us[j].stopped, us[i].mid # NoMid
        PROVE  us[i].mid # us[j].mid
    <3>1. i \in DOMAIN ts /\ us[i] = ts[i]
      BY <1>4, <1>5, <1>8, <2>1
    <3>2. CASE j \in DOMAIN ts
      <4>1. us[j] = ts[j]
        BY <1>4, <1>5, <3>2
      <4> QED BY <2>1, <3>1, <3>2, <4>1 DEF UniqueMids
    <3>3. CASE j \notin DOMAIN ts
      <4>1. us[j] = t
        BY <1>5, <1>8, <3>3
      <4> QED BY <2>1, <4>1
    <3> QED BY <3>2, <3>3
  <2> QED BY <2>1 DEF UniqueMids
<1> QED BY <1>4, <1>5, <1>7, <1>8, <1>9 DEF us

(***************************************************************************)
(* What set_remote_description does with an offer.                         *)
(***************************************************************************)
\* The transceiver a line of an offer leaves behind.
BoundBy(t, rm) == FromRemote([t EXCEPT !.mid = rm.mid], rm)

Narrowed(n, t, rm) ==
    /\ IsTr(n) /\ n.mid = t.mid /\ n.stopped = t.stopped /\ n.codec = t.codec
    /\ n.mline = t.mline
    /\ n.dir = IF t.codec = rm.codec THEN t.dir \cap reverse_direction(rm.dir) ELSE {}

\* FromRemote keeps the MID and the stop, and only takes directions away.
LEMMA RemoteKeeps ==
    ASSUME NEW t, IsTr(t), NEW rm
    PROVE  Narrowed(FromRemote(t, rm), t, rm)
<1> DEFINE d == IF t.codec = rm.codec THEN negotiate_direction(t.dir, rm.dir) ELSE {}
<1>1. d \in Directions
  BY DEF IsTr, Transceiver, Directions, negotiate_direction
<1>2. FromRemote(t, rm) = [t EXCEPT !.dir = d]
  BY DEF FromRemote, IsTr, Transceiver
<1>3. d = IF t.codec = rm.codec THEN t.dir \cap reverse_direction(rm.dir) ELSE {}
  BY DEF negotiate_direction
<1> HIDE DEF d
<1> QED BY <1>1, <1>2, <1>3 DEF IsTr, Transceiver, Narrowed

IsBound(n, t, rm) ==
    /\ IsTr(n) /\ n.mid = rm.mid /\ n.stopped = t.stopped /\ n.codec = t.codec
    /\ n.dir = IF t.codec = rm.codec THEN t.dir \cap reverse_direction(rm.dir) ELSE {}

\* Being bound changes no codec and does not stop it.
LEMMA BoundKeeps ==
    ASSUME NEW t, IsTr(t), NEW rm, rm.mid \in Nat
    PROVE  IsBound(BoundBy(t, rm), t, rm)
<1> DEFINE u == [t EXCEPT !.mid = rm.mid]
<1>1. /\ IsTr(u) /\ u.mid = rm.mid /\ u.stopped = t.stopped /\ u.codec = t.codec
      /\ u.dir = t.dir
  BY DEF IsTr, Transceiver
<1> HIDE DEF u
<1>2. BoundBy(t, rm) = FromRemote(u, rm)
  BY DEF BoundBy, u
<1>3. Narrowed(FromRemote(u, rm), u, rm)
  BY <1>1, RemoteKeeps, Zenon
<1> QED BY <1>1, <1>2, <1>3 DEF IsBound, Narrowed

\* After the first k lines of an offer each transceiver is as it was or bound
\* by one of them, and no two by the same.
BoundUpTo(ts, us, lines, k) ==
    /\ TrsType(us) /\ DOMAIN us = DOMAIN ts
    /\ \A i \in DOMAIN ts :
          \/ us[i] = ts[i]
          \/ \E j \in 1 .. k : lines[j].codec # "app" /\ us[i] = BoundBy(ts[i], lines[j])
    /\ \A h, i \in DOMAIN ts : us[h].mid # NoMid /\ us[h].mid = us[i].mid => h = i

\* BindOffered keeps it so, line by line.
LEMMA BoundStep ==
    ASSUME NEW ts, TrsType(ts), \A i \in DOMAIN ts : ts[i].mid = NoMid,
           NEW lines, GoodOffer(lines), NEW k \in 1 .. Len(lines),
           NEW us, BoundUpTo(ts, us, lines, k - 1)
    PROVE  BoundUpTo(ts, BindOffered(us, lines[k]), lines, k)
<1> DEFINE rm == lines[k]
           I == { i \in 1 .. Len(us) : us[i].mid = NoMid /\ ~us[i].stopped
                                          /\ SameKind(us[i].codec, rm.codec) }
           i == FirstOf(I)
           vs == BindOffered(us, rm)
<1>1. /\ Len(us) \in Nat /\ DOMAIN us = 1 .. Len(us) /\ \A h \in DOMAIN us : IsTr(us[h])
      /\ \A h \in DOMAIN ts : IsTr(ts[h])
  BY TrsFacts DEF BoundUpTo
<1>2. vs = IF rm.codec = "app" \/ i = 0 THEN us ELSE [us EXCEPT ![i] = BoundBy(us[i], rm)]
  BY DEF BindOffered, SelectInSeq, FirstOf, BoundBy
<1>3. Len(lines) \in Nat /\ DOMAIN lines = 1 .. Len(lines) /\ \A j \in 1 .. Len(lines) : lines[j].mid \in Nat
  <2>1. lines \in Seq(Line)
    BY DEF GoodOffer
  <2>2. Len(lines) \in Nat /\ DOMAIN lines = 1 .. Len(lines) /\ \A j \in 1 .. Len(lines) : lines[j] \in Line
    BY <2>1, LenProperties, ElementOfSeq
  <2> QED BY <2>2 DEF Line
<1>4. I \in SUBSET (1 .. Len(us))
  OBVIOUS
<1>5. i \in 0 .. Len(us) /\ (i # 0 => i \in I)
  BY <1>1, <1>4, FirstIs
<1> HIDE DEF i, vs
<1>6. CASE rm.codec = "app" \/ i = 0
  <2>1. vs = us
    BY <1>2, <1>6
  <2>2. \A j \in 1 .. k - 1 : j \in 1 .. k
    BY <1>3
  <2> QED BY <2>1, <2>2 DEF BoundUpTo, vs
<1>7. CASE ~(rm.codec = "app" \/ i = 0)
  <2>1. vs = [us EXCEPT ![i] = BoundBy(us[i], rm)] /\ i \in DOMAIN us /\ us[i].mid = NoMid
    BY <1>1, <1>2, <1>5, <1>7
  <2>2. DOMAIN us = DOMAIN ts
    BY DEF BoundUpTo
  <2>3. us[i] = ts[i]
    <3>1. ASSUME NEW j \in 1 .. k - 1, us[i] = BoundBy(ts[i], lines[j]) PROVE FALSE
      <4>1. lines[j].mid \in Nat
        BY <1>3
      <4>2. us[i].mid = lines[j].mid
        <5>1. IsTr(ts[i])
          BY <1>1, <2>1, <2>2
        <5>2. IsBound(BoundBy(ts[i], lines[j]), ts[i], lines[j])
          BY <4>1, <5>1, BoundKeeps, Zenon
        <5> QED BY <3>1, <5>2 DEF IsBound
      <4> QED BY <2>1, <4>1, <4>2 DEF NoMid
    <3> QED BY <2>1, <2>2, <3>1 DEF BoundUpTo
  <2> DEFINE w == BoundBy(ts[i], rm)
  <2>4. IsTr(w) /\ w.mid = rm.mid /\ rm.mid \in Nat
    <3>1. IsTr(ts[i]) /\ rm.mid \in Nat
      BY <1>1, <1>3, <2>1, <2>2
    <3> HIDE DEF rm
    <3>2. IsBound(BoundBy(ts[i], rm), ts[i], rm)
      BY <3>1, BoundKeeps, Zenon
    <3> QED BY <3>1, <3>2 DEF IsBound
  <2>5. DOMAIN vs = DOMAIN us /\ vs[i] = w /\ \A h \in DOMAIN us : h # i => vs[h] = us[h]
    BY <2>1, <2>3
  <2>6. TrsType(vs)
    <3>1. vs = [h \in 1 .. Len(us) |-> vs[h]]
      BY <1>1, <2>1
    <3>2. \A h \in 1 .. Len(us) : IsTr(vs[h])
      BY <1>1, <2>4, <2>5
    <3> QED BY <1>1, <3>1, <3>2, TrsMade
  <2>7. ASSUME NEW h \in DOMAIN ts
        PROVE  \/ vs[h] = ts[h]
               \/ \E j \in 1 .. k : lines[j].codec # "app" /\ vs[h] = BoundBy(ts[h], lines[j])
    <3>1. CASE h = i
      <4>1. k \in 1 .. k
        BY <1>3
      <4> QED BY <1>7, <2>5, <3>1, <4>1
    <3>2. CASE h # i
      <4>1. \A j \in 1 .. k - 1 : j \in 1 .. k
        BY <1>3
      <4> QED BY <2>2, <2>5, <3>2, <4>1 DEF BoundUpTo
    <3> QED BY <3>1, <3>2
  <2> HIDE DEF w
  <2>8. ASSUME NEW h \in DOMAIN ts, h # i PROVE us[h].mid # rm.mid
    <3>1. CASE us[h] = ts[h]
      BY <2>4, <3>1 DEF NoMid
    <3>2. ASSUME NEW j \in 1 .. k - 1, us[h] = BoundBy(ts[h], lines[j]) PROVE us[h].mid # rm.mid
      <4>1. j \in DOMAIN lines /\ k \in DOMAIN lines /\ j # k /\ lines[j].mid \in Nat
        BY <1>3
      <4>2. us[h].mid = lines[j].mid
        <5>1. IsTr(ts[h])
          BY <1>1
        <5>2. IsBound(BoundBy(ts[h], lines[j]), ts[h], lines[j])
          BY <4>1, <5>1, BoundKeeps, Zenon
        <5> QED BY <3>2, <5>2 DEF IsBound
      <4> QED BY <4>1, <4>2 DEF GoodOffer
    <3> QED BY <3>1, <3>2 DEF BoundUpTo
  <2>9. ASSUME NEW h \in DOMAIN ts, NEW l \in DOMAIN ts, vs[h].mid # NoMid, vs[h].mid = vs[l].mid
        PROVE  h = l
    BY <2>2, <2>4, <2>5, <2>8, <2>9 DEF BoundUpTo
  <2> QED BY <2>2, <2>5, <2>6, <2>7, <2>9 DEF BoundUpTo, vs
<1> QED BY <1>6, <1>7

\* All lines of an offer bind transceivers, each a different one.
LEMMA AllBound ==
    ASSUME NEW ts, TrsType(ts), \A i \in DOMAIN ts : ts[i].mid = NoMid, NEW lines, GoodOffer(lines)
    PROVE  BoundUpTo(ts, BindAll(ts, lines), lines, Len(lines))
<1> DEFINE n == Len(lines)
           A == { us \in [DOMAIN ts -> UNION { Transceiver({ts[i].mline}) : i \in DOMAIN ts }] :
                    /\ TrsType(us)
                    /\ \A i \in DOMAIN ts : us[i].mline = ts[i].mline }
           g == [k \in 1 .. n |-> [us \in A |-> BindOffered(us, lines[k])]]
           Rec(b) == b = [k \in 0 .. n |-> IF k = 0 THEN ts ELSE BindOffered(b[k - 1], lines[k])]
           bound == CHOOSE b : Rec(b)
<1>1. BindAll(ts, lines) = bound[n]
  BY DEF BindAll
<1>2. Len(ts) \in Nat /\ DOMAIN ts = 1 .. Len(ts) /\ \A i \in DOMAIN ts : IsTr(ts[i])
  BY TrsFacts
<1>3. n \in Nat
  BY LenProperties DEF GoodOffer
<1>4. ts \in A
  <2>1. PICK M : ts \in Seq(Transceiver(M))
    BY DEF TrsType
  <2>2. ts = [i \in DOMAIN ts |-> ts[i]]
    BY <2>1
  <2>3. \A i \in DOMAIN ts : ts[i] \in UNION { Transceiver({ts[j].mline}) : j \in DOMAIN ts }
    BY <1>2 DEF IsTr
  <2> QED BY <2>2, <2>3
<1>5. ASSUME NEW k \in 1 .. n, NEW us \in A PROVE BindOffered(us, lines[k]) \in A
  <2> DEFINE rm == lines[k]
             I == { i \in 1 .. Len(us) : us[i].mid = NoMid /\ ~us[i].stopped
                                            /\ SameKind(us[i].codec, rm.codec) }
             i == FirstOf(I)
             vs == BindOffered(us, rm)
  <2>1. /\ Len(us) \in Nat /\ DOMAIN us = 1 .. Len(us) /\ \A h \in DOMAIN us : IsTr(us[h])
        /\ DOMAIN us = DOMAIN ts /\ \A h \in DOMAIN ts : us[h].mline = ts[h].mline
    BY TrsFacts
  <2>2. vs = IF rm.codec = "app" \/ i = 0 THEN us ELSE [us EXCEPT ![i] = BoundBy(us[i], rm)]
    BY DEF BindOffered, SelectInSeq, FirstOf, BoundBy
  <2>3. I \in SUBSET (1 .. Len(us))
    OBVIOUS
  <2>4. i \in 0 .. Len(us) /\ (i # 0 => i \in I)
    BY <2>1, <2>3, FirstIs
  <2>5. rm.mid \in Nat
    <3>1. lines \in Seq(Line)
      BY DEF GoodOffer
    <3>2. rm \in Line
      BY <3>1, ElementOfSeq
    <3> QED BY <3>2 DEF Line
  <2> HIDE DEF i, vs, rm
  <2>6. CASE rm.codec = "app" \/ i = 0
    BY <2>2, <2>6 DEF vs, rm
  <2>7. CASE ~(rm.codec = "app" \/ i = 0)
    <3> DEFINE w == BoundBy(us[i], rm)
    <3>1. vs = [us EXCEPT ![i] = w] /\ i \in DOMAIN us
      BY <2>1, <2>2, <2>4, <2>7
    <3>2. IsTr(us[i])
      BY <2>1, <3>1
    <3>3. IsTr(w) /\ w.mline = us[i].mline
      <4> DEFINE u == [us[i] EXCEPT !.mid = rm.mid]
      <4>1. IsTr(u) /\ u.mline = us[i].mline
        BY <2>5, <3>2 DEF IsTr, Transceiver
      <4> HIDE DEF u
      <4>2. Narrowed(FromRemote(u, rm), u, rm)
        BY <4>1, RemoteKeeps, Zenon
      <4>3. w = FromRemote(u, rm)
        BY DEF BoundBy, u
      <4> QED BY <4>1, <4>2, <4>3 DEF Narrowed
    <3> HIDE DEF w
    <3>4. /\ DOMAIN vs = DOMAIN ts /\ vs = [h \in 1 .. Len(us) |-> vs[h]]
          /\ \A h \in 1 .. Len(us) : IsTr(vs[h]) /\ vs[h].mline = ts[h].mline
      BY <2>1, <3>1, <3>3
    <3>5. TrsType(vs)
      BY <2>1, <3>4, TrsMade
    <3>6. \A h \in DOMAIN ts : vs[h] \in UNION { Transceiver({ts[j].mline}) : j \in DOMAIN ts }
      <4> SUFFICES ASSUME NEW h \in DOMAIN ts PROVE vs[h] \in Transceiver({ts[h].mline})
        OBVIOUS
      <4>1. IsTr(vs[h]) /\ vs[h].mline = ts[h].mline
        BY <2>1, <3>4
      <4> QED BY <4>1 DEF IsTr
    <3>7. vs \in A
      BY <2>1, <3>4, <3>5, <3>6
    <3> QED BY <3>7 DEF vs, rm
  <2> QED BY <2>6, <2>7
<1> HIDE DEF A, n
<1>6. g \in [1 .. n -> [A -> A]]
  <2>1. \A k \in 1 .. n : [us \in A |-> BindOffered(us, lines[k])] \in [A -> A]
    BY <1>5
  <2> QED BY <2>1
<1> HIDE DEF g
<1>7. PICK f : Solves(f, A, ts, n, g)
  BY <1>3, <1>4, <1>6, Recursion, Zenon
<1>8. f \in [0 .. n -> A] /\ f[0] = ts /\ \A k \in 1 .. n : f[k] = g[k][f[k - 1]]
  BY <1>7 DEF Solves
<1>9. \A k \in 1 .. n : f[k] = BindOffered(f[k - 1], lines[k])
  <2> SUFFICES ASSUME NEW k \in 1 .. n PROVE f[k] = BindOffered(f[k - 1], lines[k])
    OBVIOUS
  <2>1. f[k - 1] \in A /\ f[k] = g[k][f[k - 1]]
    BY <1>3, <1>8
  <2>2. g[k] = [us \in A |-> BindOffered(us, lines[k])]
    BY DEF g
  <2> QED BY <2>1, <2>2
<1>10. Rec(f)
  BY <1>8, <1>9
<1>11. Rec(bound)
  <2> HIDE DEF Rec
  <2> QED BY <1>10
<1> HIDE DEF bound
<1>12. bound[0] = ts /\ \A k \in 1 .. n : bound[k] = BindOffered(bound[k - 1], lines[k])
  BY <1>3, <1>11
<1> DEFINE Ok == { k \in 0 .. n : BoundUpTo(ts, bound[k], lines, k) }
<1>13. 0 \in Ok
  <2>1. BoundUpTo(ts, ts, lines, 0)
    BY DEF BoundUpTo
  <2> QED BY <1>3, <1>12, <2>1
<1>14. \A k \in 1 .. n : k - 1 \in Ok => k \in Ok
  <2> SUFFICES ASSUME NEW k \in 1 .. n, BoundUpTo(ts, bound[k - 1], lines, k - 1)
               PROVE  BoundUpTo(ts, bound[k], lines, k)
    BY <1>3
  <2>1. BoundUpTo(ts, BindOffered(bound[k - 1], lines[k]), lines, k)
    BY BoundStep DEF n
  <2> QED BY <1>12, <2>1
<1> HIDE DEF Ok
<1>15. \A k \in 0 .. n : k \in Ok
  BY <1>3, <1>13, <1>14, UpTo, Zenon
<1>16. n \in Ok
  BY <1>3, <1>15
<1> QED BY <1>1, <1>16 DEF Ok, n

(***************************************************************************)
(* What create_offer writes while there is no description yet.             *)
(***************************************************************************)
\* next_mid counts on from _mid_counter.
LEMMA FreshAre ==
    ASSUME NEW p \in Peers, midCounter[p] \in Nat, NEW n \in Nat, NEW used \in SUBSET {NoMid}
    PROVE  FreshMids(p, n, used) = [k \in 1 .. n |-> midCounter[p] + k - 1]
<1> DEFINE c == midCounter[p]
<1>1. Cardinality(used) \in Nat
  <2>1. IsFiniteSet(used)
    BY FS_Singleton, FS_Subset
  <2> QED BY <2>1, FS_CardinalityType
<1>2. ASSUME NEW m \in Nat, m >= c PROVE m \notin used /\ Cardinality((c .. m) \ used) = m - c + 1
  <2>1. (c .. m) \ used = c .. m /\ m \notin used
    BY <1>2 DEF NoMid
  <2>2. c \in Int /\ m \in Int
    OBVIOUS
  <2>3. Cardinality(c .. m) = m - c + 1
    BY <1>2, <2>2, FS_Interval
  <2> QED BY <2>1, <2>3
<1>3. ASSUME NEW k \in 1 .. n
      PROVE  (CHOOSE m \in c .. c + n + Cardinality(used) :
                 m \notin used /\ Cardinality((c .. m) \ used) = k) = c + k - 1
  <2> DEFINE R == c .. c + n + Cardinality(used)
  <2>1. \A m \in R : m \in Nat /\ m >= c
    BY <1>1
  <2>2. \A m \in R : (m \notin used /\ Cardinality((c .. m) \ used) = k) <=> m - c + 1 = k
    BY <1>2, <2>1
  <2>3. c + k - 1 \in R /\ (c + k - 1) - c + 1 = k
    BY <1>1
  <2>4. \A m \in R : m - c + 1 = k => m = c + k - 1
    BY <2>1
  <2> HIDE DEF R
  <2>5. \A m \in R : (m \notin used /\ Cardinality((c .. m) \ used) = k) <=> m = c + k - 1
    BY <2>2, <2>3, <2>4
  <2>6. (CHOOSE m \in R : m \notin used /\ Cardinality((c .. m) \ used) = k) = c + k - 1
    BY <2>3, <2>5
  <2> QED BY <2>6 DEF R
<1> QED BY <1>3 DEF FreshMids

\* A set of one element as a sequence.
LEMMA OneInSeq == ASSUME NEW x PROVE SetToSeq({x}) = << x >>
<1>1. Cardinality({x}) = 1
  BY FS_Singleton
<1> DEFINE f == << x >>
<1>2. f \in [1 .. 1 -> {x}] /\ IsInjective(f)
  BY DEF IsInjective
<1>3. \A h \in [1 .. 1 -> {x}] : h = f
  OBVIOUS
<1> HIDE DEF f
<1>4. (CHOOSE h \in [1 .. 1 -> {x}] : IsInjective(h)) = f
  BY <1>2, <1>3
<1>5. SetToSeq({x}) = f
  BY <1>1, <1>4 DEF SetToSeq
<1> QED BY <1>5 DEF f

\* Sequences of one element, one after the other.
LEMMA Flattened ==
    ASSUME NEW n \in Nat, NEW S, NEW e \in [1 .. n -> S]
    PROVE  FlattenSeq([i \in 1 .. n |-> << e[i] >>]) = e
<1> DEFINE seqs == [i \in 1 .. n |-> << e[i] >>]
           Rec(b) == b = [i \in 1 .. n |-> IF i = 1 THEN seqs[i] ELSE b[i - 1] \o seqs[i]]
           flatten == CHOOSE b : Rec(b)
           sol == [i \in 1 .. n |-> [j \in 1 .. i |-> e[j]]]
<1>1. Len(seqs) = n /\ \A i \in 1 .. n : seqs[i] = << e[i] >>
  OBVIOUS
<1> HIDE DEF seqs
<1>2. CASE n = 0
  <2>1. FlattenSeq(seqs) = seqs
    BY <1>1, <1>2 DEF FlattenSeq
  <2>2. seqs = e
    BY <1>2 DEF seqs
  <2> QED BY <2>1, <2>2 DEF seqs
<1>3. CASE n # 0
  <2>1. FlattenSeq(seqs) = flatten[n]
    BY <1>1, <1>3 DEF FlattenSeq
  <2>2. \A i \in 1 .. n : sol[i] \in Seq(S) /\ Len(sol[i]) = i /\ \A j \in 1 .. i : sol[i][j] = e[j]
    OBVIOUS
  <2>3. ASSUME NEW i \in 1 .. n, i # 1 PROVE sol[i] = sol[i - 1] \o << e[i] >>
    <3> DEFINE a == sol[i - 1]
               b == << e[i] >>
               d == sol[i]
    <3>1. i - 1 \in 1 .. n /\ i \in 1 .. n /\ i - 1 \in Nat
      BY <2>3
    <3>2. /\ a \in Seq(S) /\ Len(a) = i - 1 /\ \A j \in 1 .. i - 1 : a[j] = e[j]
          /\ d \in Seq(S) /\ Len(d) = i /\ \A j \in 1 .. i : d[j] = e[j]
      BY <2>2, <3>1
    <3>3. b \in Seq(S) /\ Len(b) = 1 /\ b[1] = e[i]
      OBVIOUS
    <3> HIDE DEF a, b, d
    <3>4. /\ a \o b \in Seq(S) /\ Len(a \o b) = i
          /\ \A j \in 1 .. i : (a \o b)[j] = IF j <= i - 1 THEN a[j] ELSE b[j - (i - 1)]
      <4>1. /\ a \o b \in Seq(S) /\ Len(a \o b) = Len(a) + Len(b)
            /\ \A j \in 1 .. Len(a) + Len(b) : (a \o b)[j] = IF j <= Len(a) THEN a[j] ELSE b[j - Len(a)]
        BY <3>2, <3>3, ConcatProperties, Zenon
      <4>2. Len(a) + Len(b) = i
        BY <3>1, <3>2, <3>3
      <4> QED BY <3>2, <4>1, <4>2
    <3>5. \A j \in 1 .. i : d[j] = (a \o b)[j]
      <4> SUFFICES ASSUME NEW j \in 1 .. i PROVE d[j] = (a \o b)[j]
        OBVIOUS
      <4>1. CASE j <= i - 1
        BY <3>1, <3>2, <3>4, <4>1
      <4>2. CASE ~(j <= i - 1)
        <5>1. j = i /\ j - (i - 1) = 1
          BY <4>2
        <5> QED BY <3>1, <3>2, <3>3, <3>4, <4>2, <5>1
      <4> QED BY <4>1, <4>2
    <3>6. d = a \o b
      BY <3>2, <3>4, <3>5, SeqEqual
    <3> QED BY <3>6 DEF a, b, d
  <2>4. sol[1] = << e[1] >>
    BY <1>3
  <2>5. \A i \in 1 .. n : sol[i] = IF i = 1 THEN seqs[i] ELSE sol[i - 1] \o seqs[i]
    BY <1>1, <2>3, <2>4
  <2>6. sol = [i \in 1 .. n |-> sol[i]]
    OBVIOUS
  <2> HIDE DEF sol
  <2>7. Rec(sol)
    BY <2>5, <2>6
  <2>8. Rec(flatten)
    <3> HIDE DEF Rec
    <3> QED BY <2>7
  <2> HIDE DEF flatten
  <2>9. \A i \in 1 .. n : flatten[i] = IF i = 1 THEN seqs[i] ELSE flatten[i - 1] \o seqs[i]
    BY <2>8
  <2> DEFINE Ok == { i \in 0 .. n : i # 0 => flatten[i] = sol[i] }
  <2>10. 0 \in Ok
    OBVIOUS
  <2>11. \A i \in 1 .. n : i - 1 \in Ok => i \in Ok
    <3> SUFFICES ASSUME NEW i \in 1 .. n, i - 1 # 0 => flatten[i - 1] = sol[i - 1]
                 PROVE  flatten[i] = sol[i]
      OBVIOUS
    <3> QED BY <2>5, <2>9
  <2> HIDE DEF Ok
  <2>12. \A i \in 0 .. n : i \in Ok
    BY <2>10, <2>11, UpTo, Zenon
  <2>13. flatten[n] = sol[n]
    BY <1>3, <2>12 DEF Ok
  <2>14. sol[n] = e
    BY <1>3 DEF sol
  <2> QED BY <2>1, <2>13, <2>14 DEF seqs
<1> QED BY <1>2, <1>3

\* The largest of 0 and 1 .. n.
LEMMA LastOfInterval == ASSUME NEW n \in Nat PROVE Max({0} \cup (1 .. n)) = n
<1> DEFINE I == {0} \cup (1 .. n)
<1>1. n \in I /\ \A y \in I : n >= y
  OBVIOUS
<1>2. \A x \in I : (\A y \in I : x >= y) => x = n
  OBVIOUS
<1> HIDE DEF I
<1>3. Max(I) = n
  BY <1>1, <1>2 DEF Max
<1> QED BY <1>3 DEF I

\* Those the first description is about: SCTP, then the transceivers in use.
NewTrs(p) == Positions(Len(trs[p]), { t \in DOMAIN trs[p] : trs[p][t].mid = NoMid /\ ~trs[p][t].stopped })
Newcomers(p) == (IF needSctp[p] THEN << 0 >> ELSE << >>) \o NewTrs(p)
FirstEntry(k, t) == [at |-> k, kind |-> IF t = 0 THEN "app" ELSE "rtp", tr |-> t, mid |-> NoMid]

NewcomersOk(p, c, b, s) ==
    /\ c \in Nat /\ Len(b) \in Nat /\ Len(s) = c + Len(b)
    /\ InOrder(b, Len(trs[p]), { t \in DOMAIN trs[p] : trs[p][t].mid = NoMid /\ ~trs[p][t].stopped })
    /\ s \in [1 .. Len(s) -> 0 .. Len(trs[p])]
    /\ \A k \in 1 .. c : s[k] = 0
    /\ \A k \in 1 .. Len(b) : s[c + k] = b[k] /\ s[c + k] \in 1 .. Len(trs[p])

\* The application line comes first, then each transceiver in use in its order.
LEMMA NewcomersAre ==
    ASSUME NEW p \in Peers, TrsType(trs[p]), needSctp[p] \in BOOLEAN
    PROVE  NewcomersOk(p, IF needSctp[p] THEN 1 ELSE 0, NewTrs(p), Newcomers(p))
<1> DEFINE c == IF needSctp[p] THEN 1 ELSE 0
           a == IF needSctp[p] THEN << 0 >> ELSE << >>
           b == NewTrs(p)
           n == Len(b)
           s == a \o b
           m == Len(trs[p])
           P == { t \in DOMAIN trs[p] : trs[p][t].mid = NoMid /\ ~trs[p][t].stopped }
<1>1. m \in Nat
  BY TrsFacts
<1>2. InOrder(b, m, P)
  BY <1>1, PositionsAre DEF NewTrs
<1>3. a \in Seq(0 .. m) /\ Len(a) = c /\ c \in Nat /\ \A k \in 1 .. c : a[k] = 0
  <2> DEFINE T == 0 .. m
  <2>1. 0 \in T
    BY <1>1
  <2> HIDE DEF T
  <2>2. CASE needSctp[p]
    BY <2>1, <2>2 DEF T
  <2>3. CASE ~needSctp[p]
    <3>1. << >> \in Seq(T) /\ Len(<< >>) = 0
      BY EmptySeq
    <3> QED BY <2>3, <3>1 DEF T
  <2> QED BY <2>2, <2>3
<1>4. b \in Seq(1 .. m)
  BY <1>2 DEF InOrder
<1>5. n \in Nat /\ DOMAIN b = 1 .. n /\ \A k \in 1 .. n : b[k] \in 1 .. m
  BY <1>4, LenProperties, ElementOfSeq
<1>6. b \in Seq(0 .. m)
  <2> DEFINE S == 1 .. m
             T == 0 .. m
  <2>1. S \subseteq T /\ b \in Seq(S)
    BY <1>4
  <2> HIDE DEF S, T, b
  <2>2. b \in Seq(T)
    BY <2>1, SeqMonotonic
  <2> QED BY <2>2 DEF T
<1> HIDE DEF a, b, c, m, n
<1>7. /\ s \in Seq(0 .. m) /\ Len(s) = c + n
      /\ \A k \in 1 .. c + n : s[k] = IF k <= c THEN a[k] ELSE b[k - c]
  <2>1. /\ s \in Seq(0 .. m) /\ Len(s) = Len(a) + Len(b)
        /\ \A k \in 1 .. Len(a) + Len(b) : s[k] = IF k <= Len(a) THEN a[k] ELSE b[k - Len(a)]
    BY <1>3, <1>6, ConcatProperties, Zenon
  <2> QED BY <1>3, <2>1 DEF n
<1> HIDE DEF s
<1>8. s \in [1 .. c + n -> 0 .. m]
  <2>1. \A k \in 1 .. c + n : s[k] \in 0 .. m
    BY <1>7, ElementOfSeq
  <2>2. s \in [1 .. Len(s) -> 0 .. m]
    <3> DEFINE T == 0 .. m
    <3>1. s \in Seq(T)
      BY <1>7
    <3> HIDE DEF T
    <3>2. s \in [1 .. Len(s) -> T]
      BY <3>1, LenProperties
    <3> QED BY <3>2 DEF T
  <2> QED BY <1>7, <2>2
<1>9. \A k \in 1 .. c : s[k] = 0
  BY <1>3, <1>5, <1>7
<1>10. \A k \in 1 .. n : s[c + k] = b[k] /\ s[c + k] \in 1 .. m
  <2> SUFFICES ASSUME NEW k \in 1 .. n PROVE s[c + k] = b[k] /\ s[c + k] \in 1 .. m
    OBVIOUS
  <2>1. c + k \in 1 .. c + n /\ ~(c + k <= c) /\ (c + k) - c = k
    BY <1>3, <1>5
  <2> QED BY <1>5, <1>7, <2>1
<1>11. NewcomersOk(p, c, b, s)
  BY <1>2, <1>3, <1>5, <1>7, <1>8, <1>9, <1>10 DEF m, n, NewcomersOk
<1>12. s = Newcomers(p)
  BY DEF s, a, b, Newcomers
<1> QED BY <1>11, <1>12 DEF b, c

\* Entries, before there is a description: only newcomers, in their order.
LEMMA FirstEntries ==
    ASSUME NEW p \in Peers, TrsType(trs[p]), needSctp[p] \in BOOLEAN, local[p] = NoSdp,
           \A i \in DOMAIN trs[p] : trs[p][i].mid = NoMid
    PROVE  Entries(p) = [k \in 1 .. Len(Newcomers(p)) |-> FirstEntry(k, Newcomers(p)[k])]
<1> DEFINE cur == local[p].lines
           media == { i \in DOMAIN cur : cur[i].codec # "app" }
           apps == (DOMAIN cur) \ media
           keeper(i) == SelectInSeq(trs[p], LAMBDA t : t.mid = cur[i].mid)
           kept == { i \in media : keeper(i) # 0 }
           recycled == { i \in media \ kept : ~cur[i].live }
           places == Positions(Len(cur), recycled)
           newcomers == (IF apps = {} /\ needSctp[p] THEN << 0 >> ELSE << >>) \o NewTrs(p)
           place(k) == IF k <= Len(places) THEN places[k] ELSE Len(cur) + k - Len(places)
           claimed == kept \cup { place(k) : k \in DOMAIN newcomers }
           entry(at, kind, t, mid) == [at |-> at, kind |-> kind, tr |-> t, mid |-> mid]
           all ==
             { entry(i, "rtp", keeper(i), cur[i].mid) : i \in kept }
               \cup { entry(i, "app", 0, cur[i].mid) : i \in apps }
               \cup { entry(place(k), IF newcomers[k] = 0 THEN "app" ELSE "rtp", newcomers[k], NoMid)
                          : k \in DOMAIN newcomers }
               \cup { entry(i, "copy", 0, cur[i].mid) : i \in (DOMAIN cur) \ claimed }
           s == Newcomers(p)
           n == Len(s)
           E == [k \in 1 .. n |-> FirstEntry(k, s[k])]
<1>1. Entries(p) = FlattenSeq([i \in 1 .. Max({Len(cur)} \cup claimed) |-> SetToSeq({ e \in all : e.at = i })])
  BY DEF Entries, NewTrs
<1>2. cur = << >>
  BY DEF NoSdp
<1>3. media = {} /\ apps = {} /\ kept = {} /\ recycled = {} /\ Len(cur) = 0 /\ DOMAIN cur = {}
  BY <1>2
<1>4. newcomers = s
  BY <1>3 DEF Newcomers
<1>5. n \in Nat /\ DOMAIN s = 1 .. n
  <2>1. NewcomersOk(p, IF needSctp[p] THEN 1 ELSE 0, NewTrs(p), s)
    BY NewcomersAre
  <2> HIDE DEF s
  <2> QED BY <2>1 DEF NewcomersOk
<1>6. Len(places) = 0
  <2>1. InOrder(Positions(0, {}), 0, {})
    BY PositionsAre
  <2>2. Positions(0, {}) = [i \in 1 .. 0 |-> i]
    BY <2>1 DEF InOrder
  <2>3. Len([i \in 1 .. 0 |-> i]) = 0
    OBVIOUS
  <2>4. places = Positions(0, {})
    BY <1>3
  <2> QED BY <2>2, <2>3, <2>4
<1> HIDE DEF cur, media, apps, kept, recycled, places, newcomers, s, n, keeper
<1>7. \A k \in 1 .. n : place(k) = k
  BY <1>3, <1>5, <1>6
<1>8. claimed = 1 .. n
  BY <1>3, <1>4, <1>5, <1>7
<1>9. Max({Len(cur)} \cup claimed) = n
  BY <1>3, <1>5, <1>8, LastOfInterval
<1>10. all = { FirstEntry(k, s[k]) : k \in 1 .. n }
  <2>1. \A k \in 1 .. n : entry(place(k), IF newcomers[k] = 0 THEN "app" ELSE "rtp", newcomers[k], NoMid) = FirstEntry(k, s[k])
    BY <1>4, <1>7 DEF FirstEntry
  <2> HIDE DEF entry, place
  <2>2. all = { entry(place(k), IF newcomers[k] = 0 THEN "app" ELSE "rtp", newcomers[k], NoMid) : k \in 1 .. n }
    BY <1>3, <1>4, <1>5
  <2> HIDE DEF all
  <2> QED BY <2>1, <2>2
<1> HIDE DEF all
<1>11. \A i \in 1 .. n : SetToSeq({ e \in all : e.at = i }) = << E[i] >>
  <2> SUFFICES ASSUME NEW i \in 1 .. n PROVE SetToSeq({ e \in all : e.at = i }) = << E[i] >>
    OBVIOUS
  <2>1. \A k \in 1 .. n : FirstEntry(k, s[k]).at = k
    BY DEF FirstEntry
  <2>2. { e \in all : e.at = i } = {FirstEntry(i, s[i])}
    BY <1>10, <2>1
  <2>3. SetToSeq({FirstEntry(i, s[i])}) = << FirstEntry(i, s[i]) >>
    BY OneInSeq
  <2> QED BY <2>2, <2>3
<1>12. Entries(p) = FlattenSeq([i \in 1 .. n |-> << E[i] >>])
  BY <1>1, <1>9, <1>11
<1>13. E \in [1 .. n -> { FirstEntry(k, s[k]) : k \in 1 .. n }]
  OBVIOUS
<1> HIDE DEF E
<1>14. Entries(p) = E
  BY <1>5, <1>12, <1>13, Flattened
<1> QED BY <1>14 DEF E, n, s

\* The lines of the first description, and where it puts the transceivers.
FirstLines(p, lines) ==
    LET s == Newcomers(p) IN
    /\ lines \in Seq(Line) /\ Len(lines) = Len(s)
    /\ \A k \in 1 .. Len(s) :
          /\ lines[k].mid = midCounter[p] + k - 1
          /\ IF s[k] = 0 THEN lines[k].codec = "app" /\ lines[k].dir = {"send", "recv"}
             ELSE lines[k] = to_offer_sdp_media(trs[p][s[k]], lines[k].mid)

PlacedIn(p, us) ==
    LET s == Newcomers(p) IN
    /\ DOMAIN us = DOMAIN trs[p] /\ us = [t \in DOMAIN us |-> us[t]]
    /\ \A t \in DOMAIN us :
          \/ trs[p][t].stopped /\ us[t] = trs[p][t]
          \/ \E l \in 1 .. Len(s) : s[l] = t /\ us[t] = [trs[p][t] EXCEPT !.mline = l]

\* create_offer, before there is a description.
LEMMA FirstOffer ==
    ASSUME NEW p \in Peers, TrsType(trs[p]), needSctp[p] \in BOOLEAN, local[p] = NoSdp,
           \A i \in DOMAIN trs[p] : trs[p][i].mid = NoMid, midCounter[p] \in Nat,
           create_offer(p)
    PROVE  \E lines, us :
              /\ FirstLines(p, lines) /\ PlacedIn(p, us)
              /\ drafts' = [drafts EXCEPT ![p] = @ \cup {[type |-> "offer", lines |-> lines]}]
              /\ trs' = [trs EXCEPT ![p] = us]
              /\ \E m \in Nat : midCounter' = [midCounter EXCEPT ![p] = m]
              /\ UNCHANGED <<needSctp, edits, signaling, local, remote>>
<1> DEFINE s == Newcomers(p)
           n == Len(s)
           entries == Entries(p)
           unnamed == Positions(Len(entries), { k \in DOMAIN entries : entries[k].mid = NoMid })
           fresh == FreshMids(p, Len(unnamed), { entries[k].mid : k \in DOMAIN entries })
           midOf(k) == IF entries[k].mid # NoMid THEN entries[k].mid
                       ELSE fresh[SelectInSeq(unnamed, LAMBDA u : u = k)]
           line(k) ==
             CASE entries[k].kind = "app" ->
                    [mid |-> midOf(k), codec |-> "app", live |-> needSctp[p], dir |-> {"send", "recv"}]
               [] entries[k].kind = "copy" ->
                    [local[p].lines[entries[k].at] EXCEPT !.live = FALSE, !.dir = {}]
               [] OTHER -> to_offer_sdp_media(trs[p][entries[k].tr], midOf(k))
           lineOf(t) == SelectInSeq(entries, LAMBDA e : e.tr = t)
           lines == [k \in DOMAIN entries |-> line(k)]
           us == [t \in DOMAIN trs[p] |->
                     IF lineOf(t) = 0 THEN trs[p][t] ELSE [trs[p][t] EXCEPT !.mline = lineOf(t)]]
           next == IF fresh = << >> THEN midCounter[p] ELSE Last(fresh) + 1
           c == IF needSctp[p] THEN 1 ELSE 0
           b == NewTrs(p)
           P == { t \in DOMAIN trs[p] : trs[p][t].mid = NoMid /\ ~trs[p][t].stopped }
<1>1. /\ drafts' = [drafts EXCEPT ![p] = @ \cup {[type |-> "offer", lines |-> lines]}]
      /\ midCounter' = [midCounter EXCEPT ![p] = next]
      /\ trs' = [trs EXCEPT ![p] = us]
      /\ UNCHANGED <<needSctp, edits, signaling, local, remote>>
  BY DEF create_offer, Draft
<1>2. /\ Len(b) \in Nat /\ InOrder(b, Len(trs[p]), P)
      /\ s \in [1 .. n -> 0 .. Len(trs[p])] /\ n \in Nat /\ n = c + Len(b) /\ c \in Nat
      /\ \A k \in 1 .. c : s[k] = 0
      /\ \A k \in 1 .. Len(b) : s[c + k] = b[k] /\ s[c + k] \in 1 .. Len(trs[p])
  <2>1. NewcomersOk(p, c, b, s)
    BY NewcomersAre
  <2> HIDE DEF s, b, c
  <2>2. c \in Nat /\ Len(b) \in Nat /\ Len(s) = c + Len(b)
    BY <2>1 DEF NewcomersOk
  <2> QED BY <2>1, <2>2 DEF NewcomersOk
<1>3. entries = [k \in 1 .. n |-> FirstEntry(k, s[k])]
  BY FirstEntries
<1>4. Len(trs[p]) \in Nat /\ DOMAIN trs[p] = 1 .. Len(trs[p]) /\ \A t \in DOMAIN trs[p] : IsTr(trs[p][t])
  BY TrsFacts
<1> HIDE DEF s, n, entries, b, c
<1>5. /\ DOMAIN entries = 1 .. n /\ Len(entries) = n
      /\ \A k \in 1 .. n : /\ entries[k].mid = NoMid /\ entries[k].tr = s[k]
                           /\ entries[k].kind = IF s[k] = 0 THEN "app" ELSE "rtp"
  BY <1>2, <1>3 DEF FirstEntry
<1>6. unnamed = [k \in 1 .. n |-> k] /\ Len(unnamed) = n
  <2>1. { k \in DOMAIN entries : entries[k].mid = NoMid } = 1 .. n
    BY <1>5
  <2>2. InOrder(Positions(n, 1 .. n), n, 1 .. n)
    BY <1>2, PositionsAre
  <2>3. Positions(n, 1 .. n) = [k \in 1 .. n |-> k]
    BY <2>2 DEF InOrder
  <2>4. unnamed = Positions(n, 1 .. n)
    BY <1>5, <2>1
  <2>5. Len([k \in 1 .. n |-> k]) = n
    BY <1>2
  <2> HIDE DEF unnamed
  <2> QED BY <2>3, <2>4, <2>5
<1> HIDE DEF unnamed
<1>7. fresh = [k \in 1 .. n |-> midCounter[p] + k - 1]
  <2>1. { entries[k].mid : k \in DOMAIN entries } \in SUBSET {NoMid}
    BY <1>5
  <2> QED BY <1>2, <1>6, <2>1, FreshAre
<1> HIDE DEF fresh
<1>8. next \in Nat
  <2>1. CASE n = 0
    <3>1. fresh = << >>
      BY <1>7, <2>1
    <3> QED BY <3>1
  <2>2. CASE n # 0
    <3>1. Len(fresh) = n /\ fresh[n] = midCounter[p] + n - 1
      BY <1>2, <1>7, <2>2
    <3>2. fresh # << >>
      BY <1>2, <2>2, <3>1
    <3> QED BY <1>2, <2>2, <3>1, <3>2 DEF Last
  <2> QED BY <2>1, <2>2
<1>9. \A k \in 1 .. n : midOf(k) = midCounter[p] + k - 1
  <2> SUFFICES ASSUME NEW k \in 1 .. n PROVE midOf(k) = midCounter[p] + k - 1
    OBVIOUS
  <2> DEFINE I == { i \in 1 .. Len(unnamed) : unnamed[i] = k }
  <2>1. I = {k}
    BY <1>6
  <2>2. I \in SUBSET (1 .. n)
    BY <2>1
  <2>3. FirstOf(I) = k
    <3>1. FirstOf(I) # 0 /\ FirstOf(I) \in I
      BY <1>2, <2>1, <2>2, FirstIs
    <3> QED BY <2>1, <3>1
  <2>4. SelectInSeq(unnamed, LAMBDA u : u = k) = FirstOf(I)
    BY DEF SelectInSeq, FirstOf
  <2>5. midOf(k) = fresh[k]
    BY <1>5, <2>3, <2>4
  <2> QED BY <1>7, <2>5
<1> HIDE DEF midOf
<1>10. FirstLines(p, lines)
  <2>1. ASSUME NEW k \in 1 .. n
        PROVE  /\ lines[k] \in Line /\ lines[k].mid = midCounter[p] + k - 1
               /\ IF s[k] = 0 THEN lines[k].codec = "app" /\ lines[k].dir = {"send", "recv"}
                  ELSE lines[k] = to_offer_sdp_media(trs[p][s[k]], lines[k].mid)
    <3> DEFINE m == midCounter[p] + k - 1
    <3>1. m \in Nat /\ midOf(k) = m
      BY <1>2, <1>9
    <3> HIDE DEF m
    <3>2. CASE s[k] = 0
      <4>1. line(k) = [mid |-> m, codec |-> "app", live |-> needSctp[p], dir |-> {"send", "recv"}]
        BY <1>5, <3>1, <3>2
      <4>2. lines[k] = [mid |-> m, codec |-> "app", live |-> needSctp[p], dir |-> {"send", "recv"}]
        BY <1>5, <4>1
      <4>3. lines[k] \in Line /\ lines[k].mid = m /\ lines[k].codec = "app" /\ lines[k].dir = {"send", "recv"}
        <5> HIDE DEF lines
        <5> QED BY <3>1, <4>2 DEF Line, Directions
      <4> HIDE DEF lines
      <4> QED BY <3>2, <4>3 DEF m
    <3>3. CASE s[k] # 0
      <4> DEFINE t == trs[p][s[k]]
      <4>1. line(k) = to_offer_sdp_media(t, m)
        BY <1>5, <3>1, <3>3
      <4>2. lines[k] = to_offer_sdp_media(t, m)
        BY <1>5, <4>1
      <4>3. IsTr(t)
        BY <1>2, <1>4, <3>3
      <4> HIDE DEF t
      <4>4. to_offer_sdp_media(t, m) \in Line /\ to_offer_sdp_media(t, m).mid = m
        BY <3>1, <4>3 DEF to_offer_sdp_media, IsTr, Transceiver, Line, Directions
      <4> QED BY <3>3, <4>2, <4>4 DEF m, t
    <3> QED BY <3>2, <3>3
  <2>2. lines = [k \in 1 .. n |-> lines[k]]
    BY <1>5
  <2> HIDE DEF lines
  <2>3. lines \in [1 .. n -> Line]
    BY <2>1, <2>2
  <2>4. lines \in Seq(Line) /\ Len(lines) = n
    BY <1>2, <2>3
  <2> QED BY <2>1, <2>4 DEF FirstLines, s, n
<1>11. PlacedIn(p, us)
  <2>1. ASSUME NEW t \in DOMAIN trs[p]
        PROVE  \/ trs[p][t].stopped /\ us[t] = trs[p][t]
               \/ \E l \in 1 .. n : s[l] = t /\ us[t] = [trs[p][t] EXCEPT !.mline = l]
    <3> DEFINE I == { i \in 1 .. Len(entries) : entries[i].tr = t }
               l == FirstOf(I)
    <3>1. lineOf(t) = l
      BY DEF SelectInSeq, FirstOf
    <3>2. I \in SUBSET (1 .. n) /\ I = { i \in 1 .. n : s[i] = t }
      BY <1>5
    <3>3. l \in 0 .. n /\ (l = 0 <=> I = {}) /\ (l # 0 => l \in I)
      <4>1. n \in Nat /\ I \in SUBSET (1 .. n)
        BY <1>2, <3>2
      <4> HIDE DEF I, n, entries, lineOf
      <4> QED BY <4>1, FirstIs
    <3>4. us[t] = IF l = 0 THEN trs[p][t] ELSE [trs[p][t] EXCEPT !.mline = l]
      BY <3>1
    <3> HIDE DEF l, lineOf, us
    <3>5. ASSUME l = 0 PROVE trs[p][t].stopped
      <4>1. SUFFICES ASSUME ~trs[p][t].stopped PROVE FALSE
        BY <1>4 DEF IsTr, Transceiver
      <4>2. t \in P \cap (1 .. Len(trs[p]))
        BY <1>4, <4>1
      <4>3. PICK k \in DOMAIN b : b[k] = t
        BY <1>2, <4>2 DEF InOrder
      <4>4. k \in 1 .. Len(b)
        <5>1. b \in Seq(1 .. Len(trs[p]))
          BY <1>2 DEF InOrder
        <5> QED BY <5>1, LenProperties
      <4>5. c + k \in 1 .. n /\ s[c + k] = t
        BY <1>2, <4>3, <4>4
      <4> QED BY <3>2, <3>3, <3>5, <4>5
    <3> QED BY <3>2, <3>3, <3>4, <3>5
  <2>2. DOMAIN us = DOMAIN trs[p] /\ us = [t \in DOMAIN us |-> us[t]]
    OBVIOUS
  <2> HIDE DEF us
  <2> QED BY <2>1, <2>2 DEF PlacedIn, s, n
<1> HIDE DEF lines, us, next
<1> QED BY <1>1, <1>8, <1>10, <1>11

(***************************************************************************)
(* The invariant is kept.                                                  *)
(***************************************************************************)
\* What PeerInv(p) looks at.
Same(p) ==
    /\ trs'[p] = trs[p] /\ midCounter'[p] = midCounter[p] /\ signaling'[p] = signaling[p]
    /\ local'[p] = local[p] /\ remote'[p] = remote[p] /\ drafts'[p] = drafts[p]

\* A call on one connection_impl changes nothing of the other one.
LEMMA OnePeer ==
    ASSUME NegotiationInv, NEW p \in Peers, Tables', PeerInv(p)', \A x \in Peers \ {p} : Same(x)
    PROVE  NegotiationInv'
<1>1. ASSUME NEW x \in Peers \ {p} PROVE PeerInv(x)'
  <2>1. PeerInv(x) /\ Same(x)
    BY DEF NegotiationInv
  <2> QED BY <2>1 DEF PeerInv, Same, StableInv, OffererInv, AnswererInv, AnsweredInv
<1> QED BY <1>1 DEF NegotiationInv

\* Nothing has happened yet.
LEMMA NegotiationStart == ASSUME Init PROVE NegotiationInv
<1>1. Tables
  BY DEF Init, Tables
<1>2. ASSUME NEW p \in Peers PROVE PeerInv(p)
  <2>1. trs[p] = << >> /\ signaling[p] = "stable" /\ local[p] = NoSdp /\ midCounter[p] = 0 /\ drafts[p] = {}
    BY DEF Init
  <2>2. << >> \in Seq(Transceiver({})) /\ DOMAIN << >> = {}
    BY EmptySeq
  <2> QED BY <2>1, <2>2 DEF PeerInv, TrsType, UniqueMids, StableInv, Placed
<1> QED BY <1>1, <1>2 DEF NegotiationInv

\* add_transceiver.
LEMMA AddStep ==
    ASSUME NegotiationInv, NEW p \in Peers, NEW codec \in Codecs, NEW dir \in Directions,
           NEW track \in BOOLEAN, add_transceiver(p, codec, dir, track)
    PROVE  NegotiationInv'
<1> DEFINE t == [codec |-> codec, mid |-> NoMid, mline |-> NoLine, dir |-> dir,
                 stopped |-> FALSE, track |-> track]
           ts == trs[p]
           us == Append(ts, t)
<1>1. /\ trs' = [trs EXCEPT ![p] = us]
      /\ UNCHANGED <<needSctp, edits, midCounter, signaling, local, remote, drafts>>
  BY DEF add_transceiver
<1>2. Tables /\ PeerInv(p)
  BY DEF NegotiationInv
<1>3. Tables' /\ trs'[p] = us /\ \A x \in Peers \ {p} : Same(x)
  BY <1>1, <1>2 DEF Tables, Same
<1>4. IsTr(t) /\ t.mid = NoMid /\ t.mline = NoLine
  BY DEF IsTr, Transceiver
<1> HIDE DEF t
<1>5. TrsType(ts) /\ UniqueMids(ts)
  BY <1>2 DEF PeerInv
<1>6. /\ TrsType(us) /\ UniqueMids(us)
      /\ DOMAIN us = DOMAIN ts \cup {Len(ts) + 1} /\ Len(ts) + 1 \notin DOMAIN ts
      /\ \A i \in DOMAIN ts : us[i] = ts[i]
      /\ us[Len(ts) + 1] = t
  BY <1>4, <1>5, MidsAdded
<1> HIDE DEF us
<1>7. ASSUME StableInv(p) PROVE StableInv(p)'
  <2>1. \A i \in DOMAIN us : us[i].mid = NoMid
    BY <1>4, <1>6, <1>7 DEF StableInv
  <2>2. Placed(us)
    BY <1>4, <1>6, <1>7 DEF StableInv, Placed
  <2> QED BY <1>1, <1>3, <1>7, <2>1, <2>2 DEF StableInv
<1>8. PeerInv(p)'
  BY <1>1, <1>2, <1>3, <1>6, <1>7 DEF PeerInv, OffererInv, AnswererInv, AnsweredInv
<1> QED BY <1>3, <1>8, OnePeer

\* set_direction, stop and the reuse of a transceiver by add_track.
LEMMA EditStep ==
    ASSUME NegotiationInv, NEW p \in Peers, NEW i \in DOMAIN trs[p], NEW t, Edit(p, i, t),
           IsTr(t), t.mid = trs[p][i].mid, t.mline = trs[p][i].mline,
           trs[p][i].stopped => t.stopped
    PROVE  NegotiationInv'
<1> DEFINE ts == trs[p]
           us == [ts EXCEPT ![i] = t]
<1>1. /\ trs' = [trs EXCEPT ![p] = us] /\ edits' = edits + 1
      /\ UNCHANGED <<needSctp, midCounter, signaling, local, remote, drafts>>
  BY DEF Edit
<1>2. Tables /\ PeerInv(p)
  BY DEF NegotiationInv
<1>3. Tables' /\ trs'[p] = us /\ \A x \in Peers \ {p} : Same(x)
  BY <1>1, <1>2 DEF Tables, Same
<1>4. TrsType(ts) /\ UniqueMids(ts)
  BY <1>2 DEF PeerInv
<1>5. DOMAIN us = DOMAIN ts /\ us = [j \in DOMAIN us |-> us[j]] /\ us[i] = t
      /\ \A j \in DOMAIN ts : j # i => us[j] = ts[j]
  OBVIOUS
<1> HIDE DEF us
<1>6. \A j \in DOMAIN ts : /\ IsTr(us[j]) /\ us[j].mid = ts[j].mid /\ us[j].mline = ts[j].mline
                           /\ ts[j].stopped => us[j].stopped
  BY <1>4, <1>5, TrsFacts
<1>7. TrsType(us) /\ UniqueMids(us)
  BY <1>4, <1>5, <1>6, MidsKept
<1>8. ASSUME StableInv(p) PROVE StableInv(p)'
  <2>1. \A j \in DOMAIN us : us[j].mid = NoMid
    BY <1>5, <1>6, <1>8 DEF StableInv
  <2>2. Placed(us)
    BY <1>5, <1>6, <1>8 DEF StableInv, Placed
  <2> QED BY <1>1, <1>3, <1>8, <2>1, <2>2 DEF StableInv
<1>9. PeerInv(p)'
  BY <1>1, <1>2, <1>3, <1>7, <1>8 DEF PeerInv, OffererInv, AnswererInv, AnsweredInv
<1> QED BY <1>3, <1>9, OnePeer

\* The application's calls.
LEMMA AppStep == ASSUME NegotiationInv, NEW p \in Peers, AppNext(p) PROVE NegotiationInv'
<1>1. \A i \in DOMAIN trs[p] : IsTr(trs[p][i])
  <2>1. TrsType(trs[p])
    BY DEF NegotiationInv, PeerInv
  <2> QED BY <2>1, TrsFacts
<1>2. ASSUME NEW codec \in Codecs, NEW dir \in Wanted, add_transceiver(p, codec, dir, FALSE)
      PROVE  NegotiationInv'
  <2>1. dir \in Directions
    BY NegotiationAssumption DEF Directions
  <2> QED BY <1>2, <2>1, AddStep
<1>3. ASSUME NEW codec \in Codecs, add_track(p, codec) PROVE NegotiationInv'
  <2> DEFINE I == { i \in 1 .. Len(trs[p]) : ~trs[p][i].stopped /\ ~trs[p][i].track /\ trs[p][i].codec = codec }
             i == FirstOf(I)
             t == [trs[p][i] EXCEPT !.track = TRUE, !.dir = @ \cup {"send"}]
  <2>1. IF i = 0 THEN add_transceiver(p, codec, {"send", "recv"}, TRUE) ELSE Edit(p, i, t)
    BY <1>3 DEF add_track, SelectInSeq, FirstOf
  <2>2. Len(trs[p]) \in Nat /\ DOMAIN trs[p] = 1 .. Len(trs[p])
    <3>1. TrsType(trs[p])
      BY DEF NegotiationInv, PeerInv
    <3> QED BY <3>1, TrsFacts
  <2>3. I \in SUBSET (1 .. Len(trs[p]))
    OBVIOUS
  <2>4. i # 0 => i \in I
    BY <2>2, <2>3, FirstIs
  <2> HIDE DEF i
  <2>5. CASE i = 0
    <3>1. {"send", "recv"} \in Directions
      BY DEF Directions
    <3> QED BY <2>1, <2>5, <3>1, AddStep
  <2>6. CASE i # 0
    <3>1. i \in DOMAIN trs[p] /\ IsTr(trs[p][i])
      BY <1>1, <2>2, <2>4, <2>6
    <3>2. /\ IsTr(t) /\ t.mid = trs[p][i].mid /\ t.mline = trs[p][i].mline
          /\ t.stopped = trs[p][i].stopped
      BY <3>1 DEF IsTr, Transceiver, Directions
    <3> HIDE DEF t
    <3> QED BY <2>1, <2>6, <3>1, <3>2, EditStep
  <2> QED BY <2>5, <2>6
<1>4. ASSUME NEW i \in DOMAIN trs[p], stop(p, i) PROVE NegotiationInv'
  <2> DEFINE t == [trs[p][i] EXCEPT !.stopped = TRUE]
  <2>1. Edit(p, i, t)
    BY <1>4 DEF stop
  <2>2. IsTr(t) /\ t.mid = trs[p][i].mid /\ t.mline = trs[p][i].mline /\ t.stopped
    <3>1. IsTr(trs[p][i])
      BY <1>1
    <3> QED BY <3>1 DEF IsTr, Transceiver
  <2> HIDE DEF t
  <2> QED BY <2>1, <2>2, EditStep
<1>5. ASSUME NEW i \in DOMAIN trs[p], NEW dir \in Wanted, set_direction(p, i, dir) PROVE NegotiationInv'
  <2> DEFINE t == [trs[p][i] EXCEPT !.dir = dir]
  <2>1. Edit(p, i, t)
    BY <1>5 DEF set_direction
  <2>2. /\ IsTr(t) /\ t.mid = trs[p][i].mid /\ t.mline = trs[p][i].mline
        /\ t.stopped = trs[p][i].stopped
    <3>1. IsTr(trs[p][i]) /\ dir \in Directions
      BY <1>1, NegotiationAssumption DEF Directions
    <3> QED BY <3>1 DEF IsTr, Transceiver
  <2> HIDE DEF t
  <2> QED BY <2>1, <2>2, EditStep
<1>6. ASSUME create_data_channel(p) PROVE NegotiationInv'
  <2>1. /\ needSctp' = [needSctp EXCEPT ![p] = TRUE]
        /\ UNCHANGED <<trs, edits, midCounter, signaling, local, remote, drafts>>
    BY <1>6 DEF create_data_channel
  <2>2. Tables'
    BY <2>1 DEF NegotiationInv, Tables
  <2>3. Same(p) /\ \A x \in Peers \ {p} : Same(x)
    BY <2>1 DEF Same
  <2>4. PeerInv(p)'
    BY <2>1 DEF NegotiationInv, PeerInv, StableInv, OffererInv, AnswererInv, AnsweredInv
  <2> QED BY <2>2, <2>3, <2>4, OnePeer
<1> QED BY <1>2, <1>3, <1>4, <1>5, <1>6 DEF AppNext

\* A description created in any state.
LEMMA DraftAdded ==
    ASSUME NegotiationInv, NEW p \in Peers, NEW d, drafts' = [drafts EXCEPT ![p] = @ \cup {d}]
    PROVE  /\ DOMAIN drafts' = Peers /\ drafts'[p] = drafts[p] \cup {d}
           /\ \A x \in Peers \ {p} : drafts'[x] = drafts[x]
BY DEF NegotiationInv, Tables

\* MIDs counted on from the counter are all different.
LEMMA FirstIsGood ==
    ASSUME NEW p \in Peers, midCounter[p] \in Nat, TrsType(trs[p]), needSctp[p] \in BOOLEAN,
           NEW lines, FirstLines(p, lines)
    PROVE  GoodOffer(lines)
<1> DEFINE s == Newcomers(p)
           n == Len(s)
<1>1. NewcomersOk(p, IF needSctp[p] THEN 1 ELSE 0, NewTrs(p), s)
  BY NewcomersAre
<1>2. n \in Nat /\ s \in [1 .. n -> 0 .. Len(trs[p])]
  <2> DEFINE c == IF needSctp[p] THEN 1 ELSE 0
  <2> HIDE DEF c, s
  <2>1. NewcomersOk(p, c, NewTrs(p), s)
    BY <1>1 DEF c
  <2> QED BY <2>1 DEF NewcomersOk
<1>3. Len(trs[p]) \in Nat /\ DOMAIN trs[p] = 1 .. Len(trs[p]) /\ \A t \in DOMAIN trs[p] : IsTr(trs[p][t])
  BY TrsFacts
<1>4. /\ lines \in Seq(Line) /\ Len(lines) = n
      /\ \A k \in 1 .. n :
            /\ lines[k].mid = midCounter[p] + k - 1
            /\ IF s[k] = 0 THEN lines[k].codec = "app" /\ lines[k].dir = {"send", "recv"}
               ELSE lines[k] = to_offer_sdp_media(trs[p][s[k]], lines[k].mid)
  BY DEF FirstLines
<1> HIDE DEF s, n
<1>5. DOMAIN lines = 1 .. n
  BY <1>4, LenProperties
<1>6. \A j, k \in DOMAIN lines : lines[j].mid = lines[k].mid => j = k
  <2> DEFINE m == midCounter[p]
  <2>1. m \in Nat /\ \A k \in DOMAIN lines : k \in Nat /\ lines[k].mid = m + k - 1
    BY <1>2, <1>4, <1>5
  <2> HIDE DEF m
  <2> SUFFICES ASSUME NEW j \in DOMAIN lines, NEW k \in DOMAIN lines, lines[j].mid = lines[k].mid
               PROVE  j = k
    OBVIOUS
  <2>2. j \in Nat /\ k \in Nat /\ m + j - 1 = m + k - 1
    BY <2>1
  <2> QED BY <2>1, <2>2
<1>7. ASSUME NEW k \in DOMAIN lines
      PROVE  IF lines[k].codec = "app" THEN lines[k].dir = {"send", "recv"}
             ELSE lines[k].live \/ lines[k].dir = {}
  <2>1. CASE s[k] = 0
    BY <1>4, <1>5, <2>1
  <2>2. CASE s[k] # 0
    <3> DEFINE t == trs[p][s[k]]
    <3>1. IsTr(t)
      BY <1>2, <1>3, <1>5, <2>2
    <3>2. lines[k] = to_offer_sdp_media(t, lines[k].mid)
      BY <1>4, <1>5, <2>2
    <3> HIDE DEF t
    <3>3. lines[k].codec = t.codec /\ (lines[k].live \/ lines[k].dir = {})
      <4> DEFINE r == lines[k]
                 x == to_offer_sdp_media(t, r.mid)
      <4>1. r = x
        BY <3>2
      <4>2. x.codec = t.codec /\ (x.live <=> ~t.stopped) /\ x.dir = (IF t.stopped THEN {} ELSE t.dir)
        BY DEF to_offer_sdp_media
      <4>3. x.codec = t.codec /\ (x.live \/ x.dir = {})
        <5> HIDE DEF x
        <5> QED BY <4>2
      <4> QED BY <4>1, <4>3
    <3>4. t.codec # "app"
      BY <3>1, NegotiationAssumption DEF IsTr, Transceiver
    <3> QED BY <3>3, <3>4
  <2> QED BY <2>1, <2>2
<1> QED BY <1>4, <1>6, <1>7 DEF GoodOffer

\* What create_offer does in any state.
Renumbered(p, us, d, m) ==
    /\ DOMAIN us = DOMAIN trs[p] /\ us = [t \in DOMAIN us |-> us[t]]
    /\ \A t \in DOMAIN us : us[t] = trs[p][t] \/ \E l : us[t] = [trs[p][t] EXCEPT !.mline = l]
    /\ d.type = "offer"
    /\ drafts' = [drafts EXCEPT ![p] = @ \cup {d}]
    /\ trs' = [trs EXCEPT ![p] = us]
    /\ midCounter' = [midCounter EXCEPT ![p] = m]
    /\ UNCHANGED <<needSctp, edits, signaling, local, remote>>

\* create_offer places transceivers and returns an offer, whatever the state.
LEMMA OfferedAgain ==
    ASSUME NEW p \in Peers, create_offer(p) PROVE \E us, d, m : Renumbered(p, us, d, m)
<1>1. PICK F, L, m :
          /\ drafts' = [drafts EXCEPT ![p] = @ \cup {[type |-> "offer", lines |-> L]}]
          /\ trs' = [trs EXCEPT ![p] = [t \in DOMAIN @ |->
                          IF F[t] = 0 THEN @[t] ELSE [@[t] EXCEPT !.mline = F[t]]]]
          /\ midCounter' = [midCounter EXCEPT ![p] = m]
          /\ UNCHANGED <<needSctp, edits, signaling, local, remote>>
  <2> DEFINE entries == Entries(p)
             unnamed == Positions(Len(entries), { k \in DOMAIN entries : entries[k].mid = NoMid })
             fresh == FreshMids(p, Len(unnamed), { entries[k].mid : k \in DOMAIN entries })
             midOf(k) == IF entries[k].mid # NoMid THEN entries[k].mid
                         ELSE fresh[SelectInSeq(unnamed, LAMBDA u : u = k)]
             line(k) ==
               CASE entries[k].kind = "app" ->
                      [mid |-> midOf(k), codec |-> "app", live |-> needSctp[p], dir |-> {"send", "recv"}]
                 [] entries[k].kind = "copy" ->
                      [local[p].lines[entries[k].at] EXCEPT !.live = FALSE, !.dir = {}]
                 [] OTHER -> to_offer_sdp_media(trs[p][entries[k].tr], midOf(k))
             lineOf(t) == SelectInSeq(entries, LAMBDA e : e.tr = t)
             L == [k \in DOMAIN entries |-> line(k)]
             F == [t \in DOMAIN trs[p] |-> lineOf(t)]
             m == IF fresh = << >> THEN midCounter[p] ELSE Last(fresh) + 1
             us == [t \in DOMAIN trs[p] |->
                       IF lineOf(t) = 0 THEN trs[p][t] ELSE [trs[p][t] EXCEPT !.mline = lineOf(t)]]
             vs == [t \in DOMAIN trs[p] |->
                       IF F[t] = 0 THEN trs[p][t] ELSE [trs[p][t] EXCEPT !.mline = F[t]]]
  <2>1. /\ drafts' = [drafts EXCEPT ![p] = @ \cup {[type |-> "offer", lines |-> L]}]
        /\ midCounter' = [midCounter EXCEPT ![p] = m]
        /\ trs' = [trs EXCEPT ![p] = us]
        /\ UNCHANGED <<needSctp, edits, signaling, local, remote>>
    BY DEF create_offer, Draft
  <2> HIDE DEF L, m, lineOf
  <2>2. us = vs
    OBVIOUS
  <2> QED BY <2>1, <2>2
<1> DEFINE ts == trs[p]
           us == [t \in DOMAIN ts |-> IF F[t] = 0 THEN ts[t] ELSE [ts[t] EXCEPT !.mline = F[t]]]
           d == [type |-> "offer", lines |-> L]
<1>2. /\ DOMAIN us = DOMAIN ts /\ us = [t \in DOMAIN us |-> us[t]]
      /\ \A t \in DOMAIN us : us[t] = ts[t] \/ us[t] = [ts[t] EXCEPT !.mline = F[t]]
  OBVIOUS
<1>3. d.type = "offer" /\ trs' = [trs EXCEPT ![p] = us]
  BY <1>1
<1>4. Renumbered(p, us, d, m)
  <2>1. ASSUME NEW t \in DOMAIN us PROVE us[t] = trs[p][t] \/ \E l : us[t] = [trs[p][t] EXCEPT !.mline = l]
    <3> HIDE DEF us
    <3> QED BY <1>2, <2>1
  <2> QED BY <1>1, <1>2, <1>3, <2>1 DEF Renumbered
<1> HIDE DEF us, d
<1> QED BY <1>4

\* create_offer.
LEMMA OfferStep == ASSUME NegotiationInv, NEW p \in Peers, create_offer(p) PROVE NegotiationInv'
<1>1. Tables /\ PeerInv(p) /\ TrsType(trs[p]) /\ UniqueMids(trs[p]) /\ needSctp[p] \in BOOLEAN
  BY DEF NegotiationInv, PeerInv, Tables
<1>2. \A i \in DOMAIN trs[p] : IsTr(trs[p][i])
  BY <1>1, TrsFacts
<1>3. CASE signaling[p] = "stable"
  <2>1. StableInv(p)
    BY <1>1, <1>3 DEF PeerInv
  <2>2. PICK lines, us :
              /\ FirstLines(p, lines) /\ PlacedIn(p, us)
              /\ drafts' = [drafts EXCEPT ![p] = @ \cup {[type |-> "offer", lines |-> lines]}]
              /\ trs' = [trs EXCEPT ![p] = us]
              /\ \E m \in Nat : midCounter' = [midCounter EXCEPT ![p] = m]
              /\ UNCHANGED <<needSctp, edits, signaling, local, remote>>
    BY <1>1, <2>1, FirstOffer DEF StableInv
  <2> DEFINE d == [type |-> "offer", lines |-> lines]
             ts == trs[p]
             s == Newcomers(p)
  <2>3. d.type = "offer" /\ GoodOffer(d.lines)
    BY <1>1, <2>1, <2>2, FirstIsGood DEF StableInv
  <2>4. drafts' = [drafts EXCEPT ![p] = @ \cup {d}]
    BY <2>2
  <2> HIDE DEF d
  <2>5. DOMAIN drafts' = Peers /\ drafts'[p] = drafts[p] \cup {d} /\ \A x \in Peers \ {p} : drafts'[x] = drafts[x]
    BY <2>4, DraftAdded
  <2>6. Tables' /\ trs'[p] = us /\ midCounter'[p] \in Nat /\ \A x \in Peers \ {p} : Same(x)
    BY <1>1, <2>2, <2>5 DEF Tables, Same
  <2>7. /\ DOMAIN us = DOMAIN ts /\ us = [t \in DOMAIN us |-> us[t]]
        /\ \A t \in DOMAIN us :
              \/ ts[t].stopped /\ us[t] = ts[t]
              \/ \E l \in 1 .. Len(s) : s[l] = t /\ us[t] = [ts[t] EXCEPT !.mline = l]
    BY <2>2 DEF PlacedIn
  <2>8. Len(s) \in Nat
    <3> DEFINE c == IF needSctp[p] THEN 1 ELSE 0
    <3>1. NewcomersOk(p, c, NewTrs(p), s)
      BY <1>1, NewcomersAre
    <3> HIDE DEF c, s
    <3> QED BY <3>1 DEF NewcomersOk
  <2> HIDE DEF s
  <2>9. ASSUME NEW t \in DOMAIN ts
        PROVE  /\ IsTr(us[t]) /\ us[t].mid = ts[t].mid /\ us[t].stopped = ts[t].stopped
               /\ ~us[t].stopped => us[t].mline \in 1 .. Len(s) /\ s[us[t].mline] = t
               /\ us[t].stopped => us[t].mline = ts[t].mline \/ us[t].mline \in 1 .. Len(s)
    <3>1. IsTr(ts[t])
      BY <1>2
    <3>2. CASE ts[t].stopped /\ us[t] = ts[t]
      BY <3>1, <3>2
    <3>3. ASSUME NEW l \in 1 .. Len(s), s[l] = t, us[t] = [ts[t] EXCEPT !.mline = l]
          PROVE  /\ IsTr(us[t]) /\ us[t].mid = ts[t].mid /\ us[t].stopped = ts[t].stopped
                 /\ us[t].mline = l
      <4> DEFINE a == ts[t]
      <4> HIDE DEF a
      <4>1. IsTr(a) /\ us[t] = [a EXCEPT !.mline = l]
        BY <3>1, <3>3 DEF a
      <4>2. IsTr(us[t]) /\ us[t].mid = a.mid /\ us[t].stopped = a.stopped /\ us[t].mline = l
        BY <4>1 DEF IsTr, Transceiver
      <4> QED BY <4>2 DEF a
    <3> QED BY <2>7, <3>2, <3>3
  <2>10. TrsType(us) /\ UniqueMids(us)
    BY <1>1, <2>7, <2>9, MidsKept
  <2>11. Placed(us)
    <3>1. ASSUME NEW t \in DOMAIN us, us[t].mline # NoLine PROVE us[t].mline \in Nat \ {0}
      <4>1. ts[t].mline # NoLine => ts[t].mline \in Nat \ {0}
        BY <2>1, <2>7 DEF StableInv, Placed
      <4>2. us[t].mline = ts[t].mline \/ us[t].mline \in 1 .. Len(s)
        BY <2>7, <2>9, <1>2
      <4> QED BY <2>8, <3>1, <4>1, <4>2
    <3>2. \A t, r \in DOMAIN us : ~us[t].stopped /\ ~us[r].stopped /\ us[t].mline = us[r].mline => t = r
      BY <2>7, <2>9
    <3> QED BY <3>1, <3>2 DEF Placed
  <2>12. \A i \in DOMAIN us : us[i].mid = NoMid
    BY <2>1, <2>7, <2>9 DEF StableInv
  <2>13. StableInv(p)'
    BY <2>1, <2>2, <2>3, <2>5, <2>6, <2>11, <2>12 DEF StableInv
  <2>14. PeerInv(p)'
    BY <1>3, <2>2, <2>6, <2>10, <2>13 DEF PeerInv
  <2> QED BY <2>6, <2>14, OnePeer
<1>4. CASE signaling[p] # "stable"
  <2>1. PICK us, d, m : Renumbered(p, us, d, m)
    BY OfferedAgain
  <2> DEFINE ts == trs[p]
  <2>1a. /\ DOMAIN us = DOMAIN trs[p] /\ us = [t \in DOMAIN us |-> us[t]]
         /\ \A t \in DOMAIN us : us[t] = trs[p][t] \/ \E l : us[t] = [trs[p][t] EXCEPT !.mline = l]
         /\ d.type = "offer"
         /\ drafts' = [drafts EXCEPT ![p] = @ \cup {d}]
         /\ trs' = [trs EXCEPT ![p] = us]
         /\ midCounter' = [midCounter EXCEPT ![p] = m]
         /\ UNCHANGED <<needSctp, edits, signaling, local, remote>>
    BY <2>1 DEF Renumbered
  <2>2. DOMAIN drafts' = Peers /\ drafts'[p] = drafts[p] \cup {d} /\ \A x \in Peers \ {p} : drafts'[x] = drafts[x]
    BY <2>1a, DraftAdded
  <2>3. Tables' /\ trs'[p] = us /\ \A x \in Peers \ {p} : Same(x)
    BY <1>1, <2>1a, <2>2 DEF Tables, Same
  <2>4. ASSUME NEW t \in DOMAIN ts
        PROVE  IsTr(us[t]) /\ us[t].mid = ts[t].mid /\ us[t].stopped = ts[t].stopped
    <3> DEFINE a == ts[t]
    <3>1. IsTr(a)
      BY <1>2
    <3>2. us[t] = a \/ \E l : us[t] = [a EXCEPT !.mline = l]
      BY <2>1a
    <3> HIDE DEF a
    <3>3. IsTr(us[t]) /\ us[t].mid = a.mid /\ us[t].stopped = a.stopped
      BY <3>1, <3>2 DEF IsTr, Transceiver
    <3> QED BY <3>3 DEF a
  <2>5. TrsType(us) /\ UniqueMids(us)
    BY <1>1, <2>1a, <2>4, MidsKept
  <2>6. PeerInv(p)'
    BY <1>1, <1>4, <2>1a, <2>2, <2>3, <2>5 DEF PeerInv, OffererInv, AnswererInv, AnsweredInv
  <2> QED BY <2>3, <2>6, OnePeer
<1> QED BY <1>3, <1>4

\* The first transceiver of a MID.
MidAt(ts, mid) == SelectInSeq(ts, LAMBDA t : t.mid = mid)

\* create_answer, line by line.
AnswerLine(p, rm) ==
    LET i == MidAt(trs[p], rm.mid)
    IN  CASE rm.codec = "app" -> [rm EXCEPT !.live = TRUE]
          [] rm.codec # "app" /\ i # 0 -> to_answer_sdp_media(trs[p][i], rm)
          [] OTHER -> [rm EXCEPT !.live = FALSE, !.dir = {}]

\* The first transceiver of that MID, if there is one.
LEMMA FoundByMid ==
    ASSUME NEW ts, TrsType(ts), NEW mid
    PROVE  /\ MidAt(ts, mid) \in Nat
           /\ MidAt(ts, mid) = 0 <=> \A j \in DOMAIN ts : ts[j].mid # mid
           /\ MidAt(ts, mid) # 0 => MidAt(ts, mid) \in DOMAIN ts /\ ts[MidAt(ts, mid)].mid = mid
<1> DEFINE I == { j \in 1 .. Len(ts) : ts[j].mid = mid }
           i == FirstOf(I)
<1>1. Len(ts) \in Nat /\ DOMAIN ts = 1 .. Len(ts)
  BY TrsFacts
<1>2. I \in SUBSET (1 .. Len(ts))
  OBVIOUS
<1>3. i \in 0 .. Len(ts) /\ (i = 0 <=> I = {}) /\ (i # 0 => i \in I)
  BY <1>1, <1>2, FirstIs
<1>4. MidAt(ts, mid) = i
  BY DEF MidAt, SelectInSeq, FirstOf
<1> HIDE DEF i
<1> QED BY <1>1, <1>3, <1>4

\* A line of the answer stays within the line it answers.
LEMMA AnswerLineFits ==
    ASSUME NEW p \in Peers, TrsType(trs[p]), NEW rm \in Line,
           IF rm.codec = "app" THEN rm.live /\ rm.dir = {"send", "recv"} ELSE rm.live \/ rm.dir = {}
    PROVE  /\ AnswerLine(p, rm) \in Line
           /\ AnswerLine(p, rm).mid = rm.mid /\ AnswerLine(p, rm).codec = rm.codec
           /\ AnswerLine(p, rm).live => rm.live
           /\ AnswerLine(p, rm).dir # {} => AnswerLine(p, rm).live
           /\ AnswerLine(p, rm).dir \subseteq reverse_direction(rm.dir)
<1> DEFINE i == MidAt(trs[p], rm.mid)
<1>1. DOMAIN rm = {"mid", "codec", "live", "dir"} /\ rm.mid \in Nat /\ rm.codec \in Codecs \cup {"app"}
      /\ rm.live \in BOOLEAN /\ rm.dir \in Directions
  BY DEF Line
<1>2. CASE rm.codec = "app"
  <2> DEFINE x == [rm EXCEPT !.live = TRUE]
  <2>1. AnswerLine(p, rm) = x
    BY <1>2 DEF AnswerLine
  <2>2. x \in Line /\ x.mid = rm.mid /\ x.codec = rm.codec /\ x.live /\ x.dir = rm.dir
    BY DEF Line
  <2>3. rm.live /\ reverse_direction(rm.dir) = {"send", "recv"}
    BY <1>2 DEF reverse_direction
  <2> HIDE DEF x
  <2> QED BY <1>2, <2>1, <2>2, <2>3
<1>3. CASE rm.codec # "app" /\ i # 0
  <2> DEFINE t == trs[p][i]
             d == IF t.stopped THEN {} ELSE negotiate_direction(t.dir, rm.dir)
             x == [rm EXCEPT !.live = d # {}, !.dir = d]
  <2>1. AnswerLine(p, rm) = to_answer_sdp_media(t, rm)
    BY <1>3 DEF AnswerLine
  <2>2. to_answer_sdp_media(t, rm) = x
    BY DEF to_answer_sdp_media
  <2>3. i \in DOMAIN trs[p]
    <3>1. i # 0 => i \in DOMAIN trs[p]
      BY FoundByMid
    <3> QED BY <1>3, <3>1
  <2>4. IsTr(t)
    BY <2>3, TrsFacts
  <2>5. d \in Directions /\ d \subseteq reverse_direction(rm.dir)
    <3> HIDE DEF t
    <3> QED BY <2>4 DEF IsTr, Transceiver, Directions, negotiate_direction
  <2>6. rm.dir = {} => d = {}
    BY <2>5 DEF reverse_direction
  <2> HIDE DEF d, t
  <2>7. x \in Line /\ x.mid = rm.mid /\ x.codec = rm.codec /\ (x.live <=> d # {}) /\ x.dir = d
    BY <1>1, <2>5 DEF Line
  <2> HIDE DEF x
  <2> QED BY <1>3, <2>1, <2>2, <2>5, <2>6, <2>7
<1>4. CASE rm.codec # "app" /\ i = 0
  <2> DEFINE x == [rm EXCEPT !.live = FALSE, !.dir = {}]
  <2>1. AnswerLine(p, rm) = x
    BY <1>4 DEF AnswerLine
  <2>2. x \in Line /\ x.mid = rm.mid /\ x.codec = rm.codec /\ ~x.live /\ x.dir = {}
    BY <1>1 DEF Line, Directions
  <2> HIDE DEF x
  <2> QED BY <2>1, <2>2
<1> QED BY <1>2, <1>3, <1>4

\* create_answer keeps to the offer it answers.
LEMMA AnswerFits ==
    ASSUME NEW p \in Peers, TrsType(trs[p]), NEW offer, GoodOffer(offer), Bundled(offer)
    PROVE  Answers([k \in DOMAIN offer |-> AnswerLine(p, offer[k])], offer)
<1> DEFINE answer == [k \in DOMAIN offer |-> AnswerLine(p, offer[k])]
<1>1. offer \in Seq(Line)
  BY DEF GoodOffer
<1>2. Len(offer) \in Nat /\ DOMAIN offer = 1 .. Len(offer) /\ \A k \in DOMAIN offer : offer[k] \in Line
  BY <1>1, LenProperties, ElementOfSeq
<1>3. ASSUME NEW k \in DOMAIN offer
      PROVE  /\ answer[k] \in Line
             /\ answer[k].mid = offer[k].mid /\ answer[k].codec = offer[k].codec
             /\ answer[k].live => offer[k].live
             /\ answer[k].dir # {} => answer[k].live
             /\ answer[k].dir \subseteq reverse_direction(offer[k].dir)
  <2> DEFINE rm == offer[k]
  <2>1. rm \in Line
    BY <1>2
  <2>2. IF rm.codec = "app" THEN rm.live /\ rm.dir = {"send", "recv"} ELSE rm.live \/ rm.dir = {}
    BY DEF GoodOffer, Bundled
  <2>3. answer[k] = AnswerLine(p, rm)
    OBVIOUS
  <2> HIDE DEF rm, answer
  <2>4. /\ AnswerLine(p, rm) \in Line
        /\ AnswerLine(p, rm).mid = rm.mid /\ AnswerLine(p, rm).codec = rm.codec
        /\ AnswerLine(p, rm).live => rm.live
        /\ AnswerLine(p, rm).dir # {} => AnswerLine(p, rm).live
        /\ AnswerLine(p, rm).dir \subseteq reverse_direction(rm.dir)
    BY <2>1, <2>2, AnswerLineFits
  <2> QED BY <2>3, <2>4 DEF rm
<1>4. DOMAIN answer = DOMAIN offer /\ answer = [k \in 1 .. Len(offer) |-> answer[k]]
  BY <1>2
<1> HIDE DEF answer
<1>5. answer \in [1 .. Len(offer) -> Line]
  BY <1>2, <1>3, <1>4
<1>6. answer \in Seq(Line)
  BY <1>2, <1>5
<1>7. Answers(answer, offer)
  BY <1>3, <1>4, <1>6 DEF Answers
<1> QED BY <1>7 DEF answer

\* create_answer is a draft of that.
LEMMA AnswerIs ==
    ASSUME NEW p \in Peers, create_answer(p)
    PROVE  /\ signaling[p] = "have_remote_offer"
           /\ drafts' = [drafts EXCEPT ![p] = @ \cup
                  {[type |-> "answer",
                    lines |-> [k \in DOMAIN remote[p].lines |-> AnswerLine(p, remote[p].lines[k])]]}]
           /\ UNCHANGED <<appVars, midCounter, signaling, local, remote>>
BY DEF create_answer, Draft, AnswerLine, MidAt

\* create_answer.
LEMMA AnswerStep == ASSUME NegotiationInv, NEW p \in Peers, create_answer(p) PROVE NegotiationInv'
<1> DEFINE lines == [k \in DOMAIN remote[p].lines |-> AnswerLine(p, remote[p].lines[k])]
           d == [type |-> "answer", lines |-> lines]
<1>1. /\ signaling[p] = "have_remote_offer" /\ drafts' = [drafts EXCEPT ![p] = @ \cup {d}]
      /\ UNCHANGED <<trs, needSctp, edits, midCounter, signaling, local, remote>>
  BY AnswerIs DEF appVars
<1>2. Tables /\ PeerInv(p) /\ TrsType(trs[p]) /\ AnswererInv(p)
  BY <1>1 DEF NegotiationInv, PeerInv
<1>3. d.type = "answer" /\ Answers(d.lines, remote[p].lines)
  BY <1>2, AnswerFits DEF AnswererInv
<1> HIDE DEF d
<1>4. DOMAIN drafts' = Peers /\ drafts'[p] = drafts[p] \cup {d} /\ \A x \in Peers \ {p} : drafts'[x] = drafts[x]
  BY <1>1, DraftAdded
<1>5. Tables' /\ \A x \in Peers \ {p} : Same(x)
  BY <1>1, <1>2, <1>4 DEF Tables, Same
<1>6. AnswererInv(p)'
  BY <1>1, <1>2, <1>3, <1>4 DEF AnswererInv
<1>7. PeerInv(p)'
  BY <1>1, <1>2, <1>6 DEF PeerInv
<1> QED BY <1>5, <1>7, OnePeer

\* set_local_description gives transceivers their MIDs, each another one.
LEMMA MidsTaken ==
    ASSUME NEW ts, TrsType(ts), \A i \in DOMAIN ts : ts[i].mid = NoMid, Placed(ts),
           NEW lines, GoodOffer(lines), \A i \in DOMAIN ts : MatchesOffer(ts[i], lines)
    PROVE  LET us == [i \in DOMAIN ts |-> TakeMid(ts[i], lines)] IN
           /\ TrsType(us) /\ UniqueMids(us)
<1> DEFINE us == [i \in DOMAIN ts |-> TakeMid(ts[i], lines)]
<1>1. Len(ts) \in Nat /\ DOMAIN ts = 1 .. Len(ts) /\ \A i \in DOMAIN ts : IsTr(ts[i])
  BY TrsFacts
<1>2. lines \in Seq(Line)
  BY DEF GoodOffer
<1>3. Len(lines) \in Nat /\ DOMAIN lines = 1 .. Len(lines) /\ \A k \in DOMAIN lines : lines[k].mid \in Nat
  <2>1. Len(lines) \in Nat /\ DOMAIN lines = 1 .. Len(lines) /\ \A k \in DOMAIN lines : lines[k] \in Line
    BY <1>2, LenProperties, ElementOfSeq
  <2> QED BY <2>1 DEF Line
<1>4. ASSUME NEW i \in DOMAIN ts
      PROVE  /\ IsTr(us[i]) /\ us[i].stopped = ts[i].stopped
             /\ ts[i].mline = NoLine => us[i].mid = NoMid
             /\ ts[i].mline # NoLine => ts[i].mline \in DOMAIN lines /\ us[i].mid = lines[ts[i].mline].mid
  <2> DEFINE t == ts[i]
  <2>1. IsTr(t) /\ us[i] = TakeMid(t, lines) /\ t.mid = NoMid
    BY <1>1
  <2>2. t.mline # NoLine => t.mline \in DOMAIN lines
    <3>1. t.mline # NoLine => t.mline \in Nat \ {0} /\ t.mline <= Len(lines)
      BY DEF Placed, MatchesOffer
    <3> HIDE DEF t
    <3> QED BY <1>3, <3>1
  <2> HIDE DEF t, us
  <2>3. CASE t.mline = NoLine
    <3>1. us[i] = t
      BY <2>1, <2>3 DEF TakeMid
    <3> QED BY <2>1, <2>3, <3>1 DEF t
  <2>4. CASE t.mline # NoLine
    <3> DEFINE m == lines[t.mline].mid
    <3>1. m \in Nat
      BY <1>3, <2>2, <2>4
    <3> HIDE DEF m
    <3>2. us[i] = [t EXCEPT !.mid = m]
      BY <2>1, <2>4 DEF TakeMid, m
    <3>3. IsTr(us[i]) /\ us[i].stopped = t.stopped /\ us[i].mid = m
      BY <2>1, <3>1, <3>2 DEF IsTr, Transceiver
    <3> QED BY <2>2, <2>4, <3>3 DEF m, t
  <2> QED BY <2>3, <2>4
<1>5. DOMAIN us = DOMAIN ts /\ us = [i \in 1 .. Len(ts) |-> us[i]]
  BY <1>1
<1> HIDE DEF us
<1>6. TrsType(us)
  BY <1>1, <1>4, <1>5, TrsMade
<1>7. UniqueMids(us)
  <2> SUFFICES ASSUME NEW i \in DOMAIN ts, NEW j \in DOMAIN ts, i # j, ~us[i].stopped, ~us[j].stopped,
                      us[i].mid # NoMid, us[i].mid = us[j].mid
               PROVE  FALSE
    BY <1>5 DEF UniqueMids
  <2>1. ts[i].mline # NoLine /\ ts[j].mline # NoLine
    BY <1>4
  <2>2. /\ ts[i].mline \in DOMAIN lines /\ ts[j].mline \in DOMAIN lines
        /\ lines[ts[i].mline].mid = lines[ts[j].mline].mid
    BY <1>4, <2>1
  <2>3. ts[i].mline = ts[j].mline
    BY <2>2 DEF GoodOffer
  <2>4. ~ts[i].stopped /\ ~ts[j].stopped
    BY <1>4
  <2> QED BY <2>1, <2>3, <2>4 DEF Placed
<1> QED BY <1>6, <1>7 DEF us

\* set_local_description.
LEMMA SetLocalStep ==
    ASSUME NegotiationInv, NEW p \in Peers, NEW d, set_local_description(p, d)
    PROVE  NegotiationInv'
<1>1. Tables /\ PeerInv(p) /\ TrsType(trs[p]) /\ UniqueMids(trs[p])
  BY DEF NegotiationInv, PeerInv
<1>2. /\ d \in drafts[p] /\ local' = [local EXCEPT ![p] = d]
      /\ UNCHANGED <<needSctp, edits, midCounter, remote, drafts>>
  BY DEF set_local_description
<1>3. CASE /\ d.type = "offer" /\ signaling[p] = "stable"
           /\ \A i \in DOMAIN trs[p] : MatchesOffer(trs[p][i], d.lines)
           /\ trs' = [trs EXCEPT ![p] = [i \in DOMAIN @ |-> TakeMid(@[i], d.lines)]]
           /\ signaling' = [signaling EXCEPT ![p] = "have_local_offer"]
  <2> DEFINE ts == trs[p]
             us == [i \in DOMAIN ts |-> TakeMid(ts[i], d.lines)]
  <2>1. StableInv(p)
    BY <1>1, <1>3 DEF PeerInv
  <2>2. GoodOffer(d.lines) /\ (\A i \in DOMAIN ts : ts[i].mid = NoMid) /\ Placed(ts)
    BY <1>2, <2>1 DEF StableInv
  <2>3. TrsType(us) /\ UniqueMids(us)
    BY <1>1, <1>3, <2>2, MidsTaken
  <2>4. trs' = [trs EXCEPT ![p] = us]
    BY <1>3
  <2> HIDE DEF us
  <2>5. /\ Tables' /\ trs'[p] = us /\ local'[p] = d /\ signaling'[p] = "have_local_offer"
        /\ \A x \in Peers \ {p} : Same(x)
    BY <1>1, <1>2, <1>3, <2>4 DEF Tables, Same
  <2>6. OffererInv(p)'
    BY <1>3, <2>2, <2>5 DEF OffererInv
  <2>7. PeerInv(p)'
    BY <2>3, <2>5, <2>6 DEF PeerInv
  <2> QED BY <2>5, <2>7, OnePeer
<1>4. CASE /\ d.type = "answer" /\ signaling[p] = "have_remote_offer"
           /\ signaling' = [signaling EXCEPT ![p] = "have_local_pranswer"]
           /\ UNCHANGED trs
  <2>1. AnswererInv(p)
    BY <1>1, <1>4 DEF PeerInv
  <2>2. Answers(d.lines, remote[p].lines)
    BY <1>2, <1>4, <2>1 DEF AnswererInv
  <2>3. /\ Tables' /\ local'[p] = d /\ signaling'[p] = "have_local_pranswer"
        /\ \A x \in Peers \ {p} : Same(x)
    BY <1>1, <1>2, <1>4 DEF Tables, Same
  <2>4. AnsweredInv(p)'
    BY <1>2, <1>4, <2>2, <2>3 DEF AnsweredInv
  <2>5. PeerInv(p)'
    BY <1>1, <1>4, <2>3, <2>4 DEF PeerInv
  <2> QED BY <2>3, <2>5, OnePeer
<1> QED BY <1>3, <1>4 DEF set_local_description

\* What an answer leaves of a transceiver.
Applied(r, t, lines) ==
    /\ IsTr(r) /\ r.mid = t.mid /\ r.codec = t.codec
    /\ t.stopped => r.stopped
    /\ ~r.stopped => r.dir # {}
    /\ r.dir # {} => r.stopped = t.stopped
    /\ r.dir # {} => \E k \in 1 .. Len(lines) :
                        /\ lines[k].mid = t.mid /\ lines[k].codec = t.codec
                        /\ r.dir = t.dir \cap reverse_direction(lines[k].dir)
    /\ r.dir = {} => \/ \A k \in 1 .. Len(lines) : lines[k].mid # t.mid
                     \/ \E k \in 1 .. Len(lines) :
                           /\ lines[k].mid = t.mid
                           /\ lines[k].codec # t.codec
                                 \/ t.dir \cap reverse_direction(lines[k].dir) = {}

\* set_remote_description with an answer keeps the directions the answer
\* allows, and stops a transceiver without any.
LEMMA AnswerApplied ==
    ASSUME NEW t, IsTr(t), NEW lines, Len(lines) \in Nat
    PROVE  Applied(ApplyAnswer(t, lines), t, lines)
<1> DEFINE I == { k \in 1 .. Len(lines) : lines[k].mid = t.mid }
           k == FirstOf(I)
           n == IF k = 0 THEN [t EXCEPT !.dir = {}] ELSE FromRemote(t, lines[k])
           r == IF n.dir = {} THEN [n EXCEPT !.stopped = TRUE] ELSE n
<1>1. ApplyAnswer(t, lines) = r
  BY DEF ApplyAnswer, SelectInSeq, FirstOf
<1>2. I \in SUBSET (1 .. Len(lines))
  OBVIOUS
<1>3. k \in 0 .. Len(lines) /\ (k = 0 <=> I = {}) /\ (k # 0 => k \in I)
  BY <1>2, FirstIs
<1> HIDE DEF k
<1>4. /\ IsTr(n) /\ n.mid = t.mid /\ n.codec = t.codec /\ n.stopped = t.stopped
      /\ n.dir # {} => /\ k \in 1 .. Len(lines) /\ lines[k].mid = t.mid /\ lines[k].codec = t.codec
                       /\ n.dir = t.dir \cap reverse_direction(lines[k].dir)
      /\ n.dir = {} => \/ k = 0
                       \/ /\ k \in 1 .. Len(lines) /\ lines[k].mid = t.mid
                          /\ \/ lines[k].codec # t.codec
                             \/ t.dir \cap reverse_direction(lines[k].dir) = {}
  <2>1. CASE k = 0
    <3>1. n = [t EXCEPT !.dir = {}]
      BY <2>1
    <3> HIDE DEF n
    <3>2. IsTr(n) /\ n.mid = t.mid /\ n.codec = t.codec /\ n.stopped = t.stopped /\ n.dir = {}
      BY <3>1 DEF IsTr, Transceiver, Directions
    <3> QED BY <2>1, <3>2
  <2>2. CASE k # 0
    <3>1. Narrowed(n, t, lines[k])
      BY <2>2, RemoteKeeps
    <3>2. k \in 1 .. Len(lines) /\ lines[k].mid = t.mid
      BY <1>3, <2>2
    <3> HIDE DEF n
    <3>3. CASE t.codec = lines[k].codec
      BY <2>2, <3>1, <3>2, <3>3 DEF Narrowed
    <3>4. CASE t.codec # lines[k].codec
      BY <2>2, <3>1, <3>2, <3>4 DEF Narrowed
    <3> QED BY <3>3, <3>4
  <2> QED BY <2>1, <2>2
<1> HIDE DEF n
<1>5. /\ IsTr(r) /\ r.mid = n.mid /\ r.codec = n.codec /\ r.dir = n.dir
      /\ n.stopped => r.stopped
      /\ ~r.stopped => r.dir # {}
      /\ r.dir # {} => r.stopped = n.stopped
  <2>1. CASE n.dir = {}
    <3>1. r = [n EXCEPT !.stopped = TRUE]
      BY <2>1
    <3> HIDE DEF r
    <3>2. /\ IsTr(r) /\ r.mid = n.mid /\ r.codec = n.codec /\ r.dir = n.dir
          /\ r.stopped = TRUE
      BY <1>4, <3>1 DEF IsTr, Transceiver
    <3> QED BY <2>1, <3>2
  <2>2. CASE n.dir # {}
    BY <1>4, <2>2
  <2> QED BY <2>1, <2>2
<1> HIDE DEF r
<1>6. r.dir = {} => \/ \A h \in 1 .. Len(lines) : lines[h].mid # t.mid
                    \/ \E h \in 1 .. Len(lines) :
                           /\ lines[h].mid = t.mid
                           /\ lines[h].codec # t.codec
                                 \/ t.dir \cap reverse_direction(lines[h].dir) = {}
  BY <1>3, <1>4, <1>5
<1>7. Applied(r, t, lines)
  BY <1>4, <1>5, <1>6 DEF Applied
<1> QED BY <1>1, <1>7

\* set_remote_description.
LEMMA SetRemoteStep ==
    ASSUME NegotiationInv, NEW p \in Peers, set_remote_description(p) PROVE NegotiationInv'
<1> DEFINE q == Other(p)
           d == local[q]
           ts == trs[p]
<1>1. Tables /\ PeerInv(p) /\ TrsType(ts) /\ UniqueMids(ts) /\ PeerInv(q)
  BY Others DEF NegotiationInv, PeerInv
<1>2. remote' = [remote EXCEPT ![p] = d] /\ UNCHANGED <<needSctp, edits, midCounter, local, drafts>>
  BY DEF set_remote_description
<1>3. Len(ts) \in Nat /\ DOMAIN ts = 1 .. Len(ts) /\ \A i \in DOMAIN ts : IsTr(ts[i])
  BY <1>1, TrsFacts
<1>4. CASE /\ d.type = "offer" /\ signaling[p] = "stable" /\ Bundled(d.lines)
           /\ trs' = [trs EXCEPT ![p] = BindAll(@, d.lines)]
           /\ signaling' = [signaling EXCEPT ![p] = "have_remote_offer"]
  <2> DEFINE us == BindAll(ts, d.lines)
  <2>1. StableInv(p)
    BY <1>1, <1>4 DEF PeerInv
  <2>2. GoodOffer(d.lines)
    BY <1>1, <1>4 DEF PeerInv, StableInv, OffererInv, AnswererInv, AnsweredInv, NoSdp
  <2>3. \A i \in DOMAIN ts : ts[i].mid = NoMid
    BY <2>1 DEF StableInv
  <2>4. BoundUpTo(ts, us, d.lines, Len(d.lines))
    BY <1>1, <2>2, <2>3, AllBound
  <2>5. trs' = [trs EXCEPT ![p] = us]
    BY <1>4
  <2> HIDE DEF us
  <2>6. TrsType(us) /\ UniqueMids(us)
    BY <2>4 DEF BoundUpTo, UniqueMids
  <2>7. /\ Tables' /\ trs'[p] = us /\ remote'[p] = d /\ signaling'[p] = "have_remote_offer"
        /\ local'[p] = local[p] /\ \A x \in Peers \ {p} : Same(x)
    BY <1>1, <1>2, <1>4, <2>5 DEF Tables, Same
  <2>8. AnswererInv(p)'
    BY <1>2, <1>4, <2>1, <2>2, <2>7 DEF AnswererInv, StableInv
  <2>9. PeerInv(p)'
    BY <2>6, <2>7, <2>8 DEF PeerInv
  <2> QED BY <2>7, <2>9, OnePeer
<1>5. CASE /\ d.type = "answer" /\ signaling[p] = "have_local_offer"
           /\ trs' = [trs EXCEPT ![p] = [i \in DOMAIN @ |-> ApplyAnswer(@[i], d.lines)]]
           /\ signaling' = [signaling EXCEPT ![p] = "have_remote_pranswer"]
  <2> DEFINE us == [i \in DOMAIN ts |-> ApplyAnswer(ts[i], d.lines)]
  <2>1. trs' = [trs EXCEPT ![p] = us]
    BY <1>5
  <2>2. Len(d.lines) \in Nat
    <3>1. Answers(d.lines, remote[q].lines)
      BY <1>1, <1>5 DEF PeerInv, StableInv, OffererInv, AnswererInv, AnsweredInv, NoSdp
    <3> QED BY <3>1, LenProperties DEF Answers
  <2>3. \A i \in DOMAIN ts : Applied(us[i], ts[i], d.lines)
    BY <1>3, <2>2, AnswerApplied
  <2>4. DOMAIN us = DOMAIN ts /\ us = [i \in DOMAIN us |-> us[i]]
    OBVIOUS
  <2> HIDE DEF us
  <2>5. TrsType(us) /\ UniqueMids(us)
    BY <1>1, <2>3, <2>4, MidsKept DEF Applied
  <2>6. /\ Tables' /\ trs'[p] = us /\ remote'[p] = d /\ signaling'[p] = "have_remote_pranswer"
        /\ local'[p] = local[p] /\ \A x \in Peers \ {p} : Same(x)
    BY <1>1, <1>2, <1>5, <2>1 DEF Tables, Same
  <2>7. OffererInv(p)
    BY <1>1, <1>5 DEF PeerInv
  <2>8. PeerInv(p)'
    BY <2>5, <2>6, <2>7 DEF PeerInv, OffererInv
  <2> QED BY <2>6, <2>8, OnePeer
<1> QED BY <1>4, <1>5 DEF set_remote_description

\* Every call.
LEMMA NegotiationStep == ASSUME NegotiationInv, [Next]_vars PROVE NegotiationInv'
<1>1. CASE UNCHANGED vars
  BY <1>1 DEF vars, appVars, NegotiationInv, Tables, PeerInv, StableInv, OffererInv, AnswererInv, AnsweredInv
<1>2. ASSUME NEW p \in Peers, AppNext(p) PROVE NegotiationInv'
  BY <1>2, AppStep
<1>3. ASSUME NEW p \in Peers, create_offer(p) PROVE NegotiationInv'
  BY <1>3, OfferStep
<1>4. ASSUME NEW p \in Peers, create_answer(p) PROVE NegotiationInv'
  BY <1>4, AnswerStep
<1>5. ASSUME NEW p \in Peers, NEW d \in drafts[p], set_local_description(p, d) PROVE NegotiationInv'
  BY <1>5, SetLocalStep
<1>6. ASSUME NEW p \in Peers, set_remote_description(p) PROVE NegotiationInv'
  BY <1>6, SetRemoteStep
<1> QED BY <1>1, <1>2, <1>3, <1>4, <1>5, <1>6 DEF Next

(***************************************************************************)
(* Agreement, as long as no application changes a transceiver.             *)
(***************************************************************************)
Unstopped(ts) == \A i \in DOMAIN ts : ~ts[i].stopped

\* The application line first, if there is one, then the first transceivers.
Written(lines, ts, c, m) ==
    /\ Len(lines) = c + m
    /\ \A k \in 1 .. c : lines[k].codec = "app"
    /\ \A i \in 1 .. m : lines[c + i].codec = ts[i].codec /\ lines[c + i].dir = ts[i].dir

\* Before an offer is set, the latest one has the most lines, and only it has
\* a line where each transceiver says: an older one is accepted only if
\* nothing was added since.
Numbered(ts, sctp, ds) ==
    \E c \in 0 .. 1, m \in 0 .. Len(ts) :
        /\ c = 1 => sctp
        /\ \A i \in DOMAIN ts : ts[i].mline = IF i <= m THEN c + i ELSE NoLine
        /\ \A d \in ds : \E a \in 0 .. c, n \in 0 .. m : Written(d.lines, ts, a, n)

\* The offer that was set and the transceivers say the same.
OfferedBy(lines, ts) ==
    /\ \A k \in DOMAIN lines : lines[k].codec # "app" => \E i \in DOMAIN ts : ts[i].mid = lines[k].mid
    /\ \A i \in DOMAIN ts : ts[i].mid # NoMid =>
          \E k \in DOMAIN lines : /\ lines[k].mid = ts[i].mid /\ lines[k].codec = ts[i].codec
                                  /\ lines[k].dir = ts[i].dir

\* The answerer's transceivers keep within the offer.
BoundTo(ts, lines) ==
    \A i \in DOMAIN ts : ts[i].mid # NoMid =>
        \E k \in DOMAIN lines :
            /\ lines[k].mid = ts[i].mid /\ lines[k].codec # "app"
            /\ ts[i].dir \subseteq reverse_direction(lines[k].dir)
            /\ ts[i].codec # lines[k].codec => ts[i].dir = {}

\* A line of the answer has the direction of its transceiver.
Mirrors(answer, ts) ==
    \A k \in DOMAIN answer : answer[k].codec # "app" =>
        \/ answer[k].dir = {} /\ \A i \in DOMAIN ts : ts[i].mid # answer[k].mid
        \/ \E i \in DOMAIN ts : ts[i].mid = answer[k].mid /\ answer[k].dir = ts[i].dir

Active(t) == ~t.stopped /\ t.mid # NoMid /\ t.dir # {}
Matches(t, u) == Active(u) /\ u.mid = t.mid /\ u.codec = t.codec /\ u.dir = reverse_direction(t.dir)

Agreed(ts, us) ==
    /\ \A i \in DOMAIN ts : Active(ts[i]) => \E j \in DOMAIN us : Matches(ts[i], us[j])
    /\ \A j \in DOMAIN us : Active(us[j]) => \E i \in DOMAIN ts : Matches(us[j], ts[i])

\* What holds in each signalling state of p, the other peer being q.
Preparing(p) ==
    signaling[p] = "stable" /\ Unstopped(trs[p]) /\ Numbered(trs[p], needSctp[p], drafts[p])

Offering(p) ==
    signaling[p] = "have_local_offer" /\ Unstopped(trs[p]) /\ OfferedBy(local[p].lines, trs[p])

Answering(p, q) ==
    /\ signaling[p] = "have_remote_offer" /\ Unstopped(trs[p])
    /\ remote[p] = local[q] /\ signaling[q] = "have_local_offer"
    /\ BoundTo(trs[p], remote[p].lines)
    /\ \A d \in drafts[p] : d.type = "answer" => Mirrors(d.lines, trs[p])

Answered(p, q) ==
    /\ signaling[p] = "have_local_pranswer" /\ Unstopped(trs[p])
    /\ remote[p] = local[q] /\ signaling[q] \in {"have_local_offer", "have_remote_pranswer"}
    /\ BoundTo(trs[p], remote[p].lines) /\ Mirrors(local[p].lines, trs[p])

Done(p, q) ==
    /\ signaling[p] = "have_remote_pranswer" /\ signaling[q] = "have_local_pranswer"
    /\ Agreed(trs[p], trs[q])

AgreeInv(p, q) == Preparing(p) \/ Offering(p) \/ Answering(p, q) \/ Answered(p, q) \/ Done(p, q)

AgreementInv ==
    NegotiationInv /\ (edits = 0 => \A p, q \in Peers : p # q => AgreeInv(p, q))

\* reverse_direction swaps the two directions.
LEMMA Reversed ==
    ASSUME NEW d \in Directions, NEW e \in Directions
    PROVE  /\ reverse_direction(d) \in Directions
           /\ reverse_direction(reverse_direction(d)) = d
           /\ reverse_direction(d) = {} <=> d = {}
           /\ d \subseteq reverse_direction(e) => reverse_direction(d) \subseteq e
<1>1. \A f \in Directions : /\ reverse_direction(f) \in Directions
                            /\ "send" \in reverse_direction(f) <=> "recv" \in f
                            /\ "recv" \in reverse_direction(f) <=> "send" \in f
  <2> SUFFICES ASSUME NEW f \in SUBSET {"send", "recv"}
               PROVE  /\ reverse_direction(f) \in SUBSET {"send", "recv"}
                      /\ "send" \in reverse_direction(f) <=> "recv" \in f
                      /\ "recv" \in reverse_direction(f) <=> "send" \in f
    BY DEF Directions
  <2> QED BY DEF reverse_direction
<1> DEFINE r == reverse_direction(d)
           s == reverse_direction(r)
           u == reverse_direction(e)
<1>2. /\ r \in Directions /\ ("send" \in r <=> "recv" \in d) /\ ("recv" \in r <=> "send" \in d)
      /\ u \in Directions /\ ("send" \in u <=> "recv" \in e) /\ ("recv" \in u <=> "send" \in e)
  BY <1>1
<1>3. s \in Directions /\ ("send" \in s <=> "recv" \in r) /\ ("recv" \in s <=> "send" \in r)
  BY <1>1, <1>2
<1> HIDE DEF r, s, u
<1>4. /\ r \in SUBSET {"send", "recv"} /\ s \in SUBSET {"send", "recv"}
      /\ d \in SUBSET {"send", "recv"} /\ e \in SUBSET {"send", "recv"}
  BY <1>2, <1>3 DEF Directions
<1>5. s = d
  <2>1. ("send" \in s <=> "send" \in d) /\ ("recv" \in s <=> "recv" \in d)
    BY <1>2, <1>3
  <2>2. (\A x \in s : x \in {"send", "recv"}) /\ \A x \in d : x \in {"send", "recv"}
    BY <1>4
  <2>3. \A x : x \in s <=> x \in d
    BY <2>1, <2>2
  <2> QED BY <2>3, Zenon
<1>6. r = {} <=> d = {}
  BY <1>2, <1>4
<1>7. ASSUME d \subseteq u PROVE r \subseteq e
  <2>1. ("send" \in r => "send" \in e) /\ ("recv" \in r => "recv" \in e)
    BY <1>2, <1>7
  <2> QED BY <1>4, <2>1
<1> QED BY <1>2, <1>5, <1>6, <1>7 DEF r, s, u

\* What holds of transceivers holds when more are added and lines are assigned.
Grown(ts, us) ==
    /\ DOMAIN ts \subseteq DOMAIN us
    /\ \A i \in DOMAIN ts : /\ us[i].mid = ts[i].mid /\ us[i].codec = ts[i].codec
                            /\ us[i].dir = ts[i].dir /\ us[i].stopped = ts[i].stopped
    /\ \A i \in DOMAIN us : i \notin DOMAIN ts => us[i].mid = NoMid /\ ~us[i].stopped

\* add_transceiver and, once the offer is set, create_offer leave the agreement.
LEMMA GrownKeeps ==
    ASSUME NEW ts, NEW us, Grown(ts, us)
    PROVE  /\ Unstopped(ts) => Unstopped(us)
           /\ \A lines : OfferedBy(lines, ts) => OfferedBy(lines, us)
           /\ \A lines : BoundTo(ts, lines) => BoundTo(us, lines)
           /\ \A answer : Mirrors(answer, ts) /\ (\A k \in DOMAIN answer : answer[k].mid # NoMid)
                             => Mirrors(answer, us)
           /\ \A vs : Agreed(ts, vs) => Agreed(us, vs)
           /\ \A vs : Agreed(vs, ts) => Agreed(vs, us)
<1>1. Unstopped(ts) => Unstopped(us)
  BY DEF Grown, Unstopped
<1>2. ASSUME NEW lines, OfferedBy(lines, ts) PROVE OfferedBy(lines, us)
  BY <1>2 DEF Grown, OfferedBy
<1>3. ASSUME NEW lines, BoundTo(ts, lines) PROVE BoundTo(us, lines)
  <2> SUFFICES ASSUME NEW i \in DOMAIN us, us[i].mid # NoMid
               PROVE  \E k \in DOMAIN lines :
                        /\ lines[k].mid = us[i].mid /\ lines[k].codec # "app"
                        /\ us[i].dir \subseteq reverse_direction(lines[k].dir)
                        /\ us[i].codec # lines[k].codec => us[i].dir = {}
    BY DEF BoundTo
  <2>1. i \in DOMAIN ts
    BY DEF Grown
  <2>2. ts[i].mid # NoMid /\ us[i].mid = ts[i].mid /\ us[i].codec = ts[i].codec /\ us[i].dir = ts[i].dir
    BY <2>1 DEF Grown
  <2> QED BY <1>3, <2>1, <2>2 DEF BoundTo
<1>4. ASSUME NEW answer, Mirrors(answer, ts), \A k \in DOMAIN answer : answer[k].mid # NoMid
      PROVE  Mirrors(answer, us)
  BY <1>4 DEF Grown, Mirrors
<1>5. \A i \in DOMAIN us : Active(us[i]) => i \in DOMAIN ts /\ Active(ts[i])
  BY DEF Grown, Active
<1>6. \A i \in DOMAIN ts : \A t : i \in DOMAIN us /\ (Matches(t, ts[i]) => Matches(t, us[i]))
                              /\ (Matches(ts[i], t) => Matches(us[i], t))
  BY DEF Grown, Matches, Active
<1>7. ASSUME NEW vs, Agreed(ts, vs) PROVE Agreed(us, vs)
  BY <1>5, <1>6, <1>7 DEF Agreed
<1>8. ASSUME NEW vs, Agreed(vs, ts) PROVE Agreed(vs, us)
  BY <1>5, <1>6, <1>8 DEF Agreed
<1> QED BY <1>1, <1>2, <1>3, <1>4, <1>7, <1>8

\* An answer applied makes the two agree.
LEMMA AgreedAtLast ==
    ASSUME NEW ts, NEW qs, NEW us, NEW offer, NEW answer, GoodOffer(offer), Answers(answer, offer),
           TrsType(ts), TrsType(qs), Unstopped(ts), Unstopped(qs), UniqueMids(qs),
           OfferedBy(offer, ts), BoundTo(qs, offer), Mirrors(answer, qs),
           DOMAIN us = DOMAIN ts, \A i \in DOMAIN ts : Applied(us[i], ts[i], answer)
    PROVE  Agreed(us, qs)
<1>1. /\ \A i \in DOMAIN ts : ts[i].dir \in Directions /\ ts[i].codec \in Codecs
      /\ \A j \in DOMAIN qs : qs[j].dir \in Directions /\ qs[j].codec \in Codecs
      /\ "app" \notin Codecs
  <2>1. (\A i \in DOMAIN ts : IsTr(ts[i])) /\ \A j \in DOMAIN qs : IsTr(qs[j])
    BY TrsFacts
  <2> QED BY <2>1, NegotiationAssumption DEF IsTr, Transceiver
<1>2. /\ DOMAIN answer = DOMAIN offer /\ DOMAIN answer = 1 .. Len(answer)
      /\ \A k \in DOMAIN answer : answer[k].dir \in Directions /\ offer[k].dir \in Directions
  <2>1. answer \in Seq(Line) /\ offer \in Seq(Line)
    BY DEF Answers, GoodOffer
  <2>2. DOMAIN answer = DOMAIN offer /\ DOMAIN answer = 1 .. Len(answer) /\ DOMAIN offer = 1 .. Len(offer)
    BY <2>1, LenProperties DEF Answers
  <2>3. \A k \in DOMAIN answer : answer[k] \in Line /\ offer[k] \in Line
    BY <2>1, <2>2, ElementOfSeq
  <2> QED BY <2>2, <2>3 DEF Line
<1>3. \A k \in DOMAIN answer : /\ answer[k].mid = offer[k].mid /\ answer[k].codec = offer[k].codec
                               /\ answer[k].dir \subseteq reverse_direction(offer[k].dir)
  BY DEF Answers
<1>4. \A h, k \in DOMAIN answer : offer[h].mid = offer[k].mid => h = k
  BY <1>2 DEF GoodOffer
<1>5. \A k \in DOMAIN answer :
         /\ reverse_direction(answer[k].dir) \subseteq offer[k].dir
         /\ reverse_direction(reverse_direction(answer[k].dir)) = answer[k].dir
         /\ reverse_direction(answer[k].dir) = {} <=> answer[k].dir = {}
  BY <1>2, <1>3, Reversed
<1>6. ASSUME NEW i \in DOMAIN ts, NEW k \in DOMAIN answer, ts[i].mid = offer[k].mid, ts[i].mid # NoMid
      PROVE  /\ ts[i].codec = offer[k].codec /\ ts[i].dir = offer[k].dir
             /\ ts[i].dir \cap reverse_direction(answer[k].dir) = reverse_direction(answer[k].dir)
  <2>1. ts[i].codec = offer[k].codec /\ ts[i].dir = offer[k].dir
    BY <1>2, <1>4, <1>6 DEF OfferedBy
  <2> QED BY <1>5, <2>1
<1>7. ASSUME NEW j \in DOMAIN qs, NEW k \in DOMAIN answer, qs[j].mid = offer[k].mid, qs[j].mid # NoMid
      PROVE  qs[j].dir # {} => qs[j].codec = offer[k].codec
  BY <1>2, <1>4, <1>7 DEF BoundTo
<1>8. ASSUME NEW i \in DOMAIN us, Active(us[i]) PROVE \E j \in DOMAIN qs : Matches(us[i], qs[j])
  <2>1. us[i].mid = ts[i].mid /\ us[i].codec = ts[i].codec /\ ts[i].mid # NoMid /\ us[i].dir # {}
    BY <1>8 DEF Active, Applied
  <2>2. PICK k \in DOMAIN answer : /\ answer[k].mid = ts[i].mid /\ answer[k].codec = ts[i].codec
                                   /\ us[i].dir = ts[i].dir \cap reverse_direction(answer[k].dir)
    BY <1>2, <2>1 DEF Applied
  <2>3. us[i].dir = reverse_direction(answer[k].dir) /\ answer[k].dir # {}
    BY <1>3, <1>5, <1>6, <2>1, <2>2
  <2>4. answer[k].codec # "app"
    BY <1>1, <2>2
  <2>5. PICK j \in DOMAIN qs : qs[j].mid = answer[k].mid /\ answer[k].dir = qs[j].dir
    BY <2>3, <2>4 DEF Mirrors
  <2>6. qs[j].codec = us[i].codec
    BY <1>3, <1>7, <2>1, <2>2, <2>3, <2>5
  <2>7. qs[j].dir = reverse_direction(us[i].dir)
    BY <1>5, <2>3, <2>5
  <2>8. Active(qs[j])
    BY <2>1, <2>2, <2>3, <2>5 DEF Active, Unstopped
  <2> QED BY <2>1, <2>2, <2>5, <2>6, <2>7, <2>8 DEF Matches
<1>9. ASSUME NEW j \in DOMAIN qs, Active(qs[j]) PROVE \E i \in DOMAIN us : Matches(qs[j], us[i])
  <2>1. qs[j].mid # NoMid /\ qs[j].dir # {} /\ ~qs[j].stopped
    BY <1>9 DEF Active
  <2>2. PICK k \in DOMAIN answer : offer[k].mid = qs[j].mid /\ offer[k].codec # "app"
    BY <1>2, <2>1 DEF BoundTo
  <2>3. qs[j].codec = offer[k].codec /\ answer[k].mid = qs[j].mid /\ answer[k].codec # "app"
    BY <1>3, <1>7, <2>1, <2>2
  <2>4. answer[k].dir = qs[j].dir
    <3>1. PICK h \in DOMAIN qs : qs[h].mid = answer[k].mid /\ answer[k].dir = qs[h].dir
      BY <2>3 DEF Mirrors
    <3>2. h = j
      BY <2>1, <2>3, <3>1 DEF UniqueMids, Unstopped
    <3> QED BY <3>1, <3>2
  <2>5. PICK i \in DOMAIN ts : ts[i].mid = offer[k].mid
    BY <1>2, <2>2 DEF OfferedBy
  <2>6. /\ ts[i].codec = offer[k].codec
        /\ ts[i].dir \cap reverse_direction(answer[k].dir) = reverse_direction(answer[k].dir)
    BY <1>6, <2>1, <2>2, <2>5
  <2>7. reverse_direction(answer[k].dir) # {}
    BY <1>5, <2>1, <2>4
  <2>8. \A h \in 1 .. Len(answer) : answer[h].mid = ts[i].mid => h = k
    BY <1>2, <1>3, <1>4, <2>5
  <2>9. us[i].dir # {}
    <3> SUFFICES ASSUME us[i].dir = {} PROVE FALSE
      OBVIOUS
    <3>1. k \in 1 .. Len(answer) /\ answer[k].mid = ts[i].mid
      BY <1>2, <1>3, <2>5
    <3>2. PICK h \in 1 .. Len(answer) :
             /\ answer[h].mid = ts[i].mid
             /\ answer[h].codec # ts[i].codec \/ ts[i].dir \cap reverse_direction(answer[h].dir) = {}
      BY <3>1 DEF Applied
    <3>3. h = k
      BY <2>8, <3>2
    <3> QED BY <1>3, <2>6, <2>7, <3>2, <3>3
  <2>10. us[i].dir = reverse_direction(qs[j].dir)
    <3>1. PICK h \in 1 .. Len(answer) :
             /\ answer[h].mid = ts[i].mid
             /\ us[i].dir = ts[i].dir \cap reverse_direction(answer[h].dir)
      BY <2>9 DEF Applied
    <3>2. h = k
      BY <2>8, <3>1
    <3> QED BY <2>4, <2>6, <3>1, <3>2
  <2>11. us[i].mid = qs[j].mid /\ us[i].codec = qs[j].codec /\ ~us[i].stopped
    BY <2>2, <2>3, <2>5, <2>6, <2>9 DEF Applied, Unstopped
  <2> QED BY <2>1, <2>9, <2>10, <2>11 DEF Matches, Active
<1> QED BY <1>8, <1>9 DEF Agreed


\* What a call on p leaves of the clause of q, and of everything p's clause
\* says of q.
Untouched(p, q) == Same(q) /\ needSctp'[q] = needSctp[q]

\* A call that neither sets a description nor takes anything from the
\* transceivers leaves the other peer in agreement.
LEMMA BystanderKeeps ==
    ASSUME NEW p \in Peers, NEW q \in Peers, AgreeInv(q, p), Untouched(p, q),
           local'[p] = local[p], signaling'[p] = signaling[p],
           Grown(trs[p], trs'[p])
    PROVE  AgreeInv(q, p)'
<1>1. Same(q) /\ needSctp'[q] = needSctp[q]
  BY DEF Untouched
<1>2. CASE Preparing(q)
  <2>1. Preparing(q)'
    BY <1>1, <1>2 DEF Preparing, Same
  <2> QED BY <2>1 DEF AgreeInv
<1>3. CASE Offering(q)
  <2>1. Offering(q)'
    BY <1>1, <1>3 DEF Offering, Same
  <2> QED BY <2>1 DEF AgreeInv
<1>4. CASE Answering(q, p)
  <2>1. Answering(q, p)'
    BY <1>1, <1>4 DEF Answering, Same
  <2> QED BY <2>1 DEF AgreeInv
<1>5. CASE Answered(q, p)
  <2>1. Answered(q, p)'
    BY <1>1, <1>5 DEF Answered, Same
  <2> QED BY <2>1 DEF AgreeInv
<1>6. CASE Done(q, p)
  <2>1. Agreed(trs[q], trs'[p])
    BY <1>6, GrownKeeps DEF Done
  <2>2. Done(q, p)'
    BY <1>1, <1>6, <2>1 DEF Done, Same
  <2> QED BY <2>2 DEF AgreeInv
<1> QED BY <1>2, <1>3, <1>4, <1>5, <1>6 DEF AgreeInv

\* So does the caller once it has set a description.
LEMMA ActorKeeps ==
    ASSUME NegotiationInv, NEW p \in Peers, NEW q \in Peers, AgreeInv(p, q), Untouched(p, q),
           signaling[p] # "stable", local'[p] = local[p], signaling'[p] = signaling[p],
           remote'[p] = remote[p], Grown(trs[p], trs'[p]),
           \A d \in drafts'[p] : d \in drafts[p] \/ d.type = "offer" \/ Mirrors(d.lines, trs'[p])
    PROVE  AgreeInv(p, q)'
<1>1. Same(q) /\ PeerInv(p)
  BY DEF Untouched, NegotiationInv
<1>2. ASSUME NEW answer, NEW offer, Answers(answer, offer) PROVE \A k \in DOMAIN answer : answer[k].mid # NoMid
  <2>1. answer \in Seq(Line)
    BY <1>2 DEF Answers
  <2>2. \A k \in DOMAIN answer : answer[k] \in Line
    BY <2>1, LenProperties, ElementOfSeq
  <2> QED BY <2>2 DEF Line, NoMid
<1>3. CASE Offering(p)
  <2>1. Offering(p)'
    BY <1>3, GrownKeeps DEF Offering
  <2> QED BY <2>1 DEF AgreeInv
<1>4. CASE Answering(p, q)
  <2>1. AnswererInv(p)
    BY <1>1, <1>4 DEF PeerInv, Answering
  <2>2. ASSUME NEW d \in drafts'[p], d.type = "answer" PROVE Mirrors(d.lines, trs'[p])
    <3>1. CASE d \in drafts[p]
      <4>1. Mirrors(d.lines, trs[p])
        BY <1>4, <2>2, <3>1 DEF Answering
      <4>2. \A k \in DOMAIN d.lines : d.lines[k].mid # NoMid
        BY <1>2, <2>1, <2>2, <3>1 DEF AnswererInv
      <4> QED BY <4>1, <4>2, GrownKeeps
    <3> QED BY <2>2, <3>1
  <2>3. Answering(p, q)'
    BY <1>1, <1>4, <2>2, GrownKeeps DEF Answering, Same
  <2> QED BY <2>3 DEF AgreeInv
<1>5. CASE Answered(p, q)
  <2>1. AnsweredInv(p)
    BY <1>1, <1>5 DEF PeerInv, Answered
  <2>2. Mirrors(local[p].lines, trs'[p])
    <3>1. \A k \in DOMAIN local[p].lines : local[p].lines[k].mid # NoMid
      BY <1>2, <2>1 DEF AnsweredInv
    <3> QED BY <1>5, <3>1, GrownKeeps DEF Answered
  <2>3. Answered(p, q)'
    BY <1>1, <1>5, <2>2, GrownKeeps DEF Answered, Same
  <2> QED BY <2>3 DEF AgreeInv
<1>6. CASE Done(p, q)
  <2>1. Agreed(trs'[p], trs[q])
    BY <1>6, GrownKeeps DEF Done
  <2>2. Done(p, q)'
    BY <1>1, <1>6, <2>1 DEF Done, Same
  <2> QED BY <2>2 DEF AgreeInv
<1>7. ~Preparing(p)
  BY DEF Preparing
<1> QED BY <1>3, <1>4, <1>5, <1>6, <1>7 DEF AgreeInv

\* add_transceiver adds one without a line.
LEMMA NumberedAdded ==
    ASSUME NEW ts, TrsType(ts), NEW t, IsTr(t), t.mid = NoMid, t.mline = NoLine,
           NEW sctp, NEW ds, Numbered(ts, sctp, ds)
    PROVE  Numbered(Append(ts, t), sctp, ds)
<1> DEFINE us == Append(ts, t)
<1>1. Len(ts) \in Nat /\ DOMAIN ts = 1 .. Len(ts)
  BY TrsFacts
<1>2. /\ TrsType(us) /\ DOMAIN us = DOMAIN ts \cup {Len(ts) + 1}
      /\ \A i \in DOMAIN ts : us[i] = ts[i]
      /\ us[Len(ts) + 1] = t
  BY MidsAdded
<1>3. PICK c \in 0 .. 1, m \in 0 .. Len(ts) :
        /\ c = 1 => sctp
        /\ \A i \in DOMAIN ts : ts[i].mline = IF i <= m THEN c + i ELSE NoLine
        /\ \A d \in ds : \E a \in 0 .. c, n \in 0 .. m : Written(d.lines, ts, a, n)
  BY DEF Numbered
<1> HIDE DEF us
<1>4. Len(us) \in Nat /\ DOMAIN us = 1 .. Len(us)
  BY <1>2, TrsFacts
<1>5. Len(us) = Len(ts) + 1
  BY <1>1, <1>2, <1>4
<1>6. \A i \in DOMAIN us : us[i].mline = IF i <= m THEN c + i ELSE NoLine
  BY <1>1, <1>2, <1>3
<1>7. ASSUME NEW d \in ds PROVE \E a \in 0 .. c, n \in 0 .. m : Written(d.lines, us, a, n)
  <2>1. PICK a \in 0 .. c, n \in 0 .. m : Written(d.lines, ts, a, n)
    BY <1>3
  <2>2. Written(d.lines, us, a, n)
    <3>1. \A i \in 1 .. n : i \in DOMAIN ts
      BY <1>1, <1>3, <2>1
    <3>2. \A i \in 1 .. n : us[i] = ts[i]
      BY <1>2, <3>1
    <3> QED BY <2>1, <3>2 DEF Written
  <2> QED BY <2>2
<1>8. m \in 0 .. Len(us)
  BY <1>1, <1>5
<1> QED BY <1>3, <1>6, <1>7, <1>8 DEF Numbered, us

\* create_offer, as long as no offer was set, writes every transceiver in its
\* place behind the application line.
LEMMA NumberedAnew ==
    ASSUME NEW p \in Peers, TrsType(trs[p]), needSctp[p] \in BOOLEAN, Unstopped(trs[p]),
           \A i \in DOMAIN trs[p] : trs[p][i].mid = NoMid,
           Numbered(trs[p], needSctp[p], drafts[p]),
           NEW lines, FirstLines(p, lines), NEW us, PlacedIn(p, us)
    PROVE  /\ Numbered(us, needSctp[p], drafts[p] \cup {[type |-> "offer", lines |-> lines]})
           /\ Unstopped(us) /\ Grown(trs[p], us)
<1> DEFINE ts == trs[p]
           s == Newcomers(p)
           b == NewTrs(p)
           e == IF needSctp[p] THEN 1 ELSE 0
           l == Len(ts)
           ds == drafts[p]
           new == [type |-> "offer", lines |-> lines]
<1>1. l \in Nat /\ DOMAIN ts = 1 .. l /\ \A i \in DOMAIN ts : IsTr(ts[i])
  BY TrsFacts
<1>2. NewcomersOk(p, e, b, s)
  BY NewcomersAre
<1>3. PICK c \in 0 .. 1, m \in 0 .. l :
        /\ c = 1 => needSctp[p]
        /\ \A d \in ds : \E a \in 0 .. c, n \in 0 .. m : Written(d.lines, ts, a, n)
  BY DEF Numbered
<1>4. e \in 0 .. 1 /\ c <= e /\ (e = 1 => needSctp[p])
  BY <1>3
<1>5. /\ DOMAIN us = DOMAIN ts
      /\ \A t \in DOMAIN us : \/ ts[t].stopped /\ us[t] = ts[t]
                              \/ \E h \in 1 .. Len(s) : s[h] = t /\ us[t] = [ts[t] EXCEPT !.mline = h]
      /\ us = [t \in DOMAIN us |-> us[t]]
  BY DEF PlacedIn
<1>6. /\ Len(lines) = Len(s)
      /\ \A k \in 1 .. Len(s) :
            IF s[k] = 0 THEN lines[k].codec = "app"
            ELSE lines[k] = to_offer_sdp_media(ts[s[k]], lines[k].mid)
  BY DEF FirstLines
<1> HIDE DEF s, b, e
<1>7. b = [i \in 1 .. l |-> i] /\ Len(b) = l /\ Len(s) = e + l
  <2>1. 1 .. l \subseteq { t \in DOMAIN trs[p] : trs[p][t].mid = NoMid /\ ~trs[p][t].stopped }
    BY <1>1 DEF Unstopped
  <2>2. b = [i \in 1 .. l |-> i]
    BY <1>2, <2>1 DEF NewcomersOk, InOrder
  <2>3. Len(b) = l
    BY <1>1, <2>2
  <2> QED BY <1>2, <2>2, <2>3 DEF NewcomersOk
<1>8. /\ \A k \in 1 .. e : s[k] = 0
      /\ \A i \in 1 .. l : s[e + i] = i
  BY <1>2, <1>7 DEF NewcomersOk
<1> HIDE DEF l
<1>9. ASSUME NEW t \in DOMAIN ts
      PROVE  /\ us[t].mline = e + t /\ us[t].mid = ts[t].mid /\ us[t].codec = ts[t].codec
             /\ us[t].dir = ts[t].dir /\ us[t].stopped = ts[t].stopped
  <2>1. PICK h \in 1 .. Len(s) : s[h] = t /\ us[t] = [ts[t] EXCEPT !.mline = h]
    BY <1>5 DEF Unstopped
  <2>2. h = e + t
    <3>1. ~(h \in 1 .. e)
      BY <1>1, <1>8, <2>1
    <3>2. h - e \in 1 .. l /\ e + (h - e) = h
      BY <1>1, <1>4, <1>7, <2>1, <3>1
    <3>3. s[h] = h - e
      BY <1>8, <3>2
    <3> QED BY <1>1, <1>4, <2>1, <3>2, <3>3
  <2> DEFINE r == ts[t]
  <2> HIDE DEF r
  <2>3. IsTr(r) /\ us[t] = [r EXCEPT !.mline = h]
    BY <1>1, <2>1 DEF r
  <2>4. /\ us[t].mline = h /\ us[t].mid = r.mid /\ us[t].codec = r.codec
        /\ us[t].dir = r.dir /\ us[t].stopped = r.stopped
    BY <2>3 DEF IsTr, Transceiver
  <2> QED BY <2>2, <2>4 DEF r
<1>10. Len(us) = l
  <2>1. us = [t \in 1 .. l |-> us[t]]
    BY <1>1, <1>5
  <2> QED BY <1>1, <2>1
<1>11. \A i \in DOMAIN us : us[i].mline = IF i <= l THEN e + i ELSE NoLine
  BY <1>1, <1>5, <1>9
<1>12. Written(lines, us, e, l)
  <2>1. \A k \in 1 .. e : lines[k].codec = "app"
    <3>1. \A k \in 1 .. e : k \in 1 .. Len(s)
      BY <1>1, <1>4, <1>7
    <3> QED BY <1>6, <1>8, <3>1
  <2>2. ASSUME NEW i \in 1 .. l PROVE lines[e + i].codec = us[i].codec /\ lines[e + i].dir = us[i].dir
    <3>1. e + i \in 1 .. Len(s) /\ s[e + i] = i /\ i # 0 /\ i \in DOMAIN ts
      BY <1>1, <1>4, <1>7, <1>8
    <3>2. lines[e + i] = to_offer_sdp_media(ts[i], lines[e + i].mid)
      BY <1>6, <3>1
    <3>3. lines[e + i].codec = ts[i].codec /\ lines[e + i].dir = ts[i].dir
      BY <3>1, <3>2 DEF to_offer_sdp_media, Unstopped
    <3> QED BY <1>9, <3>1, <3>3
  <2> QED BY <1>6, <1>7, <2>1, <2>2 DEF Written
<1>13. ASSUME NEW d \in ds \cup {new} PROVE \E a \in 0 .. e, n \in 0 .. l : Written(d.lines, us, a, n)
  <2>1. CASE d \in ds
    <3>1. PICK a \in 0 .. c, n \in 0 .. m : Written(d.lines, ts, a, n)
      BY <1>3, <2>1
    <3>2. Written(d.lines, us, a, n)
      <4>1. \A i \in 1 .. n : i \in DOMAIN ts
        BY <1>1, <1>3, <3>1
      <4>2. \A i \in 1 .. n : us[i].codec = ts[i].codec /\ us[i].dir = ts[i].dir
        BY <1>9, <4>1
      <4> HIDE DEF ts
      <4> QED BY <3>1, <4>2 DEF Written
    <3>3. a \in 0 .. e /\ n \in 0 .. l
      BY <1>1, <1>3, <1>4
    <3> QED BY <3>2, <3>3
  <2>2. CASE d = new
    <3>1. Written(d.lines, us, e, l) /\ e \in 0 .. e /\ l \in 0 .. l
      BY <1>1, <1>4, <1>12, <2>2
    <3> QED BY <3>1
  <2> QED BY <2>1, <2>2
<1>14. Numbered(us, needSctp[p], ds \cup {new})
  <2>1. l \in 0 .. Len(us)
    BY <1>1, <1>10
  <2> HIDE DEF ds, new
  <2> QED BY <1>4, <1>11, <1>13, <2>1 DEF Numbered
<1>15. Unstopped(us) /\ Grown(ts, us)
  BY <1>5, <1>9 DEF Unstopped, Grown
<1> QED BY <1>14, <1>15

\* An offer that set_local_description accepts has a line for each transceiver
\* that was ever offered.
LEMMA LatestIsSet ==
    ASSUME NEW ts, TrsType(ts), \A i \in DOMAIN ts : ts[i].mid = NoMid, Unstopped(ts),
           NEW sctp, NEW ds, Numbered(ts, sctp, ds), NEW d \in ds, GoodOffer(d.lines),
           \A i \in DOMAIN ts : MatchesOffer(ts[i], d.lines),
           NEW us, us = [i \in DOMAIN ts |-> TakeMid(ts[i], d.lines)]
    PROVE  OfferedBy(d.lines, us) /\ Unstopped(us)
<1> DEFINE lines == d.lines
<1>1. Len(ts) \in Nat /\ DOMAIN ts = 1 .. Len(ts) /\ \A i \in DOMAIN ts : IsTr(ts[i])
  BY TrsFacts
<1>2. PICK c \in 0 .. 1, m \in 0 .. Len(ts) :
        /\ \A i \in DOMAIN ts : ts[i].mline = IF i <= m THEN c + i ELSE NoLine
        /\ \E a \in 0 .. c, n \in 0 .. m : Written(lines, ts, a, n)
  BY DEF Numbered
<1>3. PICK a \in 0 .. c, n \in 0 .. m : Written(lines, ts, a, n)
  BY <1>2
<1>4. /\ Len(lines) = a + n
      /\ \A k \in 1 .. a : lines[k].codec = "app"
      /\ \A i \in 1 .. n : lines[a + i].codec = ts[i].codec /\ lines[a + i].dir = ts[i].dir
  BY <1>3 DEF Written
<1>5. DOMAIN lines = 1 .. a + n /\ \A k \in DOMAIN lines : lines[k].mid \in Nat
  <2>1. lines \in Seq(Line)
    BY DEF GoodOffer
  <2>2. DOMAIN lines = 1 .. Len(lines) /\ \A k \in DOMAIN lines : lines[k] \in Line
    BY <2>1, LenProperties, ElementOfSeq
  <2> QED BY <1>4, <2>2 DEF Line
<1> HIDE DEF lines
<1>6. \A i \in DOMAIN ts : ts[i].mline # NoLine => ts[i].mline <= a + n
  BY <1>4 DEF MatchesOffer, lines
<1>7. n = m /\ (m # 0 => a = c)
  <2>1. CASE m = 0
    BY <1>3, <2>1
  <2>2. CASE m # 0
    <3>1. m \in DOMAIN ts /\ ts[m].mline = c + m /\ c + m # NoLine
      BY <1>1, <1>2, <2>2 DEF NoLine
    <3>2. c + m <= a + n
      BY <1>6, <3>1
    <3> QED BY <1>2, <1>3, <3>2
  <2> QED BY <2>1, <2>2
<1>8. DOMAIN us = DOMAIN ts
  OBVIOUS
<1>9. ASSUME NEW i \in DOMAIN ts
      PROVE  /\ us[i].codec = ts[i].codec /\ us[i].dir = ts[i].dir /\ us[i].stopped = ts[i].stopped
             /\ i <= m => us[i].mid = lines[c + i].mid
             /\ i > m => us[i].mid = NoMid
  <2> DEFINE t == ts[i]
  <2>1. IsTr(t) /\ us[i] = TakeMid(t, lines) /\ t.mid = NoMid /\ i \in Nat \ {0}
        /\ t.mline = IF i <= m THEN c + i ELSE NoLine
    BY <1>1, <1>2 DEF lines
  <2> HIDE DEF t
  <2>2. CASE i <= m
    <3>1. t.mline = c + i /\ t.mline # NoLine
      BY <1>2, <2>1, <2>2 DEF NoLine
    <3>2. us[i] = [t EXCEPT !.mid = lines[t.mline].mid]
      BY <2>1, <3>1 DEF TakeMid
    <3>3. us[i].codec = t.codec /\ us[i].dir = t.dir /\ us[i].stopped = t.stopped
          /\ us[i].mid = lines[t.mline].mid
      BY <2>1, <3>2 DEF IsTr, Transceiver
    <3>4. ~(i > m)
      BY <1>2, <2>1, <2>2
    <3> QED BY <3>1, <3>3, <3>4 DEF t
  <2>3. CASE ~(i <= m)
    <3>1. us[i] = t
      BY <2>1, <2>3 DEF TakeMid
    <3> QED BY <2>1, <2>3, <3>1 DEF t
  <2> QED BY <2>2, <2>3
<1>10. ASSUME NEW k \in DOMAIN lines, lines[k].codec # "app"
       PROVE  \E i \in DOMAIN us : us[i].mid = lines[k].mid
  <2>1. k \in Nat /\ k > a /\ k <= a + n
    BY <1>3, <1>4, <1>5, <1>10
  <2>2. k - a \in 1 .. m /\ m # 0
    BY <1>2, <1>3, <1>7, <2>1
  <2>3. k - a \in DOMAIN ts /\ c + (k - a) = k /\ k - a <= m
    BY <1>1, <1>2, <1>3, <1>7, <2>1, <2>2
  <2>4. us[k - a].mid = lines[k].mid
    BY <1>9, <2>3
  <2> QED BY <1>8, <2>3, <2>4
<1>11. ASSUME NEW i \in DOMAIN us, us[i].mid # NoMid
       PROVE  \E k \in DOMAIN lines : /\ lines[k].mid = us[i].mid /\ lines[k].codec = us[i].codec
                                      /\ lines[k].dir = us[i].dir
  <2>1. i \in DOMAIN ts /\ i \in 1 .. m
    BY <1>1, <1>2, <1>8, <1>9, <1>11
  <2>2. a = c /\ i <= m /\ i \in 1 .. n /\ c + i \in DOMAIN lines
    BY <1>2, <1>3, <1>5, <1>7, <2>1
  <2>3. lines[c + i].codec = us[i].codec /\ lines[c + i].dir = us[i].dir
    BY <1>4, <1>9, <2>1, <2>2
  <2> QED BY <1>9, <2>1, <2>2, <2>3
<1>12. OfferedBy(lines, us)
  BY <1>10, <1>11 DEF OfferedBy
<1>13. Unstopped(us)
  BY <1>8, <1>9 DEF Unstopped
<1> QED BY <1>12, <1>13 DEF lines

\* set_remote_description binds transceivers within the offer.
LEMMA BoundWithin ==
    ASSUME NEW ts, TrsType(ts), \A i \in DOMAIN ts : ts[i].mid = NoMid, Unstopped(ts),
           NEW lines, GoodOffer(lines), NEW us, BoundUpTo(ts, us, lines, Len(lines))
    PROVE  BoundTo(us, lines) /\ Unstopped(us)
<1>1. \A i \in DOMAIN ts : IsTr(ts[i])
  BY TrsFacts
<1>2. DOMAIN lines = 1 .. Len(lines) /\ \A k \in DOMAIN lines : lines[k].mid \in Nat
  <2>1. lines \in Seq(Line)
    BY DEF GoodOffer
  <2>2. DOMAIN lines = 1 .. Len(lines) /\ \A k \in DOMAIN lines : lines[k] \in Line
    BY <2>1, LenProperties, ElementOfSeq
  <2> QED BY <2>2 DEF Line
<1>3. ASSUME NEW i \in DOMAIN us
      PROVE  \/ us[i] = ts[i]
             \/ \E k \in DOMAIN lines : lines[k].codec # "app" /\ IsBound(us[i], ts[i], lines[k])
  <2>1. i \in DOMAIN ts
    BY DEF BoundUpTo
  <2>2. CASE us[i] = ts[i]
    BY <2>2
  <2>3. CASE \E j \in 1 .. Len(lines) : lines[j].codec # "app" /\ us[i] = BoundBy(ts[i], lines[j])
    <3>1. PICK k \in DOMAIN lines : lines[k].codec # "app" /\ us[i] = BoundBy(ts[i], lines[k])
      BY <1>2, <2>3
    <3>2. IsBound(us[i], ts[i], lines[k])
      BY <1>1, <1>2, <2>1, <3>1, BoundKeeps
    <3> QED BY <3>1, <3>2
  <2> QED BY <2>1, <2>2, <2>3 DEF BoundUpTo
<1>4. DOMAIN us = DOMAIN ts
  BY DEF BoundUpTo
<1>5. BoundTo(us, lines)
  <2> SUFFICES ASSUME NEW i \in DOMAIN us, us[i].mid # NoMid
               PROVE  \E k \in DOMAIN lines :
                        /\ lines[k].mid = us[i].mid /\ lines[k].codec # "app"
                        /\ us[i].dir \subseteq reverse_direction(lines[k].dir)
                        /\ us[i].codec # lines[k].codec => us[i].dir = {}
    BY DEF BoundTo
  <2>1. PICK k \in DOMAIN lines : lines[k].codec # "app" /\ IsBound(us[i], ts[i], lines[k])
    BY <1>3, <1>4
  <2>2. us[i].mid = lines[k].mid /\ us[i].codec = ts[i].codec
        /\ us[i].dir = IF ts[i].codec = lines[k].codec THEN ts[i].dir \cap reverse_direction(lines[k].dir)
                       ELSE {}
    BY <2>1 DEF IsBound
  <2> QED BY <2>1, <2>2
<1>6. Unstopped(us)
  BY <1>3, <1>4 DEF Unstopped, IsBound
<1> QED BY <1>5, <1>6

\* create_answer gives a line the direction its transceiver was left with.
LEMMA AnswerMirrors ==
    ASSUME NEW p \in Peers, TrsType(trs[p]), Unstopped(trs[p]), NEW offer, GoodOffer(offer), Bundled(offer),
           BoundTo(trs[p], offer)
    PROVE  Mirrors([k \in DOMAIN offer |-> AnswerLine(p, offer[k])], trs[p])
<1> DEFINE answer == [k \in DOMAIN offer |-> AnswerLine(p, offer[k])]
           ts == trs[p]
<1>1. /\ \A k \in DOMAIN offer : offer[k] \in Line
      /\ \A j, k \in DOMAIN offer : offer[j].mid = offer[k].mid => j = k
  BY LenProperties, ElementOfSeq DEF GoodOffer
<1>2. ASSUME NEW k \in DOMAIN offer, AnswerLine(p, offer[k]).codec # "app"
      PROVE  LET r == AnswerLine(p, offer[k]) IN
             \/ r.dir = {} /\ \A i \in DOMAIN ts : ts[i].mid # r.mid
             \/ \E i \in DOMAIN ts : ts[i].mid = r.mid /\ r.dir = ts[i].dir
  <2> DEFINE rm == offer[k]
             i == MidAt(ts, rm.mid)
             r == AnswerLine(p, rm)
  <2>1. rm \in Line
    BY <1>1
  <2>2. r.mid = rm.mid /\ r.codec = rm.codec
    <3>1. IF rm.codec = "app" THEN rm.live /\ rm.dir = {"send", "recv"} ELSE rm.live \/ rm.dir = {}
      BY DEF GoodOffer, Bundled
    <3> HIDE DEF rm
    <3> QED BY <2>1, <3>1, AnswerLineFits
  <2>3. rm.codec # "app" /\ rm.mid # NoMid
    BY <1>2, <2>1, <2>2 DEF Line, NoMid
  <2>4. /\ i = 0 <=> \A j \in DOMAIN ts : ts[j].mid # rm.mid
        /\ i # 0 => i \in DOMAIN ts /\ ts[i].mid = rm.mid
    BY FoundByMid
  <2>5. r = IF i # 0 THEN to_answer_sdp_media(ts[i], rm) ELSE [rm EXCEPT !.live = FALSE, !.dir = {}]
    BY <2>3 DEF AnswerLine
  <2> HIDE DEF rm, i, r
  <2>6. CASE i = 0
    <3>1. r.dir = {}
      BY <2>1, <2>5, <2>6 DEF Line
    <3> QED BY <2>2, <2>4, <2>6, <3>1 DEF r, rm
  <2>7. CASE i # 0
    <3>1. i \in DOMAIN ts /\ ts[i].mid = rm.mid /\ ~ts[i].stopped
      BY <2>4, <2>7 DEF Unstopped
    <3>2. r.dir = ts[i].dir \cap reverse_direction(rm.dir)
      BY <2>1, <2>5, <2>7, <3>1 DEF to_answer_sdp_media, negotiate_direction, Line
    <3>3. ts[i].dir \subseteq reverse_direction(rm.dir)
      <4>1. PICK h \in DOMAIN offer : offer[h].mid = ts[i].mid /\ ts[i].dir \subseteq reverse_direction(offer[h].dir)
        BY <2>3, <3>1 DEF BoundTo
      <4>2. h = k
        BY <1>1, <3>1, <4>1 DEF rm
      <4> QED BY <4>1, <4>2 DEF rm
    <3>4. r.dir = ts[i].dir
      BY <3>2, <3>3
    <3> QED BY <2>2, <3>1, <3>4 DEF r, rm
  <2> QED BY <2>6, <2>7
<1>3. DOMAIN answer = DOMAIN offer /\ \A k \in DOMAIN offer : answer[k] = AnswerLine(p, offer[k])
  OBVIOUS
<1> HIDE DEF answer
<1>4. Mirrors(answer, ts)
  BY <1>2, <1>3 DEF Mirrors
<1> QED BY <1>4 DEF answer

\* The two peers, before a step.
Two(p, q) ==
    NegotiationInv /\ p \in Peers /\ q \in Peers /\ p # q /\ AgreeInv(p, q) /\ AgreeInv(q, p)

\* What NegotiationInv and agreement say of a peer in each state.
LEMMA TwoFacts ==
    ASSUME NEW p, NEW q, Two(p, q)
    PROVE  /\ p \in Peers /\ q \in Peers /\ p # q /\ Tables /\ PeerInv(p) /\ PeerInv(q)
           /\ TrsType(trs[p]) /\ TrsType(trs[q]) /\ UniqueMids(trs[q])
           /\ signaling[p] = "stable" => Preparing(p) /\ StableInv(p)
           /\ signaling[p] = "have_local_offer" => Offering(p) /\ OffererInv(p)
           /\ signaling[p] = "have_remote_offer" => Answering(p, q) /\ AnswererInv(p)
           /\ local[q].type = "offer" => OffererInv(q) /\ (signaling[p] = "stable" => Offering(q))
           /\ local[q].type = "answer" =>
                 AnsweredInv(q) /\ (signaling[p] = "have_local_offer" => Answered(q, p))
           /\ signaling[p] \in {"stable", "have_local_offer"} => ~Done(q, p)
           /\ signaling[p] \in {"stable", "have_remote_offer"} => ~Answering(q, p) /\ ~Answered(q, p)
           /\ signaling[p] = "have_remote_offer" => ~Done(q, p)
<1>1. NegotiationInv /\ p \in Peers /\ q \in Peers /\ p # q /\ AgreeInv(p, q) /\ AgreeInv(q, p)
  BY DEF Two
<1>2. Tables /\ PeerInv(p) /\ PeerInv(q) /\ TrsType(trs[p]) /\ TrsType(trs[q]) /\ UniqueMids(trs[q])
  BY <1>1 DEF NegotiationInv, PeerInv
<1>3. /\ signaling[p] = "stable" => Preparing(p) /\ StableInv(p)
      /\ signaling[p] = "have_local_offer" => Offering(p) /\ OffererInv(p)
      /\ signaling[p] = "have_remote_offer" => Answering(p, q) /\ AnswererInv(p)
  BY <1>1, <1>2 DEF AgreeInv, Preparing, Offering, Answering, Answered, Done, PeerInv
<1>4. /\ signaling[p] \in {"stable", "have_local_offer"} => ~Done(q, p)
      /\ signaling[p] \in {"stable", "have_remote_offer"} => ~Answering(q, p) /\ ~Answered(q, p)
      /\ signaling[p] = "have_remote_offer" => ~Done(q, p)
  BY DEF Done, Answering, Answered
<1>5. /\ StableInv(q) => local[q].type = "none"
      /\ AnswererInv(q) => local[q].type = "none"
      /\ OffererInv(q) => local[q].type = "offer"
      /\ AnsweredInv(q) => local[q].type = "answer"
  BY DEF StableInv, AnswererInv, OffererInv, AnsweredInv, NoSdp
<1>6. local[q].type = "offer" => OffererInv(q) /\ signaling[q] \in {"have_local_offer", "have_remote_pranswer"}
  BY <1>2, <1>5 DEF PeerInv
<1>7. local[q].type = "answer" => AnsweredInv(q) /\ signaling[q] = "have_local_pranswer"
  BY <1>2, <1>5 DEF PeerInv
<1>8. /\ signaling[q] \in {"have_local_offer", "have_remote_pranswer"} /\ signaling[p] = "stable" => Offering(q)
      /\ signaling[q] = "have_local_pranswer" => Answered(q, p)
  BY <1>1 DEF AgreeInv, Preparing, Offering, Answering, Answered, Done
<1> QED BY <1>1, <1>2, <1>3, <1>4, <1>6, <1>7, <1>8

\* add_transceiver.
LEMMA AddAgrees ==
    ASSUME NEW p, NEW q, Two(p, q), NEW codec \in Codecs, NEW dir \in Directions,
           NEW track \in BOOLEAN, add_transceiver(p, codec, dir, track)
    PROVE  AgreeInv(p, q)' /\ AgreeInv(q, p)'
<1> DEFINE t == [codec |-> codec, mid |-> NoMid, mline |-> NoLine, dir |-> dir,
                 stopped |-> FALSE, track |-> track]
           ts == trs[p]
           us == Append(ts, t)
<1>1. /\ p \in Peers /\ q \in Peers /\ p # q /\ Tables /\ TrsType(ts)
      /\ AgreeInv(p, q) /\ AgreeInv(q, p) /\ NegotiationInv
      /\ signaling[p] = "stable" => Preparing(p)
  BY TwoFacts DEF Two
<1>2. trs' = [trs EXCEPT ![p] = us] /\ UNCHANGED <<needSctp, edits, midCounter, signaling, local, remote, drafts>>
  BY DEF add_transceiver
<1>3. IsTr(t) /\ t.mid = NoMid /\ t.mline = NoLine /\ ~t.stopped
  BY DEF IsTr, Transceiver
<1> HIDE DEF t
<1>4. /\ DOMAIN us = DOMAIN ts \cup {Len(ts) + 1} /\ \A i \in DOMAIN ts : us[i] = ts[i]
      /\ us[Len(ts) + 1] = t
  BY <1>1, <1>3, MidsAdded
<1>5. Grown(ts, us)
  BY <1>3, <1>4 DEF Grown
<1>6. signaling[p] = "stable" => Numbered(us, needSctp[p], drafts[p])
  BY <1>1, <1>3, NumberedAdded DEF Preparing
<1> HIDE DEF us
<1>7. trs'[p] = us /\ Untouched(p, q)
  BY <1>1, <1>2 DEF Tables, Untouched, Same
<1>8. AgreeInv(q, p)'
  BY <1>1, <1>2, <1>5, <1>7, BystanderKeeps
<1>9. CASE signaling[p] = "stable"
  <2>1. Preparing(p)'
    BY <1>1, <1>2, <1>5, <1>6, <1>7, <1>9, GrownKeeps DEF Preparing
  <2> QED BY <1>8, <2>1 DEF AgreeInv
<1>10. CASE signaling[p] # "stable"
  BY <1>1, <1>2, <1>5, <1>7, <1>8, <1>10, ActorKeeps
<1> QED BY <1>9, <1>10

\* Every other call of the application, as long as it changes no transceiver
\* it has: create_data_channel.
LEMMA AppAgrees ==
    ASSUME NEW p, NEW q, Two(p, q), AppNext(p), edits' = 0
    PROVE  AgreeInv(p, q)' /\ AgreeInv(q, p)'
<1>1. /\ p \in Peers /\ q \in Peers /\ p # q /\ Tables /\ TrsType(trs[p])
      /\ AgreeInv(p, q) /\ AgreeInv(q, p) /\ NegotiationInv
      /\ signaling[p] = "stable" => Preparing(p)
  BY TwoFacts DEF Two
<1>2. ASSUME NEW i, NEW t, Edit(p, i, t) PROVE FALSE
  <2>1. edits \in Nat /\ edits' = edits + 1
    BY <1>1, <1>2 DEF Edit, Tables
  <2> QED BY <2>1
<1>3. ASSUME NEW codec \in Codecs, NEW dir \in Wanted, add_transceiver(p, codec, dir, FALSE)
      PROVE  AgreeInv(p, q)' /\ AgreeInv(q, p)'
  <2>1. dir \in Directions
    BY NegotiationAssumption DEF Directions
  <2> QED BY <1>3, <2>1, AddAgrees
<1>4. ASSUME NEW codec \in Codecs, add_track(p, codec) PROVE AgreeInv(p, q)' /\ AgreeInv(q, p)'
  <2>1. add_transceiver(p, codec, {"send", "recv"}, TRUE)
    BY <1>2, <1>4 DEF add_track
  <2>2. {"send", "recv"} \in Directions
    BY DEF Directions
  <2> QED BY <2>1, <2>2, AddAgrees
<1>5. ASSUME create_data_channel(p) PROVE AgreeInv(p, q)' /\ AgreeInv(q, p)'
  <2>1. /\ needSctp' = [needSctp EXCEPT ![p] = TRUE]
        /\ UNCHANGED <<trs, edits, midCounter, signaling, local, remote, drafts>>
    BY <1>5 DEF create_data_channel
  <2>2. needSctp'[p] = TRUE /\ Untouched(p, q)
    BY <1>1, <2>1 DEF Tables, Untouched, Same
  <2>3. Grown(trs[p], trs'[p])
    BY <2>1 DEF Grown
  <2>4. AgreeInv(q, p)'
    BY <1>1, <2>1, <2>2, <2>3, BystanderKeeps
  <2>5. CASE signaling[p] = "stable"
    <3>1. Numbered(trs[p], TRUE, drafts[p])
      BY <1>1, <2>5 DEF Preparing, Numbered
    <3>2. Preparing(p)'
      BY <1>1, <2>1, <2>2, <2>5, <3>1 DEF Preparing
    <3> QED BY <2>4, <3>2 DEF AgreeInv
  <2>6. CASE signaling[p] # "stable"
    BY <1>1, <2>1, <2>2, <2>3, <2>4, <2>6, ActorKeeps
  <2> QED BY <2>5, <2>6
<1>6. ASSUME NEW i \in DOMAIN trs[p], stop(p, i) \/ \E dir \in Wanted : set_direction(p, i, dir)
      PROVE  FALSE
  BY <1>2, <1>6 DEF stop, set_direction
<1> QED BY <1>3, <1>4, <1>5, <1>6 DEF AppNext

\* create_answer.
LEMMA AnswerAgrees ==
    ASSUME NEW p, NEW q, Two(p, q), create_answer(p) PROVE AgreeInv(p, q)' /\ AgreeInv(q, p)'
<1> DEFINE lines == [k \in DOMAIN remote[p].lines |-> AnswerLine(p, remote[p].lines[k])]
           d == [type |-> "answer", lines |-> lines]
<1>1. /\ p \in Peers /\ q \in Peers /\ p # q /\ Tables /\ TrsType(trs[p])
      /\ AgreeInv(p, q) /\ AgreeInv(q, p) /\ NegotiationInv
  BY TwoFacts DEF Two
<1>2. /\ signaling[p] = "have_remote_offer" /\ drafts' = [drafts EXCEPT ![p] = @ \cup {d}]
      /\ UNCHANGED <<trs, needSctp, edits, midCounter, signaling, local, remote>>
  BY <1>1, AnswerIs DEF appVars
<1>3. Answering(p, q) /\ AnswererInv(p)
  BY <1>2, TwoFacts
<1>4. Mirrors(lines, trs[p])
  BY <1>1, <1>3, AnswerMirrors DEF Answering, AnswererInv
<1>5. d.lines = lines
  OBVIOUS
<1> HIDE DEF d, lines
<1>6. drafts'[p] = drafts[p] \cup {d} /\ \A x \in Peers \ {p} : drafts'[x] = drafts[x]
  BY <1>1, <1>2, DraftAdded
<1>7. Untouched(p, q) /\ Grown(trs[p], trs'[p])
  BY <1>1, <1>2, <1>6 DEF Untouched, Same, Grown
<1>8. \A x \in drafts'[p] : x \in drafts[p] \/ Mirrors(x.lines, trs'[p])
  BY <1>2, <1>4, <1>5, <1>6
<1> QED BY <1>1, <1>2, <1>7, <1>8, BystanderKeeps, ActorKeeps

\* create_offer.
LEMMA OfferAgrees ==
    ASSUME NEW p, NEW q, Two(p, q), create_offer(p) PROVE AgreeInv(p, q)' /\ AgreeInv(q, p)'
<1>1. /\ p \in Peers /\ q \in Peers /\ p # q /\ Tables /\ TrsType(trs[p])
      /\ AgreeInv(p, q) /\ AgreeInv(q, p) /\ NegotiationInv
      /\ signaling[p] = "stable" => Preparing(p) /\ StableInv(p)
  BY TwoFacts DEF Two
<1>2. CASE signaling[p] = "stable"
  <2>1. PICK lines, us :
              /\ FirstLines(p, lines) /\ PlacedIn(p, us)
              /\ drafts' = [drafts EXCEPT ![p] = @ \cup {[type |-> "offer", lines |-> lines]}]
              /\ trs' = [trs EXCEPT ![p] = us]
              /\ \E m \in Nat : midCounter' = [midCounter EXCEPT ![p] = m]
              /\ UNCHANGED <<needSctp, edits, signaling, local, remote>>
    BY <1>1, <1>2, FirstOffer DEF StableInv, Tables
  <2> DEFINE d == [type |-> "offer", lines |-> lines]
  <2>2. Numbered(us, needSctp[p], drafts[p] \cup {d}) /\ Unstopped(us) /\ Grown(trs[p], us)
    BY <1>1, <1>2, <2>1, NumberedAnew DEF StableInv, Tables, Preparing
  <2>3. drafts' = [drafts EXCEPT ![p] = @ \cup {d}]
    BY <2>1
  <2> HIDE DEF d
  <2>4. drafts'[p] = drafts[p] \cup {d} /\ \A x \in Peers \ {p} : drafts'[x] = drafts[x]
    BY <1>1, <2>3, DraftAdded
  <2>5. trs'[p] = us /\ Untouched(p, q)
    BY <1>1, <2>1, <2>4 DEF Tables, Untouched, Same
  <2>6. AgreeInv(q, p)'
    BY <1>1, <2>1, <2>2, <2>5, BystanderKeeps
  <2>7. Preparing(p)'
    BY <1>2, <2>1, <2>2, <2>4, <2>5 DEF Preparing
  <2> QED BY <2>6, <2>7 DEF AgreeInv
<1>3. CASE signaling[p] # "stable"
  <2>1. PICK us, d, m : Renumbered(p, us, d, m)
    BY <1>1, OfferedAgain
  <2>2. /\ DOMAIN us = DOMAIN trs[p]
        /\ \A t \in DOMAIN us : us[t] = trs[p][t] \/ \E l : us[t] = [trs[p][t] EXCEPT !.mline = l]
        /\ d.type = "offer" /\ drafts' = [drafts EXCEPT ![p] = @ \cup {d}]
        /\ trs' = [trs EXCEPT ![p] = us] /\ midCounter' = [midCounter EXCEPT ![p] = m]
        /\ UNCHANGED <<needSctp, edits, signaling, local, remote>>
    BY <2>1 DEF Renumbered
  <2>3. drafts'[p] = drafts[p] \cup {d} /\ \A x \in Peers \ {p} : drafts'[x] = drafts[x]
    BY <1>1, <2>2, DraftAdded
  <2>4. trs'[p] = us /\ Untouched(p, q)
    BY <1>1, <2>2, <2>3 DEF Tables, Untouched, Same
  <2>5. Grown(trs[p], us)
    <3>1. ASSUME NEW t \in DOMAIN us
          PROVE  /\ us[t].mid = trs[p][t].mid /\ us[t].codec = trs[p][t].codec
                 /\ us[t].dir = trs[p][t].dir /\ us[t].stopped = trs[p][t].stopped
      <4> DEFINE r == trs[p][t]
      <4>1. IsTr(r) /\ (us[t] = r \/ \E l : us[t] = [r EXCEPT !.mline = l])
        BY <1>1, <2>2, TrsFacts
      <4> HIDE DEF r
      <4>2. us[t].mid = r.mid /\ us[t].codec = r.codec /\ us[t].dir = r.dir /\ us[t].stopped = r.stopped
        BY <4>1 DEF IsTr, Transceiver
      <4> QED BY <4>2 DEF r
    <3> QED BY <2>2, <3>1 DEF Grown
  <2>6. AgreeInv(q, p)'
    BY <1>1, <2>2, <2>4, <2>5, BystanderKeeps
  <2>7. \A x \in drafts'[p] : x \in drafts[p] \/ x.type = "offer"
    BY <2>2, <2>3
  <2>8. AgreeInv(p, q)'
    BY <1>1, <1>3, <2>2, <2>4, <2>5, <2>7, ActorKeeps
  <2> QED BY <2>6, <2>8
<1> QED BY <1>2, <1>3

\* A call that gives q no clause about p leaves q alone.
LEMMA OtherKeeps ==
    ASSUME NEW p, NEW q, AgreeInv(q, p), Untouched(p, q),
           ~Answering(q, p), ~Answered(q, p), ~Done(q, p)
    PROVE  AgreeInv(q, p)'
<1>1. Same(q) /\ needSctp'[q] = needSctp[q]
  BY DEF Untouched
<1>2. CASE Preparing(q)
  <2>1. Preparing(q)'
    BY <1>1, <1>2 DEF Preparing, Same
  <2> QED BY <2>1 DEF AgreeInv
<1>3. CASE Offering(q)
  <2>1. Offering(q)'
    BY <1>1, <1>3 DEF Offering, Same
  <2> QED BY <2>1 DEF AgreeInv
<1> QED BY <1>2, <1>3 DEF AgreeInv

\* set_local_description.
LEMMA LocalAgrees ==
    ASSUME NEW p, NEW q, Two(p, q), NEW d, set_local_description(p, d)
    PROVE  AgreeInv(p, q)' /\ AgreeInv(q, p)'
<1>1. /\ p \in Peers /\ q \in Peers /\ p # q /\ Tables /\ TrsType(trs[p])
      /\ AgreeInv(p, q) /\ AgreeInv(q, p) /\ NegotiationInv
      /\ signaling[p] = "stable" => Preparing(p) /\ StableInv(p)
      /\ signaling[p] = "have_remote_offer" => Answering(p, q)
  BY TwoFacts DEF Two
<1>2. /\ d \in drafts[p] /\ local' = [local EXCEPT ![p] = d]
      /\ UNCHANGED <<needSctp, edits, midCounter, remote, drafts>>
  BY DEF set_local_description
<1>3. CASE /\ d.type = "offer" /\ signaling[p] = "stable"
           /\ \A i \in DOMAIN trs[p] : MatchesOffer(trs[p][i], d.lines)
           /\ trs' = [trs EXCEPT ![p] = [i \in DOMAIN @ |-> TakeMid(@[i], d.lines)]]
           /\ signaling' = [signaling EXCEPT ![p] = "have_local_offer"]
  <2> DEFINE us == [i \in DOMAIN trs[p] |-> TakeMid(trs[p][i], d.lines)]
  <2>1. GoodOffer(d.lines) /\ \A i \in DOMAIN trs[p] : trs[p][i].mid = NoMid
    BY <1>1, <1>2, <1>3 DEF StableInv
  <2>2. OfferedBy(d.lines, us) /\ Unstopped(us)
    BY <1>1, <1>2, <1>3, <2>1, LatestIsSet DEF Preparing
  <2>3. trs' = [trs EXCEPT ![p] = us]
    BY <1>3
  <2> HIDE DEF us
  <2>4. trs'[p] = us /\ local'[p] = d /\ signaling'[p] = "have_local_offer" /\ Untouched(p, q)
    BY <1>1, <1>2, <1>3, <2>3 DEF Tables, Untouched, Same
  <2>5. Offering(p)'
    BY <2>2, <2>4 DEF Offering
  <2>6. AgreeInv(q, p)'
    BY <1>1, <1>3, <2>4, TwoFacts, OtherKeeps
  <2> QED BY <2>5, <2>6 DEF AgreeInv
<1>4. CASE /\ d.type = "answer" /\ signaling[p] = "have_remote_offer"
           /\ signaling' = [signaling EXCEPT ![p] = "have_local_pranswer"]
           /\ UNCHANGED trs
  <2>1. local'[p] = d /\ signaling'[p] = "have_local_pranswer" /\ Untouched(p, q)
    BY <1>1, <1>2, <1>4 DEF Tables, Untouched, Same
  <2>2. Answering(p, q) /\ Mirrors(d.lines, trs[p])
    BY <1>1, <1>2, <1>4 DEF Answering
  <2>3. Answered(p, q)'
    BY <1>2, <1>4, <2>1, <2>2 DEF Answering, Answered, Untouched, Same
  <2>4. AgreeInv(q, p)'
    BY <1>1, <1>4, <2>1, TwoFacts, OtherKeeps
  <2> QED BY <2>3, <2>4 DEF AgreeInv
<1> QED BY <1>3, <1>4 DEF set_local_description

\* set_remote_description.
LEMMA RemoteAgrees ==
    ASSUME NEW p, NEW q, Two(p, q), set_remote_description(p)
    PROVE  AgreeInv(p, q)' /\ AgreeInv(q, p)'
<1> DEFINE d == local[q]
           ts == trs[p]
<1>1. /\ p \in Peers /\ q \in Peers /\ p # q /\ Tables /\ TrsType(ts) /\ TrsType(trs[q]) /\ UniqueMids(trs[q])
      /\ AgreeInv(p, q) /\ AgreeInv(q, p) /\ NegotiationInv
      /\ signaling[p] = "stable" => Preparing(p) /\ StableInv(p)
      /\ signaling[p] = "have_local_offer" => Offering(p) /\ OffererInv(p)
      /\ d.type = "offer" => OffererInv(q) /\ (signaling[p] = "stable" => Offering(q))
      /\ d.type = "answer" => AnsweredInv(q) /\ (signaling[p] = "have_local_offer" => Answered(q, p))
  BY TwoFacts DEF Two
<1>2. Other(p) = q
  BY <1>1, Others
<1>3. remote' = [remote EXCEPT ![p] = d] /\ UNCHANGED <<needSctp, edits, midCounter, local, drafts>>
  BY <1>2 DEF set_remote_description
<1>4. CASE /\ d.type = "offer" /\ signaling[p] = "stable" /\ Bundled(d.lines)
           /\ trs' = [trs EXCEPT ![p] = BindAll(@, d.lines)]
           /\ signaling' = [signaling EXCEPT ![p] = "have_remote_offer"]
  <2> DEFINE us == BindAll(ts, d.lines)
  <2>1. Preparing(p) /\ StableInv(p) /\ Offering(q) /\ GoodOffer(d.lines)
    BY <1>1, <1>4 DEF OffererInv
  <2>2. BoundUpTo(ts, us, d.lines, Len(d.lines))
    BY <1>1, <2>1, AllBound DEF StableInv
  <2>3. trs' = [trs EXCEPT ![p] = us]
    BY <1>4
  <2> HIDE DEF us
  <2>4. BoundTo(us, d.lines) /\ Unstopped(us)
    BY <1>1, <2>1, <2>2, BoundWithin DEF StableInv, Preparing
  <2>5. /\ trs'[p] = us /\ remote'[p] = d /\ signaling'[p] = "have_remote_offer" /\ Untouched(p, q)
        /\ drafts'[p] = drafts[p]
    BY <1>1, <1>3, <1>4, <2>3 DEF Tables, Untouched, Same
  <2>6. Answering(p, q)'
    BY <2>1, <2>4, <2>5 DEF StableInv, Offering, Answering, Untouched, Same
  <2>7. AgreeInv(q, p)'
    BY <1>1, <1>4, <2>5, TwoFacts, OtherKeeps
  <2> QED BY <2>6, <2>7 DEF AgreeInv
<1>5. CASE /\ d.type = "answer" /\ signaling[p] = "have_local_offer"
           /\ trs' = [trs EXCEPT ![p] = [i \in DOMAIN @ |-> ApplyAnswer(@[i], d.lines)]]
           /\ signaling' = [signaling EXCEPT ![p] = "have_remote_pranswer"]
  <2> DEFINE us == [i \in DOMAIN ts |-> ApplyAnswer(ts[i], d.lines)]
  <2>1. Offering(p) /\ OffererInv(p) /\ AnsweredInv(q) /\ Answered(q, p)
    BY <1>1, <1>5
  <2>2. Answers(d.lines, local[p].lines) /\ GoodOffer(local[p].lines)
    BY <2>1 DEF AnsweredInv, Answered, OffererInv
  <2>3. \A i \in DOMAIN ts : Applied(us[i], ts[i], d.lines)
    <3>1. Len(d.lines) \in Nat
      BY <2>2, LenProperties DEF Answers
    <3> QED BY <1>1, <3>1, TrsFacts, AnswerApplied
  <2>4. DOMAIN us = DOMAIN ts /\ trs' = [trs EXCEPT ![p] = us]
    BY <1>5
  <2> HIDE DEF us
  <2>5. Agreed(us, trs[q])
    <3>1. /\ OfferedBy(local[p].lines, ts) /\ BoundTo(trs[q], local[p].lines)
          /\ Mirrors(d.lines, trs[q]) /\ Unstopped(ts) /\ Unstopped(trs[q])
      BY <2>1 DEF Offering, Answered
    <3> QED BY <1>1, <2>2, <2>3, <2>4, <3>1, AgreedAtLast
  <2>6. /\ trs'[p] = us /\ signaling'[p] = "have_remote_pranswer" /\ Untouched(p, q)
        /\ local'[p] = local[p]
    BY <1>1, <1>3, <1>5, <2>4 DEF Tables, Untouched, Same
  <2>7. Done(p, q)'
    BY <2>1, <2>5, <2>6 DEF Done, Answered, Untouched, Same
  <2>8. Answered(q, p)'
    BY <2>1, <2>6 DEF Answered, Untouched, Same
  <2> QED BY <2>7, <2>8 DEF AgreeInv
<1> QED BY <1>2, <1>4, <1>5 DEF set_remote_description

\* Every call.
LEMMA AgreementStep == ASSUME AgreementInv, [Next]_vars PROVE AgreementInv'
<1>1. NegotiationInv /\ NegotiationInv' /\ edits \in Nat
  BY NegotiationStep DEF AgreementInv, NegotiationInv, Tables
<1>2. CASE UNCHANGED vars
  BY <1>1, <1>2 DEF vars, appVars, AgreementInv, AgreeInv, Preparing, Offering, Answering, Answered, Done
<1>3. ASSUME edits' = 0, NEW p \in Peers, NEW q \in Peers, p # q,
             \/ AppNext(p) \/ create_offer(p) \/ create_answer(p)
             \/ \E d \in drafts[p] : set_local_description(p, d)
             \/ set_remote_description(p)
      PROVE  AgreeInv(p, q)' /\ AgreeInv(q, p)'
  <2>1. edits = 0
    <3>1. CASE AppNext(p)
      <4>1. edits' = edits \/ edits' = edits + 1
        BY <3>1 DEF AppNext, add_transceiver, add_track, stop, set_direction, Edit, create_data_channel
      <4> QED BY <1>1, <1>3, <4>1
    <3>2. CASE create_offer(p) \/ create_answer(p)
      BY <1>3, <3>2 DEF create_offer, create_answer, appVars
    <3>3. CASE (\E d \in drafts[p] : set_local_description(p, d)) \/ set_remote_description(p)
      BY <1>3, <3>3 DEF set_local_description, set_remote_description
    <3> QED BY <1>3, <3>1, <3>2, <3>3
  <2>2. Two(p, q)
    BY <1>1, <1>3, <2>1 DEF AgreementInv, Two
  <2> QED BY <1>3, <2>2, AppAgrees, OfferAgrees, AnswerAgrees, LocalAgrees, RemoteAgrees
<1>4. ASSUME Next, edits' = 0, NEW x \in Peers, NEW y \in Peers, x # y PROVE AgreeInv(x, y)'
  <2>1. PICK p \in Peers :
             \/ AppNext(p) \/ create_offer(p) \/ create_answer(p)
             \/ \E d \in drafts[p] : set_local_description(p, d)
             \/ set_remote_description(p)
    BY <1>4 DEF Next
  <2>2. Peers = {p, Other(p)} /\ Other(p) # p /\ Other(p) \in Peers
    BY Others
  <2>3. AgreeInv(p, Other(p))' /\ AgreeInv(Other(p), p)'
    BY <1>3, <1>4, <2>1, <2>2
  <2>4. (x = p /\ y = Other(p)) \/ (x = Other(p) /\ y = p)
    BY <1>4, <2>2
  <2> QED BY <2>3, <2>4
<1> QED BY <1>1, <1>2, <1>4 DEF AgreementInv

\* Agreement, as the two sets of transceivers in use say it.
LEMMA AgreedIsSaid == AgreementInv => DirectionsAgree
<1> SUFFICES ASSUME AgreementInv, NEW p \in Peers, signaling[p] = "have_remote_pranswer", edits = 0
             PROVE  { <<t.mid, t.codec, t.dir>> : t \in Negotiated(p) }
                      = { <<t.mid, t.codec, reverse_direction(t.dir)>> : t \in Negotiated(Other(p)) }
  BY DEF DirectionsAgree
<1> DEFINE q == Other(p)
           ts == trs[p]
           us == trs[q]
<1>1. q \in Peers /\ q # p
  BY Others
<1>2. Done(p, q)
  <2>1. AgreeInv(p, q)
    BY <1>1 DEF AgreementInv
  <2> QED BY <2>1 DEF AgreeInv, Preparing, Offering, Answering, Answered
<1>3. Agreed(ts, us)
  BY <1>2 DEF Done
<1>4. \A j \in DOMAIN us : reverse_direction(reverse_direction(us[j].dir)) = us[j].dir
  <2>1. \A j \in DOMAIN us : IsTr(us[j])
    BY <1>1, TrsFacts DEF AgreementInv, NegotiationInv, PeerInv
  <2>2. \A j \in DOMAIN us : us[j].dir \in Directions
    BY <2>1 DEF IsTr, Transceiver
  <2> QED BY <2>2, Reversed
<1>5. \A i \in DOMAIN ts : reverse_direction(reverse_direction(ts[i].dir)) = ts[i].dir
  <2>1. \A i \in DOMAIN ts : IsTr(ts[i])
    BY TrsFacts DEF AgreementInv, NegotiationInv, PeerInv
  <2>2. \A i \in DOMAIN ts : ts[i].dir \in Directions
    BY <2>1 DEF IsTr, Transceiver
  <2> QED BY <2>2, Reversed
<1>6. /\ \A t : t \in Negotiated(p) <=> \E i \in DOMAIN ts : t = ts[i] /\ Active(t)
      /\ \A u : u \in Negotiated(q) <=> \E j \in DOMAIN us : u = us[j] /\ Active(u)
  BY DEF Negotiated, ToSet, Active
<1>7. ASSUME NEW t \in Negotiated(p)
      PROVE  \E u \in Negotiated(q) :
                <<t.mid, t.codec, t.dir>> = <<u.mid, u.codec, reverse_direction(u.dir)>>
  <2>1. PICK i \in DOMAIN ts : t = ts[i] /\ Active(t)
    BY <1>6
  <2>2. PICK j \in DOMAIN us : Matches(t, us[j])
    BY <1>3, <2>1 DEF Agreed
  <2>3. /\ us[j] \in Negotiated(q) /\ us[j].mid = t.mid /\ us[j].codec = t.codec
        /\ reverse_direction(us[j].dir) = t.dir
    BY <1>5, <1>6, <2>1, <2>2 DEF Matches
  <2> QED BY <2>3
<1>8. ASSUME NEW u \in Negotiated(q)
      PROVE  \E t \in Negotiated(p) :
                <<t.mid, t.codec, t.dir>> = <<u.mid, u.codec, reverse_direction(u.dir)>>
  <2>1. PICK j \in DOMAIN us : u = us[j] /\ Active(u)
    BY <1>6
  <2>2. PICK i \in DOMAIN ts : Matches(u, ts[i])
    BY <1>3, <2>1 DEF Agreed
  <2>3. /\ ts[i] \in Negotiated(p) /\ ts[i].mid = u.mid /\ ts[i].codec = u.codec
        /\ ts[i].dir = reverse_direction(u.dir)
    BY <1>6, <2>2 DEF Matches
  <2> QED BY <2>3
<1> QED BY <1>7, <1>8

\* Before anything has happened.
LEMMA AgreementStart == ASSUME Init PROVE AgreementInv
<1>1. NegotiationInv
  BY NegotiationStart
<1>2. ASSUME NEW p \in Peers PROVE Preparing(p)
  <2>1. trs[p] = << >> /\ signaling[p] = "stable" /\ drafts[p] = {}
    BY DEF Init
  <2>2. Len(trs[p]) = 0 /\ DOMAIN trs[p] = {} /\ 0 \in 0 .. 1 /\ 0 \in 0 .. Len(trs[p])
    BY <2>1, EmptySeq
  <2>3. Numbered(trs[p], needSctp[p], drafts[p])
    BY <2>1, <2>2 DEF Numbered
  <2> QED BY <2>1, <2>2, <2>3 DEF Preparing, Unstopped
<1> QED BY <1>1, <1>2 DEF AgreementInv, AgreeInv

(***************************************************************************)
(* Theorems.                                                               *)
(***************************************************************************)
\* In every signalling state the descriptions and the transceivers of a peer
\* belong together: create_offer, create_answer and set_*_description.
THEOREM NegotiationAlways == Spec => []NegotiationInv
BY NegotiationStart, NegotiationStep, PTL DEF Spec

\* No two transceivers in use have the same MID, whichever offer is set and
\* whatever was stopped, added or bound in between.
THEOREM MidsAlwaysUnique == Spec => []LiveMidsUnique
<1>1. NegotiationInv => LiveMidsUnique
  BY DEF NegotiationInv, PeerInv, UniqueMids, LiveMidsUnique
<1> QED BY <1>1, NegotiationAlways, PTL

\* create_answer answers the offer set_remote_description accepted, line by
\* line, within what it offers.
THEOREM AnswersAlwaysFit == Spec => []AnswerFitsOffer
<1>1. ASSUME NegotiationInv, NEW p \in Peers, signaling[p] = "have_local_pranswer"
      PROVE  Answers(local[p].lines, remote[p].lines)
  BY <1>1 DEF NegotiationInv, PeerInv, AnsweredInv
<1>2. NegotiationInv => AnswerFitsOffer
  BY <1>1 DEF AnswerFitsOffer, Answers
<1> QED BY <1>2, NegotiationAlways, PTL

\* A transceiver that set_remote_description leaves in use has a live line of
\* its codec in the answer, which allows its directions.
THEOREM AnswersAlwaysObeyed == Spec => AnswerIsObeyed
<1> DEFINE Obeyed(p) ==
             signaling'[p] = "have_remote_pranswer" /\ signaling[p] # signaling'[p] =>
               \A i \in DOMAIN trs'[p] : LET t == trs'[p][i] IN ~t.stopped =>
                  \E k \in DOMAIN remote'[p].lines : LET rm == remote'[p].lines[k] IN
                    /\ rm.mid = t.mid /\ rm.live /\ rm.codec = t.codec
                    /\ t.dir \subseteq reverse_direction(rm.dir)
<1>1. ASSUME NegotiationInv, NEW p \in Peers, NEW x \in Peers, set_remote_description(x) PROVE Obeyed(p)
  <2> SUFFICES ASSUME signaling'[p] = "have_remote_pranswer", signaling[p] # signaling'[p]
               PROVE  \A i \in DOMAIN trs'[p] : ~trs'[p][i].stopped =>
                         \E k \in DOMAIN remote'[p].lines :
                            /\ remote'[p].lines[k].mid = trs'[p][i].mid /\ remote'[p].lines[k].live
                            /\ remote'[p].lines[k].codec = trs'[p][i].codec
                            /\ trs'[p][i].dir \subseteq reverse_direction(remote'[p].lines[k].dir)
    OBVIOUS
  <2> DEFINE q == Other(p)
             d == local[q]
             ts == trs[p]
             us == [i \in DOMAIN ts |-> ApplyAnswer(ts[i], d.lines)]
  <2>1. Tables /\ TrsType(ts) /\ PeerInv(q)
    BY <1>1, Others DEF NegotiationInv, PeerInv
  <2>2. x = p
    BY <1>1, <2>1 DEF set_remote_description, Tables
  <2>3. d.type = "answer" /\ trs'[p] = us /\ remote'[p] = d
    BY <1>1, <2>1, <2>2 DEF set_remote_description, Tables
  <2>4. Answers(d.lines, remote[q].lines)
    BY <2>1, <2>3 DEF PeerInv, StableInv, OffererInv, AnswererInv, AnsweredInv, NoSdp
  <2>5. Len(d.lines) \in Nat /\ DOMAIN d.lines = 1 .. Len(d.lines)
    BY <2>4, LenProperties DEF Answers
  <2>6. \A i \in DOMAIN ts : Applied(us[i], ts[i], d.lines)
    <3>1. \A i \in DOMAIN ts : IsTr(ts[i])
      BY <2>1, TrsFacts
    <3> QED BY <2>5, <3>1, AnswerApplied
  <2>7. DOMAIN us = DOMAIN ts
    OBVIOUS
  <2> HIDE DEF us
  <2>8. ASSUME NEW i \in DOMAIN us, ~us[i].stopped
        PROVE  \E k \in DOMAIN d.lines :
                  /\ d.lines[k].mid = us[i].mid /\ d.lines[k].live /\ d.lines[k].codec = us[i].codec
                  /\ us[i].dir \subseteq reverse_direction(d.lines[k].dir)
    <3>1. PICK k \in 1 .. Len(d.lines) :
             /\ d.lines[k].mid = ts[i].mid /\ d.lines[k].codec = ts[i].codec
             /\ us[i].dir = ts[i].dir \cap reverse_direction(d.lines[k].dir)
      BY <2>6, <2>7, <2>8 DEF Applied
    <3>2. us[i].dir # {} /\ us[i].mid = ts[i].mid /\ us[i].codec = ts[i].codec
      BY <2>6, <2>7, <2>8 DEF Applied
    <3>3. d.lines[k].dir # {}
      BY <3>1, <3>2 DEF reverse_direction
    <3>4. d.lines[k].live
      BY <2>4, <2>5, <3>3 DEF Answers
    <3> QED BY <2>5, <3>1, <3>2, <3>4
  <2> QED BY <2>3, <2>8
<1>2. ASSUME NegotiationInv, NEW p \in Peers, [Next]_vars PROVE Obeyed(p)
  <2> SUFFICES ASSUME signaling'[p] = "have_remote_pranswer", signaling[p] # signaling'[p]
               PROVE  \E x \in Peers : set_remote_description(x)
    BY <1>1, <1>2
  <2>1. Tables
    BY <1>2 DEF NegotiationInv
  <2>2. ~UNCHANGED signaling
    OBVIOUS
  <2>3. ASSUME NEW x \in Peers PROVE ~AppNext(x) /\ ~create_offer(x) /\ ~create_answer(x)
    <3>1. ~AppNext(x)
      BY <2>2 DEF AppNext, add_transceiver, add_track, stop, set_direction, Edit, create_data_channel
    <3>2. ~create_offer(x) /\ ~create_answer(x)
      BY <2>2 DEF create_offer, create_answer
    <3> QED BY <3>1, <3>2
  <2>4. ASSUME NEW x \in Peers, NEW d, set_local_description(x, d) PROVE FALSE
    <3>1. \E s \in {"have_local_offer", "have_local_pranswer"} : signaling' = [signaling EXCEPT ![x] = s]
      BY <2>4 DEF set_local_description
    <3> QED BY <2>1, <3>1 DEF Tables
  <2> QED BY <1>2, <2>2, <2>3, <2>4 DEF Next, vars
<1>3. ASSUME NegotiationInv, [Next]_vars PROVE \A p \in Peers : Obeyed(p)
  BY <1>2, <1>3
<1>4. NegotiationInv /\ [Next]_vars => [\A p \in Peers : Obeyed(p)]_vars
  BY <1>3
<1> HIDE DEF Obeyed
<1>5. Spec => [][\A p \in Peers : Obeyed(p)]_vars
  BY <1>4, NegotiationAlways, PTL DEF Spec
<1> QED BY <1>5 DEF AnswerIsObeyed, Obeyed

\* Whatever was offered, answered and added, an offerer that has applied the
\* answer sends what the other one receives and receives what it sends, unless
\* an application changed a transceiver it had.
THEOREM PeersAlwaysAgree == Spec => []DirectionsAgree
<1>1. Spec => []AgreementInv
  BY AgreementStart, AgreementStep, PTL DEF Spec
<1> QED BY <1>1, AgreedIsSaid, PTL
=============================================================================
