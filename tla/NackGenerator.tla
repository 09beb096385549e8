--------------------------- MODULE NackGenerator ----------------------------
(***************************************************************************)
(* nack_generator (src/src/nack_generator.{hpp,cpp}): which sequence       *)
(* numbers of one SSRC are still missing and when to ask for them again.   *)
(* Sequence numbers are unsigned and wrap at SeqMod = 2 * Half (2^16 in    *)
(* the code); uint16_t arithmetic is written with a single conditional     *)
(* correction, which is exact for the operands that occur.                 *)
(***************************************************************************)
EXTENDS Integers, FiniteSets

CONSTANTS
    Half,          \* half the sequence number space, 2^15 in the code
    HistorySize,   \* _history_size, 1024 in the code
    MaxRetries,    \* _max_retries
    InitialRtt,    \* rtt_ms of the constructor
    BackoffOffset  \* the constant added to the RTT, 20 ms

SeqMod == 2 * Half

ASSUME NackAssumption ==
    /\ Half \in Nat /\ HistorySize \in Nat /\ MaxRetries \in Nat \ {0}
    /\ InitialRtt \in Nat /\ BackoffOffset \in Nat
    /\ HistorySize > 1 /\ 2 * HistorySize <= Half
    /\ SeqMod % HistorySize = 0

VARIABLES
    initialized,   \* _initialized
    highest,       \* _highest_seq
    lowest,        \* _lowest_seq
    buffer,        \* _buffer, the ring of nack_info
    rtt,           \* _rtt_ms
    nacks          \* nacks_out of the last get_nacks, as a set

nackVars == <<initialized, highest, lowest, buffer, rtt, nacks>>

Seq16 == 0 .. SeqMod - 1
Slots == 0 .. HistorySize - 1
NackInfo == [received : BOOLEAN, nacked : BOOLEAN, retry_count : 0 .. MaxRetries,
             last_nack_time : Nat]
NoInfo == [received |-> FALSE, nacked |-> FALSE, retry_count |-> 0, last_nack_time |-> 0]

TypeOK ==
    /\ initialized \in BOOLEAN
    /\ highest \in Seq16 /\ lowest \in Seq16
    /\ buffer \in [Slots -> NackInfo]
    /\ rtt \in Nat
    /\ nacks \in SUBSET Seq16

Init ==
    /\ initialized = FALSE
    /\ highest = 0 /\ lowest = 0
    /\ buffer = [k \in Slots |-> NoInfo]
    /\ rtt = InitialRtt
    /\ nacks = {}

-----------------------------------------------------------------------------
\* uint16_t subtraction and the signed distance (int16_t)(b - a).
SeqMinus(a, k) == IF a >= k THEN a - k ELSE a - k + SeqMod

seq_distance(a, b) ==
    LET d == b - a IN
    IF d >= Half THEN d - SeqMod ELSE IF d < -Half THEN d + SeqMod ELSE d

get_index(seq) == seq % HistorySize

\* nack_info of the slots strictly between the old and the new highest number.
MutantReset(seq) == buffer

Reset(seq) ==
    LET gap == { get_index((highest + i) % SeqMod) : i \in 1 .. seq_distance(highest, seq) - 1 }
    IN  [k \in Slots |-> IF k \in gap THEN NoInfo ELSE buffer[k]]

MutantMark(buf, seq) == [buf EXCEPT ![get_index(seq)].nacked = TRUE]

MarkReceived(buf, seq) == [buf EXCEPT ![get_index(seq)].received = TRUE]

\* The last statement of receive_packet: the window keeps HistorySize numbers.
MutantSlide(low, high) == low

Slide(low, high) ==
    IF seq_distance(low, high) >= HistorySize THEN SeqMinus(high, HistorySize - 1) ELSE low

receive_packet(seq) ==
    /\ \/ /\ ~initialized
          /\ initialized' = TRUE /\ highest' = seq /\ lowest' = seq
          /\ buffer' = MarkReceived(buffer, seq)
       \/ /\ initialized /\ seq_distance(highest, seq) <= 0
          /\ buffer' = IF seq_distance(highest, seq) > -HistorySize
                       THEN MarkReceived(buffer, seq) ELSE buffer
          /\ UNCHANGED <<initialized, highest, lowest>>
       \/ /\ initialized /\ seq_distance(highest, seq) >= HistorySize
          /\ buffer' = MarkReceived([k \in Slots |-> NoInfo], seq)
          /\ highest' = seq
          /\ lowest' = Slide(SeqMinus(seq, HistorySize - 1), seq)
          /\ UNCHANGED initialized
       \/ /\ initialized /\ seq_distance(highest, seq) \in 1 .. HistorySize - 1
          /\ buffer' = MarkReceived(Reset(seq), seq)
          /\ highest' = seq
          /\ lowest' = Slide(lowest, seq)
          /\ UNCHANGED initialized
    /\ UNCHANGED <<rtt, nacks>>

-----------------------------------------------------------------------------
Span ==
    LET d == seq_distance(lowest, highest)
        s == IF d < 0 THEN d + SeqMod ELSE d
    IN  IF s > HistorySize THEN HistorySize ELSE s

\* The numbers get_nacks looks at, newest first in the code.
Scanned == { SeqMinus(highest, i) : i \in 1 .. Span - 1 }

\* A number asked for MaxRetries times is given up, and marked received so
\* that it is not looked at again.
MutantGivenUp(info) == info.retry_count > MaxRetries

GivenUp(info) == info.retry_count >= MaxRetries

\* Whether a scanned number is asked for at time now.
MutantDue(info, now) == ~info.received /\ ~GivenUp(info)

Due(info, now) ==
    /\ ~info.received /\ ~GivenUp(info)
    /\ ~info.nacked \/ now - info.last_nack_time >= rtt + BackoffOffset

\* What the scan leaves in a slot.
Visit(info, now) ==
    IF Due(info, now)
    THEN [info EXCEPT !.nacked = TRUE, !.retry_count = @ + 1, !.last_nack_time = now]
    ELSE [info EXCEPT !.received = @ \/ GivenUp(info)]

get_nacks(now) ==
    LET scannedSlots == { get_index(s) : s \in Scanned }
    IN  /\ IF initialized
           THEN /\ nacks' = { s \in Scanned : Due(buffer[get_index(s)], now) }
                /\ buffer' = [k \in Slots |-> IF k \in scannedSlots
                                              THEN Visit(buffer[k], now) ELSE buffer[k]]
           ELSE nacks' = {} /\ UNCHANGED buffer
        /\ UNCHANGED <<initialized, highest, lowest, rtt>>

update_rtt(sample) ==
    /\ rtt' = (rtt * 7 + sample) \div 8
    /\ UNCHANGED <<initialized, highest, lowest, buffer, nacks>>

-----------------------------------------------------------------------------
\* The window never holds more than HistorySize numbers, whatever the order,
\* the jumps and the wraps of the numbers received, so that each of them has
\* a slot of its own in the ring.
WindowFitsRing == seq_distance(lowest, highest) \in 0 .. HistorySize - 1
=============================================================================
