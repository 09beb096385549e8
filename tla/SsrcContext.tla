---------------------------- MODULE SsrcContext -----------------------------
(***************************************************************************)
(* ssrc_context: the receive statistics of one SSRC, from which receiver   *)
(* reports are made and key frames requested.  Sequence numbers have       *)
(* SeqMod values (0x10000 in the code).  Jitter, the sender report's time  *)
(* and the nack_generator (NackGenerator) are left out.                    *)
(***************************************************************************)
EXTENDS Integers

CONSTANT SeqMod

ASSUME SeqModAssumption == SeqMod \in Nat /\ SeqMod > 2 /\ SeqMod % 2 = 0

\* Fields of a context after the constructor and after reset_stats.
NewContext ==
    [max_seq |-> 0, cycles |-> 0, base_seq |-> 0, base_seq_set |-> FALSE,
     packets_expected |-> 0, packets_received |-> 0,
     expected_prior |-> 0, received_prior |-> 0,
     consecutive_lost |-> 0, lsr |-> FALSE]

\* The number is not compared across the wrap.
MutantWraps(c, seq) == FALSE

\* A number so far below the highest one belongs to the next cycle.
Wraps(c, seq) == seq < c.max_seq /\ c.max_seq - seq > SeqMod \div 2

track_packet(c, seq) ==
    LET base   == IF c.base_seq_set THEN c.base_seq ELSE seq
        cycles == IF Wraps(c, seq) THEN c.cycles + SeqMod ELSE c.cycles
        top    == IF Wraps(c, seq) \/ seq >= c.max_seq THEN seq ELSE c.max_seq
    IN  [c EXCEPT !.base_seq_set = TRUE, !.base_seq = base, !.cycles = cycles,
                  !.max_seq = top,
                  !.packets_expected = cycles + top - base + 1,
                  !.packets_received = @ + 1]

check_gap(c, prev_expected) == c.base_seq_set /\ c.packets_expected > prev_expected + 1

record_sr(c) == [c EXCEPT !.lsr = TRUE]

extended_max(c) == c.cycles + c.max_seq

ExpectedInterval(c) == c.packets_expected - c.expected_prior
LostInterval(c) == ExpectedInterval(c) - (c.packets_received - c.received_prior)

\* (li << 8) / ei, before it is narrowed to eight bits.
LostFraction(c) ==
    IF ExpectedInterval(c) = 0 \/ LostInterval(c) <= 0 THEN 0
    ELSE (LostInterval(c) * 256) \div ExpectedInterval(c)

fraction_lost(c) == LostFraction(c) % 256

advance_prior(c) ==
    [c EXCEPT !.expected_prior = c.packets_expected, !.received_prior = c.packets_received]
=============================================================================
