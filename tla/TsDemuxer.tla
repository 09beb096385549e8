------------------------------ MODULE TsDemuxer -----------------------------
(***************************************************************************)
(* MPEGTSDemuxer: the MPEG transport stream demultiplexer that an          *)
(* any_stream_track splits its input with.                                 *)
(*                                                                         *)
(* A byte of the input is a cell.  A packet is TS_PACKET_SIZE cells, the   *)
(* first of which is a sync byte and holds what the packet's header and    *)
(* payload say; a sync byte inside a payload holds Garbage.  A payload is  *)
(* a sequence of units: parts of sections for program tables, pieces of    *)
(* the elementary stream for the others.                                   *)
(***************************************************************************)
EXTENDS Integers, Sequences, SequencesExt

CONSTANTS
    TS_PACKET_SIZE, MAX_PROGRAMS, MAX_PES_BUFFER, MAX_FRAME_QUEUE, MAX_PSI_SECTION,
    StampMod    \* time stamps of frames are numbers modulo this (2^32)

ASSUME DemuxAssumption ==
    /\ TS_PACKET_SIZE \in Nat \ {0} /\ MAX_FRAME_QUEUE \in Nat \ {0} /\ StampMod \in Nat \ {0}
    /\ MAX_PROGRAMS \in Nat /\ MAX_PES_BUFFER \in Nat /\ MAX_PSI_SECTION \in Nat

\* A frame without a time stamp has the one a media_frame begins with, 0.
NoFrame == [format |-> "none", pts |-> 0, data |-> <<>>]
NewStream == [format |-> "unknown", pts |-> 0, pes |-> <<>>, cc |-> -1, psi |-> <<>>]

\* buffer is buffer_ from read_offset_ on.
NewDemuxer == [buffer |-> <<>>, programs |-> <<>>, streams |-> <<>>, queue |-> <<>>]

Put(f, pid, st) == (pid :> st) @@ f
Erase(d, pid) == [d EXCEPT !.streams = [p \in DOMAIN @ \ {pid} |-> @[p]]]

\* A full queue loses its oldest frame.
push_frame(q, f) == Append(IF Len(q) >= MAX_FRAME_QUEUE THEN Tail(q) ELSE q, f)

FrameOf(st) == [format |-> st.format, pts |-> st.pts, data |-> st.pes]

flush(d) ==
    LET open == SetToSortSeq({ p \in DOMAIN d.streams : d.streams[p].pes # <<>> }, <)
    IN  [d EXCEPT !.queue = FoldLeft(LAMBDA q, p : push_frame(q, FrameOf(d.streams[p])), @, open),
                  !.streams = [p \in DOMAIN @ |-> [@[p] EXCEPT !.pes = <<>>]]]

-----------------------------------------------------------------------------
\* The input from the next packet on.  A sync byte counts when another one
\* follows a packet later, or nothing does.
find_sync(b) ==
    LET RECURSIVE Find(_)
        Find(c) ==
            LET i == SelectInSeq(c, LAMBDA cell : cell.sync)
                n == Len(c) - i + 1
                from(k) == SubSeq(c, k, Len(c))
            IN  IF Len(c) < TS_PACKET_SIZE THEN [found |-> FALSE, buffer |-> c]
                ELSE IF i = 0 THEN [found |-> FALSE, buffer |-> <<>>]
                ELSE IF n < TS_PACKET_SIZE THEN [found |-> FALSE, buffer |-> from(i)]
                ELSE IF n > TS_PACKET_SIZE /\ ~c[i + TS_PACKET_SIZE].sync
                THEN Find(from(i + TS_PACKET_SIZE + 1))
                ELSE [found |-> TRUE, buffer |-> from(i)]
    IN  Find(b)

-----------------------------------------------------------------------------
\* The entries of an association table with a program number, MAX_PROGRAMS
\* at most.
parse_pat(d, sec) ==
    LET progs == SelectSeq(sec.entries, LAMBDA e : e.number # 0)
    IN  [d EXCEPT !.programs = [i \in 1 .. (IF Len(progs) < MAX_PROGRAMS THEN Len(progs)
                                            ELSE MAX_PROGRAMS) |-> progs[i].pid]]

\* The format of a stream, from its type and, before that, its registration.
FormatOf(e) ==
    IF e.registration # "none" THEN e.registration
    ELSE IF e.type \in {27, 36} THEN "h264" ELSE "unknown"

\* The map table names streams; what is known of one already stays.
parse_pmt(d, sec) ==
    FoldLeft(LAMBDA acc, e :
                 LET st == IF e.pid \in DOMAIN acc.streams THEN acc.streams[e.pid] ELSE NewStream
                 IN  [acc EXCEPT !.streams = Put(@, e.pid, [st EXCEPT !.format = FormatOf(e)])],
             d, sec.entries)

\* A section is acted on when its checksum is right: all its parts and no
\* others.
handle_psi_section(d, parts) ==
    LET sec == parts[1].sec
        whole == \A k \in DOMAIN parts : parts[k] = [sec |-> sec, part |-> k]
    IN  IF ~whole THEN d
        ELSE IF sec.table = "pat" THEN parse_pat(d, sec)
        ELSE IF sec.table = "pmt" THEN parse_pmt(d, sec)
        ELSE d

\* Complete sections at the front; stuffing ends the table.
process_psi_sections(d, pid) ==
    LET RECURSIVE Sections(_)
        Sections(acc) ==
            LET psi == acc.streams[pid].psi
                size == psi[1].sec.parts
            IN  IF psi = <<>> THEN acc
                ELSE IF psi[1].sec.table = "stuffing" THEN Erase(acc, pid)
                ELSE IF Len(psi) < size THEN acc
                ELSE LET h == handle_psi_section(acc, SubSeq(psi, 1, size))
                     IN  Sections([h EXCEPT !.streams[pid].psi = SubSeq(psi, size + 1, Len(psi))])
    IN  Sections(d)

\* A start packet begins anew after `pointer` units, others continue.
parse_psi(d, pkt) ==
    LET known == pkt.pid \in DOMAIN d.streams
        old == IF known THEN d.streams[pkt.pid].psi ELSE <<>>
        new == IF pkt.start THEN SubSeq(pkt.units, pkt.pointer + 1, Len(pkt.units))
               ELSE old \o pkt.units
        st == IF known THEN d.streams[pkt.pid] ELSE NewStream
        fits == (IF pkt.start THEN Len(old) ELSE 0) + Len(new) <= MAX_PSI_SECTION
    IN  IF (IF pkt.start THEN new = <<>> ELSE old = <<>>) \/ ~fits THEN Erase(d, pkt.pid)
        ELSE process_psi_sections(
                 [d EXCEPT !.streams = Put(@, pkt.pid, [st EXCEPT !.psi = new])], pkt.pid)

\* A new header does not hand out the frame before it.
MutantPes(d, pkt) ==
    [d EXCEPT !.streams[pkt.pid].pes =
        IF pkt.start THEN pkt.units ELSE IF @ = <<>> THEN @ ELSE @ \o pkt.units]

\* The PTS of a header.  One that is followed by a DTS begins with the bits
\* 0011, only 0010 is taken; of its 33 bits 32 are kept.
current_pts(stamp) == IF stamp.kind = "pts" THEN stamp.value % StampMod ELSE 0

\* A start packet hands out the frame before it; without a whole header it is
\* ignored.  What follows a frame that outgrew its buffer is dropped.
parse_pes(d, pkt) ==
    LET st == d.streams[pkt.pid]
        within(pes) == IF Len(pes) > MAX_PES_BUFFER THEN <<>> ELSE pes
    IN  IF ~pkt.start
        THEN IF st.pes = <<>> THEN d
             ELSE [d EXCEPT !.streams[pkt.pid].pes = within(st.pes \o pkt.units)]
        ELSE IF ~pkt.header THEN d
        ELSE [d EXCEPT !.queue = IF st.pes = <<>> THEN @ ELSE push_frame(@, FrameOf(st)),
                       !.streams[pkt.pid] = [st EXCEPT !.pts = current_pts(pkt.stamp), !.pes = within(pkt.units)]]

\* A repeated packet of a known stream is dropped; a missing one is not
\* noticed.  A packet without payload only counts.
handle_ts_packet(d, pkt) ==
    LET known == pkt.pid \in DOMAIN d.streams
        e == IF known THEN [d EXCEPT !.streams[pkt.pid].cc = pkt.cc] ELSE d
    IN  IF pkt.error \/ (known /\ d.streams[pkt.pid].cc = pkt.cc) THEN d
        ELSE IF ~pkt.payload THEN e
        ELSE IF pkt.pid = 0 \/ pkt.pid \in ToSet(d.programs) THEN parse_psi(e, pkt)
        ELSE IF known THEN parse_pes(e, pkt)
        ELSE e

process_ts_packets(d) ==
    LET RECURSIVE Packets(_)
        Packets(acc) ==
            LET f == find_sync(acc.buffer)
            IN  IF ~f.found THEN [acc EXCEPT !.buffer = f.buffer]
                ELSE Packets([handle_ts_packet(acc, f.buffer[1].pkt) EXCEPT
                                 !.buffer = SubSeq(f.buffer, TS_PACKET_SIZE + 1, Len(f.buffer))])
    IN  Packets(d)

\* One frame, if there is one, how much of the data was used, and the demuxer.
TakeFrame(d, used) ==
    IF d.queue = <<>> THEN [frame |-> NoFrame, consumed |-> used, demuxer |-> d]
    ELSE [frame |-> Head(d.queue), consumed |-> used, demuxer |-> [d EXCEPT !.queue = Tail(@)]]

\* While frames wait, data is not touched; no data at all means the end.
Parse(d, data) ==
    IF d.queue # <<>> THEN TakeFrame(d, 0)
    ELSE TakeFrame(IF data = <<>> THEN flush(d)
                   ELSE process_ts_packets([d EXCEPT !.buffer = @ \o data]), Len(data))
=============================================================================
