--------------------------- MODULE MCStreamTrack ----------------------------
EXTENDS StreamTrack

\* Packets of two cells.  Streams: 1 program map, 2 video, 3 audio.
NoStamp == [kind |-> "none", value |-> 0]
Pts(v) == [kind |-> "pts", value |-> v]
PtsAndDts(v) == [kind |-> "pts_dts", value |-> v]

Section(table, parts, entries) == [table |-> table, parts |-> parts, entries |-> entries]
Part(sec, k) == [sec |-> sec, part |-> k]
Packet(pid, cc, start, media, units, stamp) ==
    [error |-> FALSE, pid |-> pid, cc |-> cc, start |-> start, payload |-> TRUE, pointer |-> 0,
     header |-> TRUE, media |-> media, units |-> units, stamp |-> stamp]

Pat == Section("pat", 1, <<[number |-> 0, pid |-> 9], [number |-> 1, pid |-> 1]>>)
Pmt == Section("pmt", 2, <<[pid |-> 2, type |-> 27, registration |-> "none"],
                           [pid |-> 3, type |-> 6, registration |-> "opus"]>>)
Stuffing == Section("stuffing", 1, <<>>)
Garbage == [Packet(7, 0, FALSE, FALSE, <<>>, NoStamp) EXCEPT !.error = TRUE]

PatPacket == Packet(0, 0, TRUE, FALSE, <<Part(Pat, 1), Part(Stuffing, 1)>>, NoStamp)
PmtPackets == <<Packet(1, 0, TRUE, FALSE, <<Part(Pmt, 1)>>, NoStamp),
                Packet(1, 1, FALSE, FALSE, <<Part(Pmt, 2)>>, NoStamp)>>
Video(cc, start, unit) == Packet(2, cc, start, TRUE, <<unit>>, Pts(unit))
Audio(cc, unit) == Packet(3, cc, TRUE, TRUE, <<unit>>, Pts(unit))

Cell(sync, pkt) == [sync |-> sync, pkt |-> pkt]
Cells(pkts, payloadSync) ==
    FlattenSeq([i \in DOMAIN pkts |-> <<Cell(TRUE, pkts[i]), Cell(payloadSync, Garbage)>>])

Tables == <<PatPacket>> \o PmtPackets
\* The second video frame has a DTS, the second audio frame a PTS of 33 bits.
Media == <<Video(0, TRUE, 1), Audio(0, 2), Video(1, FALSE, 3), Video(1, FALSE, 3),
           [Audio(1, 4) EXCEPT !.stamp = Pts(12)],
           [Video(2, TRUE, 5) EXCEPT !.stamp = PtsAndDts(5)], Audio(2, 6), Video(3, TRUE, 7)>>
Large == <<Video(0, TRUE, 1), Video(1, FALSE, 2), Video(2, FALSE, 3), Video(3, FALSE, 4),
           Video(4, TRUE, 5), Video(5, TRUE, 6)>>
Lossy == <<Video(0, TRUE, 1), [Video(2, TRUE, 3) EXCEPT !.header = FALSE],
           [Video(3, FALSE, 4) EXCEPT !.payload = FALSE], Video(3, FALSE, 5), Video(4, TRUE, 6)>>

MCInputs == { Cells(Tables \o Media, FALSE),
              <<Cell(FALSE, Garbage)>> \o Cells(Tables \o Large, FALSE),
              Cells(Tables \o Lossy, FALSE),
              <<Cell(TRUE, Garbage)>> \o Cells(<<Audio(0, 0)>> \o Tables \o Media, TRUE) }
=============================================================================
