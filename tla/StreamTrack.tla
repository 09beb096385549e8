----------------------------- MODULE StreamTrack ----------------------------
(***************************************************************************)
(* any_stream_track: media read from a pipe by concurrent calls of recv,   *)
(* each an asio operation (AsyncWait), and split into frames by the        *)
(* demultiplexer of TsDemuxer.                                             *)
(*                                                                         *)
(* A step is what runs between two suspension points of read_frame.  The   *)
(* pipe, the mutex and the operations' reaction to a stop request are      *)
(* external: a mutex is handed to its waiters in order, and a read that is *)
(* asked to stop ends as stopped or with an error code.                    *)
(***************************************************************************)
EXTENDS TsDemuxer, AsyncWait, FiniteSets, FiniteSetsExt

CONSTANTS
    Readers,    \* concurrent callers of recv
    Inputs,     \* what the pipe may yield: sequences of cells
    ReadSizes,  \* how much one read may return
    MaxCalls    \* bound on the calls of recv

ASSUME TrackAssumption == MaxCalls \in Nat /\ ReadSizes \subseteq Nat \ {0}

VARIABLES
    input,      \* the whole input
    pos,        \* how much of it the pipe has yielded
    buffer,     \* _buffer
    demuxer,    \* the state behind _split_cb
    q,          \* _q
    state,      \* _state
    mutex,      \* _mtx: who holds it, first, and who waits for it
    event,      \* completion of the holder's read that is still to be run
    op,         \* the operation of each reader
    calls,      \* calls of recv so far
    delivered,  \* frames that recv returned
    raced,      \* calls overlapped, or stop() was called
    overflowed, \* one read completed more frames than the demuxer keeps
    due         \* the frames of a clean input complete before the last split, and the
                \* first one of that split

inputVars == <<input, pos>>
ghostVars == <<raced, overflowed, due>>
trackVars == <<inputVars, buffer, demuxer, q, state, mutex, event, op, calls, delivered, ghostVars>>

Holder(r) == mutex # <<>> /\ Head(mutex) = r

-----------------------------------------------------------------------------
(***************************************************************************)
(* What the input says, packet by packet, without reading it in pieces.    *)
(***************************************************************************)
SyncsAt(c) == { i \in DOMAIN c : c[i].sync }

\* Whole packets one after the other, possibly after junk, each frame's
\* header in the packet it starts in.
Clean(c) ==
    LET f == SelectInSeq(c, LAMBDA cell : cell.sync)
    IN  /\ SyncsAt(c) = { i \in DOMAIN c : i >= f /\ (i - f) % TS_PACKET_SIZE = 0 }
        /\ \A i \in SyncsAt(c) : c[i].pkt.header

\* The whole packets of the first n cells.
WholePackets(c, n) ==
    FlattenSeq([i \in 1 .. n - TS_PACKET_SIZE + 1 |-> IF c[i].sync THEN <<c[i].pkt>> ELSE <<>>])

\* Those that carry media and are no repetition.
NewMedia(pkts) ==
    LET before(k) == { j \in 1 .. k - 1 : pkts[j].pid = pkts[k].pid }
        again(k) == before(k) # {} /\ pkts[Max(before(k))].cc = pkts[k].cc
    IN  FlattenSeq([k \in DOMAIN pkts |-> IF pkts[k].media /\ ~again(k) THEN <<pkts[k]>> ELSE <<>>])

StartsBefore(pkts, k) == { j \in 1 .. k - 1 : pkts[j].pid = pkts[k].pid /\ pkts[j].start }

\* What one stream sends from packet j up to packet k.
FrameFrom(pkts, j, k) ==
    [stamp |-> pkts[j].stamp,
     data  |-> FoldLeft(LAMBDA acc, p : IF p.pid = pkts[k].pid THEN acc \o p.units ELSE acc,
                        <<>>, SubSeq(pkts, j, k - 1))]

Fitting(frame) == IF Len(frame.data) <= MAX_PES_BUFFER THEN <<frame>> ELSE <<>>

\* A frame ends where the next one of its stream starts.
Frames(pkts) ==
    FlattenSeq([k \in DOMAIN pkts |->
        IF pkts[k].start /\ StartsBefore(pkts, k) # {}
        THEN Fitting(FrameFrom(pkts, Max(StartsBefore(pkts, k)), k)) ELSE <<>>])

\* The frames in the first n cells.
Reference(c, n) == Frames(NewMedia(WholePackets(c, n)))

-----------------------------------------------------------------------------
Init ==
    /\ input \in Inputs /\ pos = 0
    /\ buffer = <<>> /\ demuxer = NewDemuxer /\ q = <<>> /\ state = "live"
    /\ mutex = <<>> /\ event = "none"
    /\ op = [r \in Readers |-> NoOp] /\ calls = 0
    /\ delivered = <<>> /\ raced = FALSE /\ overflowed = FALSE /\ due = 0

\* recv, up to its first suspension.  The queue is looked at before the mutex
\* is taken only.
Recv(r) ==
    /\ calls < MaxCalls /\ op[r].pc = "none"
    /\ calls' = calls + 1
    /\ IF state = "ended"
       THEN op' = [op EXCEPT ![r] = set_done(async_wait_impl)]
            /\ UNCHANGED <<q, delivered, mutex, raced>>
       ELSE IF q # <<>>
       THEN /\ op' = [op EXCEPT ![r] = set_done(async_wait_impl)]
            /\ q' = Tail(q) /\ delivered' = Append(delivered, Head(q))
            /\ UNCHANGED <<mutex, raced>>
       ELSE /\ op' = [op EXCEPT ![r] = async_wait_impl]
            /\ mutex' = Append(mutex, r) /\ raced' = (raced \/ mutex # <<>>)
            /\ UNCHANGED <<q, delivered>>
    /\ UNCHANGED <<inputVars, buffer, demuxer, state, event, overflowed, due>>

\* The read that the holder of the mutex started returns data, or the end or
\* an error.
PipeYields(n) ==
    /\ mutex # <<>> /\ event = "none" /\ pos + n <= Len(input)
    /\ event' = "data" /\ pos' = pos + n
    /\ buffer' = buffer \o SubSeq(input, pos + 1, pos + n)
    /\ UNCHANGED <<input, demuxer, q, state, mutex, op, calls, delivered, ghostVars>>

PipeEnds ==
    /\ mutex # <<>> /\ event = "none"
    /\ event' = "end"
    /\ UNCHANGED <<inputVars, buffer, demuxer, q, state, mutex, op, calls, delivered, ghostVars>>

\* The inner loop of read_frame: frames until there are none or the data is
\* used up.
Split(d, data, frames) ==
    LET RECURSIVE After(_, _, _)
        After(p, rest, fs) ==
            LET left == SubSeq(rest, p.consumed + 1, Len(rest))
                got  == IF p.frame = NoFrame THEN fs ELSE Append(fs, p.frame)
            IN  IF p.frame = NoFrame \/ left = <<>>
                THEN [demuxer |-> p.demuxer, buffer |-> left, q |-> got]
                ELSE After(Parse(p.demuxer, left), left, got)
    IN  After(Parse(d, data), data, frames)

\* How much of the input has been split.
Used == pos - Len(buffer)

\* Of now frames a split found before + 1 up to now.
Account(before, now) ==
    /\ overflowed' = (overflowed \/ now - before > MAX_FRAME_QUEUE)
    /\ due' = IF ~Clean(input) THEN 0 ELSE IF now > before THEN before + 1 ELSE before

\* read_frame after its read: more data is read until there is a frame.
ReadCompletes(r) ==
    /\ Holder(r) /\ event # "none" /\ event' = "none"
    /\ \E s \in {Split(demuxer, buffer, q)} :
       LET done == event = "end" \/ s.q # <<>>
       IN  /\ IF event = "end"
              THEN state' = "ended" /\ UNCHANGED <<buffer, demuxer, q, delivered, overflowed, due>>
              ELSE /\ buffer' = s.buffer /\ demuxer' = s.demuxer
                   /\ q' = IF done THEN Tail(s.q) ELSE s.q
                   /\ delivered' = IF done THEN Append(delivered, Head(s.q)) ELSE delivered
                   /\ Account(Len(Reference(input, Used)), Len(Reference(input, pos)))
                   /\ UNCHANGED state
           /\ op' = IF done THEN [op EXCEPT ![r] = set_done(@)] ELSE op
           /\ mutex' = IF done THEN Tail(mutex) ELSE mutex
    /\ UNCHANGED <<inputVars, calls, raced>>

\* A caller that was asked to stop leaves the mutex, or the read it waits for
\* ends; what the read returned before stays in the buffer.
StopTakesEffect(r, error) ==
    /\ op[r].pc = "running" /\ op[r].stop
    /\ op' = [op EXCEPT ![r] = set_done(@)]
    /\ mutex' = SelectSeq(mutex, LAMBDA m : m # r)
    /\ event' = IF Holder(r) THEN "none" ELSE event
    /\ state' = IF Holder(r) /\ error THEN "ended" ELSE state
    /\ UNCHANGED <<inputVars, buffer, demuxer, q, calls, delivered, ghostVars>>

\* The handler runs and its operation is over.
HandlerRuns(r) ==
    /\ op[r].pc = "posted" /\ op' = [op EXCEPT ![r] = NoOp]
    /\ UNCHANGED <<inputVars, buffer, demuxer, q, state, mutex, event, calls, delivered, ghostVars>>

Cancel(r) ==
    /\ op[r].pc = "running" /\ ~op[r].asked
    /\ op' = [op EXCEPT ![r] = emit(@)]
    /\ UNCHANGED <<inputVars, buffer, demuxer, q, state, mutex, event, calls, delivered, ghostVars>>

\* any_stream_track::stop wakes nobody.
Stop ==
    /\ state = "live" /\ state' = "ended"
    /\ raced' = TRUE
    /\ UNCHANGED <<inputVars, buffer, demuxer, q, mutex, event, op, calls, delivered, overflowed, due>>

Next ==
    \/ \E r \in Readers :
          \/ Recv(r)
          \/ ReadCompletes(r)
          \/ \E error \in BOOLEAN : StopTakesEffect(r, error)
          \/ HandlerRuns(r)
          \/ Cancel(r)
    \/ \E n \in ReadSizes : PipeYields(n)
    \/ PipeEnds
    \/ Stop

Spec == Init /\ [][Next]_trackVars

\* The executor runs a posted handler, and a stop request is obeyed.  The
\* pipe owes nothing.
FairSpec ==
    /\ Spec
    /\ \A r \in Readers :
          /\ WF_trackVars(StopTakesEffect(r, FALSE))
          /\ WF_trackVars(HandlerRuns(r))

-----------------------------------------------------------------------------
(***************************************************************************)
(* Properties                                                              *)
(***************************************************************************)
\* The frames that have been put together, wherever they are now: returned,
\* in _q, or in the demultiplexer's own queue.
Completed == delivered \o q \o demuxer.queue

\* A frame has the PTS of its own header if that is sent without a DTS, and
\* no other frame's if not.
Stamped(f, stamp) == f.pts = IF stamp.kind = "pts" THEN stamp.value % StampMod ELSE 0

\* Whatever pieces the pipe yields, whoever reads and whoever is cancelled,
\* a frame of a clean input that has been split is put together once, whole
\* and stamped, and stays in order behind those returned before it, unless
\* one read completes more than the demultiplexer's queue holds.
FramesMatchInput ==
    Clean(input) /\ ~overflowed =>
        LET ref == Reference(input, Used)
        IN  /\ Len(Completed) = Len(ref)
            /\ \A i \in DOMAIN ref : /\ Completed[i].data = ref[i].data
                                     /\ Stamped(Completed[i], ref[i].stamp)

\* Also with junk, lost packets and overflow, frames of one stream are made
\* of its pieces in their order and come in that order.
FramesInOrder ==
    \A f \in {"h264", "opus"} :
        LET units == FlattenSeq([i \in DOMAIN Completed |->
                                    IF Completed[i].format = f THEN Completed[i].data ELSE <<>>])
        IN  \A i, j \in DOMAIN units : i < j => units[i] < units[j]

\* A track that has ended returns nothing more, and what is still in the
\* demultiplexer's queue is lost.  With one call of recv at a time that is at
\* most what the last split completed, all but its first frame; everything
\* before it has been returned.
EndCostsLastSplitOnly ==
    state = "ended" /\ ~raced =>
        /\ q = <<>>
        /\ ~overflowed => Len(delivered) >= due

\* Frames are neither changed nor moved, and all but the last ones returned.
FramesFaithful == FramesMatchInput /\ FramesInOrder /\ EndCostsLastSplitOnly

\* A cancelled call completes although the pipe is silent, waiting for the
\* mutex or for data, and whatever the others do (README.md:16).
CancelReaches == \A r \in Readers : op[r].asked ~> (op[r].pc = "none")
=============================================================================
