# asio-rtc: TLA+ models, checks and proofs

asio-rtc is a WebRTC library on Boost.Asio and stdexec.  It has no threads of
its own: everything runs on one executor, as public calls, callbacks and
coroutines.  What is hard in it is therefore not data races but what can happen
between two suspension points, what the network does to packets, and which
sequences of calls the application makes.  This directory models that part of
the code in TLA+, checks it with TLC on small instances, and proves part of it
with TLAPS for every value of the constants.

Paths below are relative to the root of the repository; in `PROJECT.json` they
carry the prefix `src/`.

## Inventory

| component | state | operations | hard about it |
|---|---|---|---|
| connection life cycle (`src/connection_impl.cpp`) | signalling, gathering and connection state, the two descriptions, transports, the scope with its tasks | `set_local_description`, `set_remote_description`, `create_data_channel`, gathering callbacks, `do_connect`, `close` | `close()` or a cancellation between any two suspension points; values read before an await and used after it |
| offer/answer (`src/connection_impl.cpp`, `src/rtp_transceiver.cpp`) | transceivers with MID, m-line index, codec, direction, stopped; `_mid_counter` | `create_offer`, `create_answer`, `add_transceiver`, `add_track`, `set_direction`, `stop`, applying descriptions | transceivers change between the calls; indices and MIDs are cached; two peers must agree |
| NACK (`src/nack_generator.cpp`) | window bounds, ring of `nack_info`, RTT | `receive_packet`, `get_nacks`, `update_rtt` | wraps, jumps, late and duplicate packets; ring slots shared by numbers one window apart |
| received track (`src/jitter_buffer.cpp`, `src/media_track_impl.cpp`) | sorted packets, next number, two deadlines, waiting reader | `push`, `pop_frame`, `recv_packet` | reordering, loss, wrap, deadlines that nobody's timer serves |
| RTP sender (`_sender_send_loop`, `_start_sender_loops`, `src/rtp_stream.hpp`) | track, streams with counters and a history of 128 packets | send loop, `replace_track`, raw packets, retransmission | the track is captured once, direction is not looked at; history slots are shared by numbers 128 apart |
| packet stream (`include/asiortc/detail/packet_stream.hpp`) | bounded queue, waiting writers | `try_write`, `async_write`, `pop` | who gets the room that one `pop` makes; cancelled waits |
| RTP reception (`do_on_rtp_rtcp_packet`, `dispatch_rtp`, `src/ssrc_context.hpp`) | maps of repair streams, a context with counts per SSRC | dispatch, RTX rewriting, receiver reports, PLI | wraps, late packets, packets taken for something else |
| TWCC (`src/twcc.cpp`) | received numbers with arrival times, next number, feedback count | `handle_incoming`, `report` | 8 and 16 bit counters, a late packet in a report |
| SRTP transport (`src/srtp_transport.cpp`) | sessions, active SSRCs | setup, unprotect, demultiplex | at most 32 SSRCs; RTP and RTCP told apart by payload type |
| stream track (`src/any_stream_track.cpp`, `src/mpegts_demuxer.hpp`) | byte buffer, frame queue, mutex; tables, streams and frames of the demuxer | `recv`, `stop`, `parse` | data cut anywhere, concurrent and cancelled calls, queues at their limit |
| `async_wait` (`include/asiortc/detail/async_wait.hpp`) | handler, stop source, cancellation slot | start, cancel, complete | cancellation racing completion |
| packetizers and wire formats (`src/rtp_packetizer/`, `src/rtp.cpp`, `src/rtcp.cpp`) | VPX picture id | encode, decode | sizes at a boundary, a lost fragment, two ends that must agree |
| SDP text (`src/sdp.cpp`) | none | `do_parse`, `to_string` | order and repetition of lines; text that is parsed again |
| data channel wrapper (`src/data_channel.cpp`) | the channel once open | `open` and forwarding | concurrent `open()` |
| `peer_connection` and interfaces | none | forwards to `connection_impl` | none |

Components call each other directly.  `connection_impl` owns everything: it
drives the ICE agent and the DTLS and SCTP transports (library asioice, not in
the repository), gives received packets to the SSRC context, the NACK generator
and the track, and polls the NACK generator and TWCC from one 20 ms loop.
Everything that is sent, by the application, the send loops or as feedback,
goes through one `packet_stream` to the ICE agent.
`PROJECT.json` lists the hazards line by line.

## Modules

| module | models | run as |
|---|---|---|
| `ConnectionLifecycle` | what the two states shown to the application promise | refined by `PeerConnection` |
| `PeerConnection` | one `connection_impl`: signalling, gathering, `do_connect`, `close` | `MCPeerConnection` |
| `PeerConnection_proofs` | theorems about it | |
| `Negotiation` | m-lines, MIDs, codecs and directions of two peers | `MCNegotiation` |
| `Negotiation_proofs` | theorems about it | |
| `NackGenerator`, `NackStream` | the generator; the stream, network and timer around it | `MCNackStream` |
| `NackStream_proofs` | theorems about it | |
| `JitterBuffer`, `MediaTrack` | the buffer; the reader, network and clock around it | `MCMediaTrack` |
| `MediaTrack_proofs` | theorems about it | |
| `SdpText` | the parser and the writer of descriptions | `MCSdpText` |
| `RtpDemux` | which datagrams the code takes for RTP and RTCP | used by the next two rows |
| `SrtpTransport`, `SsrcContext`, `RtpReceive` | admission and keys; per-SSRC counts; the way of a datagram through both | `MCRtpReceive` |
| `RtpReceive_proofs` | theorems about them | |
| `BoundedFifo` | what a bounded queue promises | refined by `RtpSender` |
| `PacketStream`, `RtpSender` | the queue with its writers; the sender, NACK answers and feedback over it | `MCRtpSender` |
| `RtpSender_proofs` | theorems about them | |
| `TransportCC` | collection and encoding of transport-wide feedback | `MCTransportCC` |
| `TransportCC_proofs` | theorems about it | |
| `Packetizer`, `RtpFormat`, `RtcpFormat`, `MediaPath` | payload formats; RTP and RTCP bytes; frames and reports on their way through them | `MCMediaPath` |
| `TsDemuxer`, `AsyncWait`, `StreamTrack` | the MPEG-TS demuxer; the asio operation; the track that reads through both | `MCStreamTrack` |
| `ModularArithmetic` | remainders and induction, for the proofs | |

### PeerConnection

A step is what runs between two suspension points.  `applying` is the
`set_*_description` call suspended in `apply_descriptions`; `task` is where
`do_connect` is suspended (`gather`, `ice`, `dtls`, `sctp`), `posted` the result
of the operation it awaits once that is known.  `OperationCompletes` and the
`Resume...` actions are separate because the resumption is a handler posted to
the executor, and `close()` may run in between.  A description is reduced to
what this code reads: type, setup role, kinds of m-lines, BUNDLE, trickle,
candidates.  A call that throws changes nothing and is not a step.  A cancelled
`set_*_description` (`CancelApply`) runs nothing after its `co_await`.

`WaitsForPeer` names two waits that nothing in the code ends: `async_handshake`
as DTLS server (`src/connection_impl.cpp:604`) and `accept()` of the SCTP
association (`:667`).  A peer that goes silent there, or that never wanted SCTP
because the channel was created after the offer, leaves the connection
`connecting` for ever.  `ConnectingEnds` therefore says that an attempt ends or
comes to such a wait, and that `do_connect` ends wherever it is after `close()`.

`close()` keeps `_signaling_state`, `_roles_set`, `_need_sctp` and
`_gathering_state` as they are, and the model does too; `signaling_state_t::closed` is
never assigned by the code.

External behaviour, from how the code uses it: the counting scope refuses work
once its join has started and no work is left (`ScopeAccepts`); an operation
that had not succeeded when `close()` ran no longer succeeds; a spawned
coroutine sees the stop request.  The last point has one part that the sources
in the repository do not settle: whether a coroutine whose operation has
*already completed*, but whose resumption is still queued, is stopped too.  The
constant `StopOnResume` stands for it.  The runs and all theorems but
`TypeCorrect` take it as `TRUE`.  With `FALSE`, TLC finds that `close()` between
the completion of ICE and the resumption of `do_connect` lets the latter
dereference the `_remote_desc` that `close()` reset
(`src/connection_impl.cpp:599`), and that `close()` followed by a queued DTLS
resumption turns `closed` into `connected` (`:657`).  `do_connect` has no check
of its own, so its safety rests on this property of the libraries.

### Negotiation

Both peers run the same code; signalling is reliable and in order (each applies
what the other has set).  A direction is the set of what it enables, as the bits of the
enum are.  An m-line is MID, codec (`app` for SCTP), live or rejected, and
direction.  `Entries` is the first half of `create_offer`, which decides which
place each line gets; `FreshMids` is `next_mid`.  `add_transceiver` with a track
is only called through `add_track` here.  Only one exchange happens, as in
the code: the signalling state never returns to `stable`.  `create_offer` has no
state check, so a second offer can be created, and an older one can be set.

### NackGenerator and NackStream

`NackGenerator` is the class, for a number space of `2 * Half` and a ring of
`HistorySize` (65536 and 1024 in the code).  `NackStream` numbers the packets
without wrapping and keeps which arrived and how often each was asked for, so
that the generator's answers can be compared with the truth.  Only packets
within `Reach < Half` of the newest one arrive; a jump of half the number space is
ambiguous for any receiver.

### JitterBuffer and MediaTrack

`JitterBuffer` is `push` and `pop_frame`; `MediaTrack` adds the reader of
`recv_packet`, which holds the mutex and is woken by `push_frame` only, and a
clock.  Packets without payload never reach the buffer (`dispatch_rtp`).
`crossed` notes that a packet came late over the wrap of the numbers, or while
the reader was half a cycle behind, which the buffer takes for one of another
cycle; the properties are about the streams in which none did.

### SdpText

A line is its letter, attribute name and words; words are strings and never
taken apart, with one exception: `Padded` names end in a blank.  `do_parse` keeps
the parser's control: which lines are refused, which change nothing, which need
an rtpmap before them, how `add_feedback` merges.  `to_string` writes the fields
in the order the code does.  The specification reads any text of the pool's
lines, writes what was accepted and reads it again.

`do_parse` trims a line before it reads it, so a line written with a blank at its
end is not read as it was meant.  The code writes two such lines: `a=ssrc:1 `, for
the `a=ssrc:1 :` that `parse_ssrc` accepts with neither attribute nor value, and an
unknown attribute without a value whose name ends in a blank (read from `a=mid :`).
The first is refused when read again, the second changes its name, or even
becomes a known attribute.  `EndsInBlank` names both, and `OwnTextAccepted` and
`MeaningKept` are about all other texts.  `a=msid-semantic` without words is
undefined behaviour (`src/sdp.cpp:582` takes `front()` of an empty vector); the
reader ends as `crashed` there.

### SrtpTransport, SsrcContext and RtpReceive

A datagram carries what the code looks at before decryption (length, first
byte, payload type, the word at offset 8), who protected it and for which
protocol, and its content.  libsrtp is external: a packet decrypts if it was
protected with the other side's key and is no replay.  `Verdict` is
`datagram_received`; `dispatch_rtp` follows the code through RTX rewriting, the
search by MID and SSRC, `track_packet`, the PLI counter, the application's
callback and the track.  `RtpDemux.parse` is the reason `HandleCompound` is
rarely reached: a report parses as an RTP packet.  Ghost variables keep the
packets without wrapping.

### PacketStream and RtpSender

`waiting` holds the writers of `async_write` in the order a `shared_promise`
wakes them; `pop` lets each try again.  `ImplementsFifo` instantiates
`BoundedFifo` with the queue.  A packet of the send loop is numbered, stored
and then sent; `loop` is where `_sender_send_loop` is suspended, with the track
it captured.  The numbers of `send_rtp` come from the first stream and are not
stored; a packet that cannot be encrypted has taken its number all the same
(`RawUnencrypted`).
`NackForms` are the datagrams a NACK comes in, since which ones reach the
handler depends on their header.

### TransportCC

`handle_incoming` and `report` as functions on the object's state; `Drain` is
the `while` loop, unrolled as often as it can turn.  The feedback keeps its
chunks and deltas with their widths, because what is checked is what a
receiver of the feedback decodes from them.

### Packetizer, RtpFormat, RtcpFormat and MediaPath

Bytes are numbers, packets are short (`PacketMax`).  `MediaPath` sends one
frame at a time with `Pack`, `make_rtp` and `write_to`, delivers or loses each
packet, reads it with `ParseRtp` and `depayload` and puts the frame together as
`media_track_impl::recv` does.  It also sends what other implementations send
and this one only reads: STAP-A, padding, CSRCs, NACKs with a bit mask.

### TsDemuxer, AsyncWait and StreamTrack

The input is a sequence of cells, one of which in every packet is a sync byte;
`Parse` is `MPEGTSDemuxer::parse`, which an application gives to
`any_stream_track` as its split callback (as `src/any_stream_track_test.cpp` does).
Tables are sections in parts, a frame is a sequence of units.  A section with
an invalid length is treated as the code treats stuffing.  A packet carries the
stamp of its header: none, a PTS, or a PTS with a DTS; `current_pts` takes it as
`parse_pes` does, which is the second only, cut to 32 bits (`StampMod`), so frames
sent with a DTS come with time stamp 0.

`read_frame` hands out one frame as soon as the data is used up
(`src/any_stream_track.cpp:163`) and leaves what else the read completed in the
demuxer's queue; a read that meets the end of the pipe ends the track without
asking the split callback again.  So even with one reader the end of the pipe
costs the frames the last split completed behind its first one.
`FramesFaithful` therefore has three parts: what has been put together, wherever
it is, matches the input (`FramesMatchInput`, `FramesInOrder`), and at the end
everything before those frames has been returned (`EndCostsLastSplitOnly`, from
the ghost `due`, until calls overlap or `stop()` is called).  The asio operation
around `recv` (`media_track.hpp:70`) is `AsyncWait`.  The mutex and the read are
external, with the reaction to a stop request that asioice and asio document:
stopped, or an error code.

## Runs

| run | checks | result |
|---|---|---|
| `peer_connection` | `TypeOK`, `ConnectedIsComplete`, `NoDanglingResume`, `AdvertisedRoleIsPlayed`, `AttemptOnlyAdvances`, `ImplementsLifecycle`; `ConnectingEnds`, `DescriptionsStartConnect` under fairness | holds, 300,694 states |
| `negotiation` | `LiveMidsUnique`, `AnswerFitsOffer`, `DirectionsAgree`, `AnswerIsObeyed` with stale offers and edits | holds, 572,929 states |
| `nack_stream` | `WindowFitsRing`, `RetriesBounded`, `OnlyMissingAsked`, `BackoffRespected`, `GapsAreAsked` | holds, 302,019 states |
| `media_track` | `OrderedFrames`, `NoEarlyDrop` across the wrap | holds, 1,086,868 states |
| `sdp_text` | `OwnTextAccepted`, `MeaningKept`, `NormalForm` | holds, 1,441,532 states |
| `receive_path` | `AdmissionBounded`, `ForgeryInert`, `DeliveredWasSent`, `CountsAreTrue`, `NoPliWithoutLoss` | holds |
| `send_path` | `ImplementsFifo`, `StatsAddUp`, `RtxIsFaithful`, `NacksAnswered`; `WritersFinish` under fairness | holds |
| `twcc` | `FeedbackTrue`, `ReceiptsConserved`, `TimesDecode` | holds, 122,443 states |
| `wire_formats` | `MediaReadBack`, `LossIsLocal`, `ControlReadBack` | holds, 153,696 states |
| `stream_input` | `FramesFaithful`; `CancelReaches` under fairness | holds, 139,539 states |
| `nack_ignored` | `NacksAnswered` for NACKs alone or behind a report | violated |
| `video_timeout` | a tail frame is handed out by timeout | violated |

Each violation is a disagreement between the code and what a comment or the
README says; `PROJECT.json` quotes the line.  Each property of a passing
run has a mutant in the module (`Mutant...`), a plausible bug that breaks it.

`send_path` sends NACKs in a datagram that does reach the handler (behind an
application packet that does not parse as RTP), so that the retransmission
code is exercised; `nack_ignored` is the same specification with the datagrams
peers really use.

### Deviations without a run

Met while modelling.  The modules do what the code does, and the properties
are stated so as to hold in spite of them.

Negotiation and connection

- A second `create_offer` writes the application line twice (its place is
  never taken out of `mid_to_index`).  `set_local_description` accepts an offer
  older than the last `create_offer` and may tie a transceiver to a line written
  for another one; one stopped between two offers may get the MID of another's
  line.  `LiveMidsUnique` is therefore about transceivers in use.
- `create_data_channel` is accepted between the two descriptions, although its
  message (`src/connection_impl.cpp:1182`) says it must precede both; the offer
  then has no line for it.
- `add_track` between `set_remote_description` and `create_answer` can make the
  answer accept a codec the transceiver does not have
  (`src/rtp_transceiver.cpp:128`).
- `_start_sender_loops` does not look at the negotiated direction, and
  `replace_track` does not reach a running loop.
- If the second session of SRTP `setup` fails, the first one stays.
- Waiting for the peer to begin DTLS or SCTP has no timeout (`WaitsForPeer`).

Reception

- A packet from before the wrap that arrives after it is extended into the
  current cycle by the jitter buffer (delivered late, out of order), and
  raises the expected count of `ssrc_context`.
- `_video_wait_start` survives its frame, so the next tail frame does not wait.
- `get_nacks` does not scan the lowest number of the window its comment
  (`src/nack_generator.cpp:70`) gives.
- Retransmissions and duplicates count as received; RTX padding is pushed as
  media; the RTT of a receiver report is looked up under our own SSRC in the
  set of remote ones.
- An FU-A whose start is lost leaves an empty unit, one whose middle is lost is
  stitched.  VP9 is read with the descriptor of VP8.
- `rtp_ext_iterator` takes a padding byte for an element of id 0;
  `make_rtp` writes one character of the MID only.

Sending and feedback

- Numbers of `send_rtp` are not in the history, and one is used up when the
  encryption fails; a NACK for media SSRC 0 is
  answered by the first stream that has the number; a large packet that waits
  can be overtaken by small ones for as long as they come.
- A TWCC packet that comes after its number was reported makes the next
  reports walk round the number space; when the feedback count wraps to 0, the
  losses before the oldest packet are not reported; a negative small delta is
  written as an unsigned byte; the extension id is fixed to 4.

Input

- Overlapping `recv()` calls of one `any_stream_track` can leave frames in its
  queue when the stream ends, since the queue is not looked at after the lock.
  The frames the last split completed behind its first are lost in any case.
- The demuxer takes no time stamp from a header that has a DTS too
  (`src/mpegts_demuxer.hpp:503`).
- The demuxer drops the oldest frame when one read completes more than its
  queue holds, joins what is on both sides of a missing packet, skips a packet
  after a false sync byte, and keeps the last frame of each stream unless it is
  called with no data, which `any_stream_track` never does.
- The SDP parser refuses an fmtp before its rtpmap, does not compare the msids
  of the last media, reads a non-numeric extmap id as 0, and takes the first word of an
  empty `a=msid-semantic`.  `to_string` can write a line that ends in a blank,
  which `do_parse` trims and then refuses or reads as another one.

### Bounds

- `PeerConnection` has none: its state is finite.  `MCRemoteDescs` is every
  description the code tells apart.
- `Negotiation`: two transceivers, three descriptions and one change to an
  existing transceiver in all are enough for an older offer to be set after a
  newer one was made.  Both codecs are video, since the code compares kinds and
  codecs in the same places.  When the bounds are used up the application
  stops, hence no deadlock check.  The peers and the codecs are symmetric.
- `NackStream`: a ring of 4 in a number space of 16; packets 0..19 starting
  near the wrap, so windows, ring and number space all wrap; 6 polls, which is
  more than the retries of one packet take.
- `MediaTrack`: frames of 2 packets, parts of three frames around the wrap at
  16, reordering by up to 3, clock up to twice `MaxDelay`.
- `SdpText`: four lines of a pool of 42, of which a media takes one and an
  attribute that needs an rtpmap another; order and repetition of the
  remaining ones are what matters.  A text ends, so there is no deadlock check.
- `RtpReceive`: two SSRCs are admitted and there are three; numbers wrap at 8
  and the stream starts two before; five datagrams are decrypted (three gaps in
  a row need four), any number are not.
- `RtpSender`: two layers, a history of 2 in a number space of 4, five packets,
  so slots are reused and numbers wrap; the queue holds one raw packet and one
  other; one NACK (for two numbers) or feedback.
- `TransportCC`: five packets across the wrap at 16, reports of 3 statuses, 2
  packets may wait, the feedback count wraps at 3; deltas of each of the three widths.
- `MediaPath`: packets of 5 bytes, units of 1, 5, 7 and 9, so that a unit fits
  exactly, fills its fragments or not; two frames, so the picture id wraps.
- `StreamTrack`: packets of 2 cells, reads of 1, 4 and 9 cells, four inputs
  (clean, with a frame too large, with lost and damaged packets, with false
  sync bytes and media before the tables), two readers, three calls; stamps with
  and without a DTS, of which 3 bits are kept and one has more.  Calls end, hence
  no deadlock check.

### Fairness

`PeerConnection`: the executor runs its handlers, and an operation that this side
begins ends: gathering, ICE, which has a `connectivity_check_timeout`, and the
DTLS client's handshake and the SCTP `connect()`, which give up after their
retransmissions.  The DTLS server's handshake and `accept()` have nothing to
repeat and owe nothing (`WaitsForPeer`), except that the scope's stop request
ends them.  The application and the peer owe nothing; a cancelled call is the
exception named in `DescriptionsStartConnect`.  `MediaTrack`
(`video_timeout` only): time passes, the application keeps reading, a
runnable reader runs; the network owes nothing.  `RtpSender`: `sendto` of the
ICE agent completes, well or not; new packets are bounded, so `WritersFinish` says
that a waiting writer finishes once they stop coming.  `StreamTrack`: posted
handlers run and a stop request takes effect; the pipe owes nothing.

## Proofs

`PeerConnection_proofs` (every set of remote descriptions):

- `TypeCorrect`: `Spec => []TypeOK`, without assumptions on the scope.
- `Invariance`: `Spec => []IInv` if `StopOnResume`.  The safety properties are not
  inductive: that a resumption is safe depends on where `do_connect` is, which
  depends on the signalling state and the descriptions, which `close()`
  changes under it.  `IInv` adds: the connection state follows `task`
  (`StateFollowsTask`); `do_connect` exists only after both descriptions were
  accepted (`TaskAfterSignaling`); a closed scope cannot start it again
  (`NoRestartWhileClosing`); what each await needs is there unless closed
  (`TaskHasItsState`); an answer's role is the one computed from the remote
  description (`AnswersMatch`).  TLC checked `IInv` first.
- From it `ResumesAreSafe`, `ConnectedComplete`, `RolesAgree`, `OneAttempt`, and
  `Refinement`: every step is a step of `ConnectionLifecycle` or stutters.

Every invariant named below was checked by TLC on the bounds of its component's
run before it was proved.

`NackStream_proofs` (every number space, ring size, retry limit, clock, and
network within `Reach`).  First types and the window (`StreamFits`,
`NackTypeCorrect`, `WindowAlwaysFits`): short distances add up across the wrap
(`DistancesAdd`), and the last statement of `receive_packet` cuts the window
back (`SlideFits`).  That says nothing of the ring's content, so `StreamInv`
adds that the slot of each packet of the window says whether it arrived and how
often and when it was asked for (`RingMatches`): two packets of one window have
different slots, and a slot is cleared before the window moves over it.  From it
`RetriesAlwaysBounded`, `OnlyMissing`, `BackoffAlwaysRespected`, `GapsAlwaysAsked`.

`RtpReceive_proofs` (every set of datagrams, number space, limit of SSRCs and
remote description of one video stream).  `Sessions`: the keys are those of the
DTLS roles and what is admitted decrypted, whatever setup failed half way; hence
`AdmissionAlwaysBounded` and `ForgeriesAreInert`.  `ReceiveInv`: until a packet
comes late over the wrap, the extended number of a context is that of a packet
that was sent, a whole number of cycles away (`Timeline`), and what reaches the
track is inductive only together with that; hence `DeliveredAlwaysSent`,
`CountsAlwaysTrue`, `PliAlwaysEarned`.

`RtpSender_proofs` (every number of streams, history, number space, capacity).
`SenderInv`: each packet numbered on a stream is counted, in flight, waiting or
failed, and each slot of the history has the newest packet of the track that
belongs there.  From it `StatsAlwaysAddUp`, `RtxAlwaysFaithful` (two packets in
the history never share a number, since its size divides the number space) and
`NacksAlwaysAnswered`, under the hypothesis that a NACK's datagram reaches the
RTCP handler.  That hypothesis is what `nack_ignored` shows to fail for the
datagrams peers use; the theorem says that it is the only thing in the way.
`BufferIsFifo`: every step of the queue and its writers is one of `BoundedFifo`
or stutters; the work is in `pop`, which lets several writers in at once.

`MediaTrack_proofs` (every number space, frame size, delay and network).
`TrackInv` relates the extended numbers in the buffer to the packets under them:
always the same remainder; until one crosses (`Straight`), the same packet,
with the gap timer started no earlier than a packet behind the gap came, and
every skipped packet given up.  From it `FramesAlwaysOrdered`, `NeverDropsEarly`.

`Negotiation_proofs` (every number of transceivers, descriptions and changes,
every set of codecs).  `NegotiationInv` says what each signalling state implies:
before a description is set no transceiver has a MID, those in use have m-lines
of their own, and all drafts are offers; then the offer set is well formed, and
answers fit the offer they were made for.  It is inductive because the signalling
state never returns to `stable`: only offers made before the first one was set
can be set, so what `create_offer` writes later (with the duplicate line named
above) is never applied.  For such a first offer the proof follows `Entries`,
`Positions` and `FreshMids` line by line (`FirstEntries`, `FirstOffer`).  Hence
`MidsAlwaysUnique`, `AnswersAlwaysFit`, `AnswersAlwaysObeyed`.
`PeersAlwaysAgree` needs more (`AgreementInv`), and only as long as no
application changed a transceiver it had: among the offers made, only the latest
has a line for every transceiver that was ever offered (`Numbered`), so a stale
one is either refused or says the same; the answerer's transceivers stay within
the offer (`BoundTo`), its answers say what they do (`Mirrors`), and applying
such an answer makes the two agree (`AgreedAtLast`), although both may add
transceivers at any time.

`TransportCC_proofs` (every number space, limit of the list, report size, delta
width and number of packets; a packet arrives up to `Reorder` behind the newest
or one or two after it).  The code only sees wrapped numbers, so the invariant
names the packets `t[1] < t[2] < ...` that wait in `_recv` (`Listed`): one
with k behind it in the list is at most `Reorder + 2k` below the newest, hence `SeqBefore`
orders them as they were sent, and `Insert` and `Places` do what they should.
A loss is told from `next_report_seq` alone, and to know that it is true takes
the history (`ReportedTo`): as long as no packet came after a report had passed
its number, that number stands for a packet N such that all that arrived and is not
below N still waits, nothing below N waits, and one below N that arrived is
recent, so N is within half a cycle.  `Followed` carries this, and what has been told, through the
`while` loop of `handle_incoming`; the loop ends since a report that covers
nothing comes `MaxStatus` numbers closer to the first entry (`ReportApproaches`,
`DrainFollows`).  Hence `FeedbackAlwaysTrue` and `ReceiptsAlwaysConserved`.
`TimesAlwaysDecode` follows chunks and deltas: statuses and deltas cover the
entries one after the other (`CoveredSteps`), and the deltas add up to the arrival times.

`ModularArithmetic` has the facts about remainders that all wraps come down to,
and the least-number principle.  The library's induction theorems take an
operator as a parameter; stated for a set (`NatMin`, `UpTo`), the principle proves
what recursive functions such as `Positions`, `BindAll`, `FlattenSeq`, `Places` and
the loops of `pop`, of the NACK handler and of `Drain` compute, once the function is shown to exist
(`Recursion`).

The assumptions on constants are those the code or the network model justifies:
the ring and the history divide the number space (1024 and 128 divide 65536);
the retry limit is positive (10); reordering spans less than half a cycle,
beyond which no receiver can tell old from new; so do the packets that wait for
feedback with those still to come (`Reorder + 2 * MaxRecv`, with 200 for
`MaxRecv` and 65536 numbers); a reference time is rounded down by less than a large
delta (256 ticks, 32768); a frame has fewer packets than
there are numbers; simulcast frames go to streams that exist; a stream's first
number is one of the number space.

Only model-checked: liveness (`ConnectingEnds`, `DescriptionsStartConnect`,
`WritersFinish`, `CancelReaches`), which needs ENABLED; the properties of `SdpText` (`NormalForm`,
`OwnTextAccepted`, `MeaningKept`) and of `StreamTrack` (`FramesFaithful`), whose
parsers are RECURSIVE operators, and of `MediaPath` (`MediaReadBack`, `LossIsLocal`,
`ControlReadBack`): what folds over texts and byte sequences compute
for every input.

## Not modelled

- ICE, DTLS, SCTP, libsrtp, the mutex, queue and promise of asioice, and
  stdexec's scope: external, modelled from their use.
- `queue_track` and `data_channel`: a member of an asioice type and calls
  forwarded to it.  Two concurrent `open()` calls both create a channel; what
  becomes of them is up to the library.
- `peer_connection` and the interfaces: forwarding only.
- Callbacks that call back into the connection: changing `_transceivers` while
  `set_remote_description` iterates over it is undefined behaviour without
  outcomes to enumerate.
- In the modelled parts: SSRCs, header extensions and simulcast of the
  negotiation; bytes and octet counts, jitter and RTT values of the
  statistics; the periodic cleaning of SSRCs; the spelling of tokens
  in SDP, blanks inside them, and candidates (`src/candidate.cpp`); `jitter_buffer::reset`, which nothing calls.
- FFmpeg glue and examples: no logic of the library.

## Plan

Done: all components above.  Next:

1. `Call`: two `PeerConnection`s over the negotiated descriptions, which must
   agree on DTLS roles and on whether SCTP is used.
2. `NackStream` and `RtpSender` composed over a lossy network: a lost packet is
   asked for, repeated and rewritten on arrival.
