# Verification of the tcp-stack

A TLA+ development kept beside the Rust code of this repository: models of the
TCP connection, of two streams talking over a bad network, of congestion
control, of the multi-connection server and of the live event loop; TLC runs on
small instances; and theorems checked by TLAPS for every value of the
constants. Paths are relative to the repository root.

## 1. The system and its parts

| Part | Source | State | Operations |
|---|---|---|---|
| Sequence arithmetic | `src/seq.rs` | none | `before`, `after`, `between` on the 2^32 circle |
| Connection | `src/tcp.rs` 285-1446 | TCB: state, SND.*, RCV.*, options, pending FIN, timers | `connect`, `accept`, `from_syn_cookie`, `close`, `on_segment`, `on_tick`, `poll_transmit`, `write`, socket options |
| Retransmission queue | `src/tcp.rs` 1622-1852 | unacknowledged packets, SACK marks, retry counts | `record`, `ack`, `due`, `fast_retransmit`, `mark_sacked`, RACK, TLP, `pipe`, `next_lost_retransmit` |
| Reassembly | `src/reassembly.rs` | fragments by offset | `recv`, `sack_blocks` |
| RTT / RTO | `src/rtt.rs` | SRTT, RTTVAR, back-off | `sample`, `back_off`, `rto` |
| CUBIC | `src/congestion.rs` | cwnd, ssthresh, w_max, epoch, dup-ACK count, `in_recovery` | `on_ack`, `on_dup_ack`, `on_partial_ack`, `on_timeout` |
| BBR | `src/bbr.rs` | mode, gains, bandwidth filter, RTprop, rounds | `on_ack`, `on_dup_ack`, `on_timeout`, `pacing_rate_bps` |
| Streams | `src/socket.rs` 24-244 | a connection, a transport, a read buffer, a clock | `connect`, `poll`, `feed`, `recv_all`, `close`, `read`, `flush`, `poll_accept`, `accept` |
| Server | `src/socket.rs` 246-378 | table of connections, backlog, announced set | `poll`, `accept_one`, `send`, `recv`, `close` |
| SYN cookies | `src/tcp.rs` 1521-1619 | none (the state is in the cookie) | `syn_cookie`, `check_syn_cookie`, `build_syn_cookie_synack`, `build_rst` |
| Event loop | `src/main.rs` | table of connections, HTTP buffers | one iteration per packet or timeout |
| HTTP responder | `src/http.rs` | none | `request_head_len`, `looks_like_request`, `parse_request`, `response` |
| UDP, ICMP, IPv4 | `src/udp.rs`, `icmp.rs`, `ip.rs`, `utils.rs` | none | parse, reply, checksum |

How they interact: the transport hands datagrams to `TcpStream::poll` (or to
the event loop), which calls `on_tick`, then `on_segment` once per datagram,
then `poll_transmit`; whatever these return goes back to the transport.
`on_segment` drives the reassembler, the retransmission queue, the RTT
estimator and congestion control. There are no threads: the concurrency is that
of two hosts, the network between them, and timers. The hard behaviours are
losses, duplicates and reordering at every step of handshake, transfer, loss
recovery and close; timers that race late answers; simultaneous close;
retransmissions that carry old timestamps; a send that fails in the middle of a
poll; a 4-tuple that is used again; more SYNs than the backlog holds, and
cookies that come back late; data that pacing or Nagle holds back when the
application closes; and arithmetic at the sequence wrap and at the end of u32.
`PROJECT.json` lists each as a hazard with its line and its properties.

What makes each part correct:

- connection: the state names the truth about the two halves, SND.UNA moves only
  forward, what is in flight is queued, nothing follows our FIN, the peer's
  window is respected;
- queue: nothing the peer lacks is dropped or hidden by a SACK mark;
- reassembly: the unbroken prefix comes out once, in order, at once;
- RTO: stays in its bounds, never shrinks while backing off;
- CUBIC: the window never closes, every loss ends the epoch, recovery ends with
  a smaller window than it found;
- BBR: the filter is the maximum of its window, the mode agrees with what has
  been learned, no mode is a trap;
- server: a connection is offered once, a successor on its 4-tuple as well, and
  stays reachable; closed ones leave the table;
- event loop: bounded memory, only genuine and fresh cookies, every request after
  the first recognised one answered however TCP cuts it, what was written reaching
  the wire unchanged, and, for a client that keeps speaking, every half-close
  answered and nothing held for ever;
- two streams: a reliable byte stream each way, an end of stream seen only after
  every byte, and everything sent arriving in the end.

## 2. Modules

| Module | Models | Extends / uses |
|---|---|---|
| `SeqArith` | `seq.rs`; the circle has `2 * Half` positions | |
| `Segment` | what `parse` and `parse_options` extract, what `build_packet` sends | `SeqArith` |
| `Reassembler` | `reassembly.rs` as operators | `Segment` |
| `RetxQueue` | the queue as operators on a set of entries | `Segment` |
| `Connection` | every method of `Connection` as an operator on a record | both above |
| `TcpEndpoint` | one connection against an arbitrary peer | `Connection`, `HalfClose` |
| `HalfClose` | abstract: two halves that close independently | |
| `TcpPair` | two `TcpStream`s and the network | `Connection`, `ByteStream` |
| `ByteStream` | abstract: a reliable byte stream each way | |
| `Receiver` | the reassembler fed any segmentation in any order | `Reassembler` |
| `RttEstimator` | `rtt.rs` | |
| `Cubic` | `congestion.rs` as operators, in u32 arithmetic | |
| `Bbr` | `bbr.rs` as operators, the windowed-max filter included | |
| `SenderControl` | the estimator and a controller, driven as `on_segment` and `on_tick` drive them | `RttEstimator`, `Cubic`, `Bbr` |
| `TcpServer` | `TcpServer` of `socket.rs` | `Connection` |
| `SynCookie` | cookies, and the RST and SYN-ACK built without a connection | `Segment` |
| `Http` | `http.rs` on tokens | |
| `EventLoop` | `main` of `main.rs` | `Connection`, `Http`, `SynCookie` |
| `MCTcpEndpoint`, `MCTcpPair`, `MCSenderControl`, `MCTcpServer`, `MCEventLoop` | constants for TLC | |
| `Arithmetic` | remainders and quotients, facts the proofs share | |
| `ConnectionProofs` | lemmas about `Connection`, method by method, and about the retransmission queue on the circle | `Connection` |
| `TcpEndpointProofs`, `ControlProofs`, `ServerProofs`, `LoopProofs`, `ReceiverProofs` | theorems about the module of that name (`ControlProofs`: `RttEstimator` and `SenderControl`) | `Arithmetic`, `ConnectionProofs` |
| `PairProofs` | theorems about `TcpPair` | `ConnectionProofs` |

**Connection.** A method `m(&mut self, ...) -> packets` is an operator that
returns the record `[tcb, out, data]`: the connection afterwards, the packets
returned, and the bytes appended to `recv_buf`. `on_segment` keeps the order of
the code's early returns; its branches are `on_rst`, `OnSynSent`, `OnSynRcvd`,
`OnOpen` (then `OnOpenAck`, `FastRetransmitOr`, `OnOpenData`), `OnFinWait` and
`OnFinAckOnly`. `on_tick` runs `Expire`, `Retransmit`, `PersistTick` and
`KeepaliveTick` in that order. What is abstracted:

- time: `on_tick` is told which timers have elapsed (`t.expired`, `t.resend`,
  `t.rto`, `t.persist`, `t.keepalive`), so every real schedule is one of the
  model's; `t.resend` is any set of holes, which covers RACK, TLP and the RTO;
- of congestion control the duplicate-ACK counter (saturating one above the
  threshold, where the code no longer distinguishes values), `in_recovery` and
  `recover` are exact for the default controller, CUBIC; `cwnd` is an input of
  `poll_transmit`. `SenderControl` models its size. BBR, which the event loop
  uses, never enters recovery, and its pacing gate is in `EventLoop`;
- the queue is a set, because the code's vector is in sequence order and holds
  disjoint ranges (`FlightIsQueued`); `retried` stands for `retries > 0`;
- window scaling is applied before the segment record; MSS is one constant;
- the challenge-ACK budget is a Boolean input, "spent this second";
- `TSecr` only feeds the RTT estimator and is left out.

**TcpEndpoint.** `peer` (the kind of peer, chosen in `Init`), `conn`, and the
history counter `written`. `Receive`, `Tick`, `Transmit`, `Write`, `Close`, `SetNodelay` and
`SetKeepalive` are the methods; `Init` is any of the three constructors.
`Receive` accepts any segment of `Incoming`, so what holds here holds whatever
the network or the peer does.

**TcpPair.** `scenario` (the bounds of this behaviour, chosen in `Init`),
`conn[e]`, `received[e]` (everything `recv_buf` was given;
`recv_all` and `read` drain a prefix of it), `pc[e]` (inside `poll` or not),
`clock[e]` and `net[e]`. `PollBegin`, `Ingest` and `PollEnd` are the three loops
of `poll`; `PollAccept` is the listener; `Feed` and `Close` are the application.
`Lose`, the choice of `i` in `Ingest` and `dup` are the network's faults. A copy
of a datagram that is already under way is not told apart from it.

**SenderControl.** `cc` is the controller's record, `left` is `recover - SND.UNA`,
and `path` says which controller, which round trips and which faults a behaviour
has. `PartialAck`, `CubicAck`, `BbrAck`, `DupAck` and `Timeout` are the places
where `on_segment` and `on_tick` call the estimator and the controller. Sums
that the code computes in u32 are taken `% U32`, as a release build does (a debug
build would stop there). The cubic curve itself is floating point: its value is
an input, `target`; `epoch` only says whether an epoch has begun. BBR's gains are
integers in hundredths, its time stamps are kept as ages, its deque is the
code's deque. `seen` is history: every sample with its age, against which the
deque is judged.

**TcpServer.** `conns`, `backlog` and `announced` are the code's; `phase` says who
runs. `poll` is three steps, because datagrams keep arriving while it reads:
`PollTimers`, any number of `Ingest`, and `PollEnd` (flush, announce, reap). Each
send may fail; then the `?` leaves `poll` at once, and the `...Fail` variants
keep exactly what had been done by then. A timer resends any set of holes, of any
of the connections, with or without the RTO's reset. `held` is what the application
has a handle of; `offers` (how often a
connection was put in the backlog) and `given` (what `accept_one` has handed out
since its present connection was opened) are history.

**EventLoop.** `conns` and `http_bufs` are the code's. `Timers` is the loop over
`on_tick` with its reaping, `Clock` the passing of time, `Packet` one datagram:
`Handle` for a known 4-tuple (`on_segment`, the application, `poll_transmit`,
the closes), otherwise `PassiveOpen`, `SendCookie` or `ReturnedCookie`. `pace[q]`
is what the pacing gate sees: no rate yet, free, or held. Replies that change no
state (RST for an unknown 4-tuple, ICMP, UDP) are not actions; an I/O error ends
`main`, so the behaviour stops. A client sends its script in any pieces and any
order, keepalives, a FIN, and RSTs: those that answer our latest ACK and those that
answer a packet resent with an older one (`Resets`). `issued`, `origin`, `heard`,
`wrote` and `httpFrom` are history.

**SynCookie, Http.** The keyed hash is the constant `cookie_mix`, assumed free of
collisions on the handshakes of a run; counter, MAC and MSS index share the
number as in the code, and the tick counter itself wraps (`CounterMod`). Cookies
come back unaltered: the MAC does not cover the MSS bits (`src/tcp.rs` 1558, 1580),
and a cookie whose MSS bits were changed on the way is outside the model. A request is a sequence of tokens (`GET`, half a method,
a version, a Connection header, the blank line, other text); TCP may cut the
stream between any two. `looks_like_request` sees what is delivered at once: a
method in two tokens is recognised when both come together.

**Mutants.** Operators commented `Mutant:` are plausible bugs of the definition
they precede. None is used by a specification; each is there to show that a
property notices it (`PROJECT.json`, "mutants").

## 3. Runs

A run explores several scenarios: a variable chosen in `Init` and never changed
(`peer`, `scenario`, `path`) selects the bounds and the faults of a behaviour, so
that each fault is explored deeply without multiplying it with all the others.
Circles have 16 positions (256 in the event loop); initial numbers are chosen so
that data crosses the wrap. One byte per segment (`Mss = 1`) makes every byte a
unit of loss, ordering and acknowledgement; in the event loop `Mss = 3` is larger
than a response, so that Nagle applies as in the code. `DupThresh` 1 or 2 makes
loss recovery happen with two or three segments; `MaxAhead` 4 puts the
reassembler's limit inside the stream of the `receiver` run.

| Run | Question | Bounds | States |
|---|---|---|---|
| `endpoint` | Can any mix of SYN, FIN, RST, data, ACK, SACK, windows and timers bring the states out of step with the two FINs, lose track of what is in flight, move SND.UNA back, send after the FIN or exceed the window outside recovery? | `closer`: seq and ack in three positions, window 0 or 2, one byte written, throttled challenges, keepalive; `reader`: three bytes, five ACK values, three SACK edges, cwnd 1 or 3 | 63 000 |
| `endpoint_window` (violation) | Is the peer's window respected in SACK recovery? | window 4, cwnd 5 | |
| `pair` | Do two streams implement `ByteStream`, and does the sender never forget what the receiver lacks? | `transfer`: two bytes, two losses, one overtaking; `duplicates`: a copy, an early timeout, an overtaking, throttled challenges; `recovery`: three segments in flight, one loss; `duplex`: data and closes both ways, reaper, one loss; `ticking`: a timestamp clock that ticks, one loss, one overtaking | 801 000 |
| `pair_liveness` | Do handshake, data, end and teardown complete? | one byte, one loss, one overtaking | |
| `pair_lost_ack` (violation) | Does TIME_WAIT acknowledge a resent FIN? | one loss | |
| `pair_accept_clock` (violation) | Does PAWS spare what an accepted stream sends? | the listener has waited one tick | |
| `receiver` | Reassembly and SACK blocks against a set of offsets | all 64 segmentations of seven bytes, any order, any repetition | |
| `control` | RTO, CUBIC and BBR under any order of new, partial and duplicate ACKs and timeouts | `lossy`: the window followed until u32 (64 here) wraps; `jitter`: round trips 8 and 100; `modelled`: BBR with timeouts, round trips 1 and 2; `reordered`: BBR with duplicate ACKs; `BwWindow` 1, `RtpropWindow` 3, so that samples and minima expire | 269 000 |
| `control_reentry` (violation) | Is recovery entered once per episode? | the `lossy` path | |
| `server` | Is each connection offered once and reaped, across failed sends and reused 4-tuples? | two 4-tuples, two accepts, one failed send, one byte sent | 55 000 |
| `loop` | Do answers match the stream and reach the wire unchanged, are cookies genuine, is memory bounded, are half-closes answered, does held data leave? | `pipelined`, `headers`, `split`: HTTP cut anywhere, in segments of at most three tokens; `echo`: a window that closes, resends, reaper; `paced`: three echoed tokens, pacing and a window that closes; `flood`: two clients, a backlog of one, two cookies, four ticks with counter bits that wrap at three and a counter that wraps at nine | 81 000 |
| `loop_http` (violation) | Is every response on the wire before the FIN? | the `pipelined` scenario | |

Properties are commented where they are defined. Those worth arguing about:
`NothingForgotten` relates the peer's reassembly buffer to the sender's queue
and is what SACK marks, partial ACKs and the early return after a fast
retransmit must not break. `PawsSparesNeeded` relates queued packets, whose
timestamps are frozen, to the peer's TS.Recent. `EofIsComplete` relates the
close states of the two sides. `FilterIsWindowMax` compares BBR's deque with all
the samples of the window. `AnswersMatchStream` compares what the loop wrote with
what the stream is owed from the first recognised request on, however the rest was
cut; `WireMatchesWritten` compares what was written with the queued packets and
`send_buf`, through Nagle, pacing and the zero-window probe. `AnnouncedIsReachable`
speaks of the present connection of a 4-tuple, so that a handle given out for an
earlier one does not count. `HalvesCloseIndependently` and `ImplementsByteStream`
are refinements.

Type correctness is stated once for the connection (`TypeOK`, proved) and for the
estimator (in `ControlProofs`); the other modules keep their connections in the same
records.

Deadlock is checked in every run. Each kind of fault occurs at most as often as
the table says, and every pair of faults that a single fault can lead into (a
loss, then the resend's ACK crossing a close) is reached. Two losses in
`pair_liveness` (120 220 states) and two bytes in `duplicates` gave the same
results; larger values are beyond TLC's time.

**Fairness** (only for the liveness questions). `TcpPair!Fairness`: both sides
keep entering and leaving `poll`, which is what `read`, `flush`, `accept` and
the loops of the repository's tests do; a datagram that stays available is
read at some poll, because `poll` reads until the transport is empty; and the
RTO of an unacknowledged hole fires at some poll, because `rto()` is bounded
(theorem `RtoBounds`). The last two are strong fairness, since the model can
take those steps only in one phase of `poll`. The applications (`Feed`,
`Close`) and the network's faults have none. TLC evaluates `ENABLED` of these
large actions too slowly, so the formula uses their guards (`Arriving`,
`Overdue`) instead.

`ServerFairSpec`: the application keeps polling and every batch of datagrams ends
(weak fairness of `PollTimers` and `PollEnd`); sends fail at most `MaxFaults`
times, since a transport that fails at every poll keeps `PollEnd` from being
reached in the code as well.

`LoopFairSpec`: time passes (`Clock`), and a client that uses keepalive keeps
acknowledging what it has. `main` transmits only when a segment of the connection
arrives, so `HeldDataLeaves` and `HalfCloseAnswered` are stated for such clients.
Data for a client that falls silent waits for ever; if its FIN came while pacing
held data, the connection stays in CLOSE_WAIT with nothing in flight until the idle
reaper ends it. `ReachesProbeBw` states its own premise, `Flowing`:
ACKs a round trip apart keep coming and timeouts stop.

### What the violations show

- `endpoint_window`: in SACK recovery `poll_transmit` bounds new data by the
  pipe (`src/tcp.rs` 1311) and not by SND.UNA + SND.WND. Data the peer has
  SACKed still occupies its buffer; with a window of four the model has five
  numbers in flight. The comment at 888 promises otherwise.
- `pair_lost_ack`: `on_segment` has no branch for TIME_WAIT, so a resent FIN is
  ignored and a peer in LAST_ACK resends for ever; `docs/doc5-book.md` 375 and
  `docs/doc7-book.md` 201 describe the opposite. That is why
  `TeardownCompletes` assumes that nothing is lost.
- `pair_accept_clock`: `TcpListener::accept` stamps the SYN-ACK with its own
  clock and returns a stream whose clock starts again (`src/socket.rs` 222, 231),
  so the peer's PAWS check discards what the stream sends until its clock has
  caught up, and a queued segment from that time for good.
- `control_reentry`: `on_dup_ack` enters recovery whenever the counter reaches the
  threshold (`src/congestion.rs` 130) and `on_partial_ack` sets the counter to
  zero without leaving recovery, so further duplicate ACKs in the same episode
  cut the window again; `docs/doc20-book.md` 549 says that `in_recovery`
  prevents this. `RecoveryDeflates` and `WindowNeverCloses` hold all the same.
- `loop_http`: the response to a request that closes is written and `close` is
  called in the same turn (`src/main.rs` 281). If an earlier response is
  unacknowledged, Nagle holds the last one, `close` sends the FIN, and the
  response is never sent; the comment at 279 says "once it's on the wire". The
  echo path closes only with an empty `send_buf` (`src/main.rs` 290).

### Other disagreements met while modelling

The models contain these behaviours; no run is devoted to them, and the properties
are worded so that they do not deny them.

- `TcpServer` announces what is ESTABLISHED at the end of a batch (`src/socket.rs`
  319). A connection whose handshake ACK and FIN are read in one batch is in
  CLOSE_WAIT by then and is never announced: the application never gets its handle
  and nothing but the idle reaper closes it. `docs/doc29-book.md` 119 says "a
  connection appears in `backlog` exactly once, the first poll after it reaches
  ESTABLISHED", and 487 the same. `EstablishedIsOffered` speaks of connections that
  stay ESTABLISHED.
- `looks_like_request` looks at the bytes delivered at once (`src/main.rs` 233): a
  method that TCP cuts in two is echoed, and so is the rest of that request.
  `src/http.rs` 3-8 and `src/main.rs` 222-226 describe a responder that no longer
  depends on the first segment ("buffer until the blank line").
  `AnswersMatchStream` starts at the first request that was recognised.
- A peer that has forgotten the connection answers a resent packet with a RST at the
  ACK number that packet was first sent with. If RCV.NXT has moved since, the RST lies
  below it and `on_rst` drops it (`src/tcp.rs` 778-785); only a packet with the present
  ACK draws one that is honoured. `docs/doc19-book.md` 418 says that a legitimate RST
  "will always carry the exact next-expected sequence number".

## 4. Proofs

Every theorem holds for every value of the constants that meets the named
`ASSUME`s, which TLC evaluates on the runs. `ConnectionProofs` holds what several
modules need: one lemma per method of the connection, on its type, on the states
it moves between (`Effect`, `Quiet`), on the fields it leaves alone (`Kept`,
`Follows`, `Answers`) and on what it does to the retransmission queue (`Queued`).

### The connection: `TcpEndpointProofs`

For every `Half > 0`, every window, MSS, threshold and every set of incoming
segments:

- `TypeCorrect`: `Spec => []TypeOK`. The invariant is inductive once it says that
  the reassembler holds finitely many fragments (`IsFiniteSet(conn.reasm.frags)`):
  the length of a delivered run is a cardinality, and it is a natural number
  only for finite sets;
- `StateMeansFinsHolds`: `Spec => []StateMeansFins`;
- `NothingAfterFinHolds`: `Spec => NothingAfterFin`;
- `UnaAdvancesHolds`: `Spec => UnaAdvances`;
- `HalvesCloseIndependentlyHolds`: `Spec => HalvesCloseIndependently`, the
  refinement of `HalfClose`;
- `WindowRespectedHolds`: `Spec => WindowRespectedOutsideRecovery`;
- `FlightIsQueuedHolds`: `Spec /\ []Outstanding => []FlightIsQueued`, where
  `Outstanding` says that what is in flight, what waits in `send_buf` and a FIN fit in
  half the circle;
- `ShortStreamQueued`: `Spec => []FlightIsQueued` when less than half the circle is
  written altogether (`ShortStreams`, which the run `endpoint` satisfies).

The second to fifth share one argument. `Effect(c, d)` states what one method may
do to the state, `peer_fin`, SND.UNA, SND.NXT and the queue: an edge of the state
diagram (`Moves`), a forward move of SND.UNA, no new entry once our FIN is out, no
entry lost while it is unacknowledged. A lemma per method shows that it has an
`Effect`; `on_tick` runs four timers in one call, so each is shown `Quiet` and
`Quiet` is transitive. The inductive invariant is `TeardownInv`: `StateMeansFins`,
which the refinement needs to know that a FIN is taken in only once, and
`SynInFlight` (during the handshake SND.NXT = SND.UNA + 1), without which the
jump of SND.UNA to SND.NXT that ends the handshake could not be called forward.
`WindowRespectedHolds` needs no invariant but the type: it is about what
`poll_transmit` may take, and the work is in the wrap (SND.NXT moves by at most
the usable window, and the subtraction on the circle still measures it).

The last two rest on `Queued(c)`, which says of positions on the circle what
`FlightIsQueued` says of sets of numbers: no number belongs to two entries, an entry
is not empty and shorter than half the circle, every number from SND.UNA to SND.NXT
belongs to one until our half is finished, and while ACKs are processed in full every
entry ends in flight. The length bound is the strengthening: `ack` drops an entry by
comparing its end with SEG.ACK, and `before` orders two numbers only if they are less
than half the circle apart. An ACK is a change of origin (`AckPositions`), new data
are entries that tile the numbers after SND.NXT (`Tiles`, kept by `AppendQueued`;
`PiecesTile` shows it for the cuts of `SendBytes` at multiples of the MSS), SACK marks
and retransmissions change no range (`MarksQueued`), and a lemma per method puts
them together up to `OnSegmentQueued` and `OnTickQueued`. `Outstanding` cannot be
dropped: nothing in the code bounds `send_buf`, and in SACK recovery (section 3) not
even the window bounds the flight. It is 2^31 bytes in the code. `ShortStreamQueued`
discharges it with one more invariant, `Light`: what is in flight and in the buffer
is never more than what was written, the SYN and the FIN. TLC checked `Queued(conn)`,
`Light` and `Outstanding` on the states of `endpoint` before they were proved.

### Two streams: `PairProofs`

For every circle, window, MSS and threshold, every pair of initial sequence numbers,
every scenario and any number of losses, duplicates, reorderings and early timers:

- `StreamIntegrityHolds`: `Spec => []StreamIntegrity`;
- `SequenceAgreementHolds`: `Spec => []SequenceAgreement`;
- `EofIsCompleteHolds`: `Spec => []EofIsComplete`;
- `NothingForgottenHolds`: `Spec => []NothingForgotten`;
- `PawsSparesNeededHolds`: `Spec => []PawsSparesNeeded`, if moreover the listener and
  the stream it accepts have the same clock (`OneClock`);
- `ImplementsByteStreamHolds`: `Spec => ImplementsByteStream`, the refinement of
  `ByteStream`.

They assume `ShortStreams`: each application writes less than half the sequence space,
less three (2^31 bytes in the code; every scenario of the runs satisfies it). Over a
longer stream a datagram delayed for ever could come back as a new one, which only
the segment lifetime of a real network and PAWS rule out.

None of the properties is inductive: what the receiver delivers next depends on every
datagram still under way and on every packet that may be sent again. The invariant
`PairInv` says of each way, as `Direction`, in positions relative to the sender's
initial sequence number:

- `Sending`: the buffer holds the bytes of the stream after the first `S`, and SND.NXT
  is `S + 1`, or `S + 2` once the FIN is out;
- `Genuine`: every datagram under way and every queued packet lies in the stream: its
  bytes are the ones at its position, its FIN is at `S + 1`, its SYN at 0;
- `Acked`: none of them acknowledges beyond what its sender has received, so no late
  or repeated ACK moves SND.UNA past the other side's RCV.NXT;
- `Receiving`: the receiver has delivered the first bytes of the stream, its fragments
  are pieces of it, and a pending FIN is the stream's.

TLC checked `PairInv` on the 800 764 states of `pair` before it was proved. The proof
has two halves. The first says what a method does in these terms, whatever the
connection: `Ingests` for `on_segment` (what may become of the receive side, the
queue, the state, and what is answered), `Emits` and `EmitsFin` for `on_tick`,
`poll_transmit` and `close` (which bytes of the buffer leave, cut how). The second is
about the pair: a step of one side is a step of the sender in one `Direction`
(`SenderStep`) and of the receiver in the other (`ReceiverStep`), and `RecvRight`
shows that `recv` of a genuine segment delivers the stream's next bytes. For the
refinement each action is `Calm`, `Outward` (a Send or an End) or `Inward` (a Receive)
as `ByteStream` sees it.

`NothingForgotten` needs more than `PairInv`: a false SACK block could hide a hole
from the timers, and a block could cover an entry of which the peer holds only a part.
The second invariant, `Trust` (`Reliable` for each way), says:

- the queue covers everything between SND.UNA and SND.NXT (`Queued`, proved for one
  connection in `ConnectionProofs`);
- every queue entry marked as SACKed (`Entry`) and every SACK block under way
  (`Block`) is about positions the peer holds; a receiver never gives up what it
  holds (`Keeps`), so blocks stay true however late they come;
- queued packets, datagrams and the peer's fragments overlap exactly or not at all
  (`Alike`, `Fits`), because a retransmission resends the packet it sent first; this
  is why `recv`, which never splits a fragment, never throws away half of one.

TLC checked `Trust` on the same states before it was proved.

`PawsSparesNeeded` rests on both and on a third invariant, `InTime` (`Timely` for each
way), also checked by TLC: no segment is stamped later than its sender's clock; one
that starts at or before a queued packet has no later stamp than that packet; and
TS.Recent is no later than the stamp of any queued packet from RCV.NXT on. The last part
holds because `on_segment` takes TS.Recent only from a segment that starts at or below
RCV.NXT, and a new packet starts at SND.NXT or beyond and is stamped with the present.
Pure ACKs, which have a late stamp and a late position, are why the order of the
positions has to be in the invariant. `OneClock` says that `listened` is 0 in every
scenario: it holds when `poll_accept` and the stream get the same clock from the
caller. With the clock of its own that the blocking `accept` uses it fails, and the
property with it, as the run `pair_accept_clock` shows.

### The receiver: `ReceiverProofs`

For every circle, every stream shorter than half of it, every way to cut it and
every order, repetition and overlap of arrivals on those cuts:

- `ReceiverInvariant`: `Spec => []ReceiverInv`. The buffered fragments are pieces
  of the stream that begin and end at cuts, do not overlap and lie beyond what was
  delivered; none begins at RCV.NXT; what arrived is what was delivered and what
  is buffered. The third part is what makes delivery prompt, and the first is why
  `recv`, which never splits a fragment, loses nothing;
- `DeliveryHolds`: `Spec => []DeliversUnbrokenPrefix`;
- `SackBlocksHold`: `Spec => []SackBlocksAreMaximal`.

`recv` and `sack_blocks` are set comprehensions over offsets in the model, so no
induction over data is needed: where the code walks a list, the proof takes the
least offset outside a run (natural numbers are well founded, in the form of a
set with a least member) and shows that the run ends there.

### Estimation and congestion control: `ControlProofs`

For all samples, floors, ceilings and back-off limits, in every connection and under
either controller:

- `RttType`: `Spec => []TypeOK`, the values stay natural (no underflow in the shifts);
- `RtoBounds`: `ControlSpec => []RtoInBounds`, from `RttType` and the invariant that
  the back-off factor is at least 1;
- `RtoHolds`: `ControlSpec => BackOffHolds`; the factor only grows between samples
  (needs the strengthening that it never exceeds its limit);
- `SmoothedHolds`: `ControlSpec => []SmoothedWithinSamples`; one step of the weighted
  mean cannot leave the range by more than its own truncation.

The last three are first proved of an estimator on its own (`RttEstimator!Spec`);
the lemma `EstimatorStep` carries them over to a connection.

For every segment size, integer width, threshold, every value of the curve, every
set of acknowledgements and every length of BBR's filter:

- `WindowHolds`: `ControlSpec => []WindowNeverCloses`;
- `EpochHolds`: `ControlSpec => []EpochOnlyInAvoidance`;
- `RecoveryDeflatesHolds`: `ControlSpec => RecoveryDeflates`;
- `FilterHolds`: `ControlSpec => []FilterIsWindowMax`;
- `ModeHolds`: `ControlSpec => []ModeMeansPipe`.

The invariant for CUBIC is `CubicInv`: besides the two floors, every field is a
u32, in recovery the threshold is at most the larger of `w_max` and two segments,
and an epoch implies avoidance. Without the bound on the threshold nothing would
be known about the window that a full ACK restores; without the widths the
wrapping sums could not be bounded from below. `ControlAssumption` asks that
`DupThresh + 2` segments and a tenth of the range fit in the integer, which a
u32 does by far: an inflated window may wrap, a reduced one may not.

The invariant for BBR is `BbrInv`. `Filters(dq, seen)` says that from front to back
of the deque rates fall and samples get no older, that every entry was seen, and
that every sample in the window has an entry no older and no smaller. The last
part is what `update` keeps: the samples it drops at the back are dominated by the
new one, those it drops at the front have left the window. `ModeOK` and `FloorOK`
are `ModeMeansPipe` with the types of the gains, the cycle index and RTprop, on
which the next mode and window are computed.

### The server: `ServerProofs`

For any number of peers, any segments, any order of the hash table and any
failures:

- `OfferedOnceHolds`: `ServerSpec => []OfferedOnce`. `OfferInv` adds only the
  types: a 4-tuple enters the table with a count of zero and leaves `announced` in
  the step in which it leaves the table;
- `AnnouncedIsReachableHolds`: `ServerSpec => []AnnouncedIsReachable`. `ReachInv`
  adds that the table is finite: the connections a poll announces are appended in
  some order, and only of a finite set is that a sequence that names each. `OfferInv`
  contributes that only rows of the table are announced, so that a 4-tuple that is
  opened again and leaves `given` is not announced at that moment.

### The event loop: `LoopProofs`

For every backlog, number of peers, script, MSS table and cookie counter:

- `TableIsBoundedHolds`: `LoopSpec => []TableIsBounded`;
- `CookieIsGenuineHolds`: `LoopSpec => []CookieIsGenuine`.

`LoopInvariant` proves `LoopInv`: the two together with `RowsInv`, the shape of every
row of the table. They are proved together because a packet for an existing
connection touches all of them in one step. `Later(c, d)` says what a row may become:
it stays alive, keeps the initial sequence numbers by which a cookie is recognised,
and never returns to SYN_RCVD. Assumed of the constants: the MSS table ascends, as
`COOKIE_MSS_TABLE` does, the MAC and counter ranges are not empty, the counter does not
come back to a value it had in the run (`MaxTick + 2 < CounterMod`; 2^32 ticks of a
minute in the code), and the keyed hash does not collide on the handshakes of a run
(`CookieAssumption`).

### Only model-checked

- Liveness, and everything that needs fairness: out of the prover's reach.
- `AnswersMatchStream`: it compares the serving loop, a recursive function over the
  buffer (`Serve`), with one over the whole stream (`Owed`); that the two agree is an
  induction over data.
- `WireMatchesWritten`: what `poll_transmit` cuts is proved for two streams
  (`PairProofs`, `Genuine`); here the bytes come from the serving loop as well.

## 5. Not modelled, and why

- Wire format, checksums, ports, UDP, ICMP, IPv4: conversions without state. A
  segment holds what `parse` extracts and the state machine looks at.
- Ethernet and ARP: placeholders of nine lines.
- The value of the cubic curve and of BBR's divisions in floating point: an input,
  and scaled integers.
- The keyed hash of the cookies: a constant without collisions. Cookies altered on
  their way back.
- Senders that cut a stream anew when they retransmit: `receiver` keeps the cuts
  fixed, as this stack's verbatim retransmission does, so that fragments never
  overlap in part (`src/reassembly.rs` 71, listed as a hazard).
- `read`, `flush` and blocking `accept`: loops around `poll`; only the clocks of
  `accept` matter and are in `PollAccept`. They have no way out when the
  connection dies (`src/socket.rs` 142), which is listed as a hazard.
- The exchange of RSTs between two hosts that both know no connection
  (`src/main.rs` 353): the reply has no state; listed as a hazard.
- Old segments that set SND.WND back (`src/tcp.rs` 895): `endpoint` contains them,
  and no promise of the code is broken by a smaller or larger window that the
  next segment corrects.
- Failing transports of a single `TcpStream`: the error ends the caller's loop.
  Those of `TcpServer` are modelled.

## 6. Plan

1. Done: connection, queue, reassembly, RTO, two streams, congestion control,
   server, cookies, event loop, HTTP; the theorems of section 4.
2. Every safety invariant of the runs is a theorem but `AnswersMatchStream`, which
   waits for a prover that can do induction over data, and `WireMatchesWritten`.
3. The persist timer against a receiver that closes its window: `PersistTick` is
   modelled; a liveness question about it needs a peer whose window follows its
   application.
