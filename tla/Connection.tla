----------------------------- MODULE Connection -----------------------------
(***************************************************************************)
(* One TCP connection, the Connection struct of src/tcp.rs, as operators   *)
(* on a record: each method takes the connection and its inputs and gives  *)
(* the connection after the call and the packets it returns.               *)
(*                                                                         *)
(* Time is abstracted to timer outcomes: on_tick is told which timers have *)
(* elapsed.  The clock survives only as the timestamp `now' that a sender  *)
(* stamps and PAWS compares.  Of congestion control the duplicate-ACK      *)
(* counter and the recovery flag are exact and cwnd is an input of         *)
(* poll_transmit.  The reassembled bytes that a call appends to recv_buf   *)
(* are part of its result; the module that owns the connection keeps them. *)
(***************************************************************************)
EXTENDS Reassembler, RetxQueue

CONSTANTS
    RcvWnd,        \* the receive window every segment advertises: 1024 in the code
    Mss,           \* the effective send MSS, min of ours and the peer's
    MaxSackBlocks, \* SACK blocks that fit in one ACK: 3 in the code
    KeepaliveProbes \* unanswered keepalive probes that reap a connection: 3

ASSUME ConnectionAssumption ==
    /\ RcvWnd \in Nat /\ RcvWnd > 0
    /\ Mss \in Nat /\ Mss > 0
    /\ MaxSackBlocks \in Nat
    /\ KeepaliveProbes \in Nat

State == {"SynSent", "SynRcvd", "Established", "CloseWait", "LastAck",
          "FinWait1", "FinWait2", "Closing", "TimeWait", "Closed"}

\* States in which both ISNs are fixed (is_synchronized).
Synchronized == State \ {"SynSent", "SynRcvd", "Closed"}

\* States in which our send side is open.
SendOpen == {"Established", "CloseWait"}

NoFin == -1   \* pending_fin: None

Connection ==
    [state : State, iss : SeqNum, una : SeqNum, nxt : SeqNum, wnd : Nat, max_snd_wnd : Nat,
     rcv_nxt : SeqNum, reasm : Reasm, retx : SUBSET Unacked, send_buf : Seq(Byte),
     nagle : BOOLEAN, ts_enabled : BOOLEAN, ts_recent : SeqNum, sack_ok : BOOLEAN,
     peer_fin : BOOLEAN, pending_fin : SeqNum \cup {NoFin},
     dup_acks : 0 .. DupThresh + 1, in_recovery : BOOLEAN, recover : SeqNum,
     persist : BOOLEAN, keepalive_enabled : BOOLEAN, keepalive_probes_sent : 0 .. KeepaliveProbes]

\* What a method returns: the connection, packets to send, bytes for recv_buf.
Result(c, out) == [tcb |-> c, out |-> out, data |-> << >>]

\* segment, with the Timestamps option once it is negotiated.
segment(c, seq, ackno, flags, data, now) ==
    [seq |-> seq, ack |-> ackno, flags |-> flags, window |-> RcvWnd,
     opts |-> IF c.ts_enabled THEN {"TS"} ELSE {},
     tsval |-> IF c.ts_enabled THEN now ELSE 0, sack |-> {}, data |-> data]

\* A bare ACK of the current state, also the challenge ACK of RFC 5961.
AckNow(c, now) == segment(c, c.nxt, c.rcv_nxt, {"ACK"}, << >>, now)

\* ack_options: the lowest MaxSackBlocks buffered ranges ride on a data ACK.
SackAckNow(c, now) ==
    LET blocks == sack_blocks(c.reasm)
        Rank(b) == Cardinality({d \in blocks : wrapping_sub(d.left, c.reasm.base)
                                                 < wrapping_sub(b.left, c.reasm.base)})
    IN  [AckNow(c, now) EXCEPT !.sack =
            IF c.sack_ok THEN {b \in blocks : Rank(b) < MaxSackBlocks} ELSE {}]

flight_size(c) == wrapping_sub(c.nxt, c.una)

-----------------------------------------------------------------------------
(* Opening and closing *)

\* The fields every constructor sets alike.
NewConnection(state, iss, una, rcv_nxt, opts, tsval) ==
    [state |-> state, iss |-> iss, una |-> una, nxt |-> wrapping_add(iss, 1),
     wnd |-> RcvWnd, max_snd_wnd |-> RcvWnd, rcv_nxt |-> rcv_nxt,
     reasm |-> NewReassembler(rcv_nxt), retx |-> {}, send_buf |-> << >>,
     nagle |-> TRUE, ts_enabled |-> "TS" \in opts, ts_recent |-> tsval,
     sack_ok |-> "SACKP" \in opts, peer_fin |-> FALSE, pending_fin |-> NoFin,
     dup_acks |-> 0, in_recovery |-> FALSE, recover |-> iss, persist |-> FALSE,
     keepalive_enabled |-> FALSE, keepalive_probes_sent |-> 0]

\* Queue a packet that occupies [start, start + len) and has just been sent.
Sent(c, start, len, pkt) ==
    [c EXCEPT !.nxt = wrapping_add(start, len),
              !.retx = record(@, start, wrapping_add(start, len), pkt)]

(***************************************************************************)
(* connect: SYN_SENT and a SYN that offers timestamps and SACK.  The       *)
(* peer's sequence space is unknown, hence RCV.NXT = 0.                    *)
(***************************************************************************)
connect(iss, now) ==
    LET c   == NewConnection("SynSent", iss, iss, 0, {}, 0)
        syn == [segment(c, iss, 0, {"SYN"}, << >>, now) EXCEPT
                   !.opts = Option, !.tsval = now]
    IN  Result(Sent(c, iss, 1, syn), {syn})

\* Mutant: the SYN-ACK is sent but not queued for retransmission.
accept_unrecorded(s, iss, now) ==
    LET c == NewConnection("SynRcvd", iss, iss, wrapping_add(s.seq, 1), s.opts, s.tsval)
    IN  Result(c, {[segment(c, iss, c.rcv_nxt, {"SYN", "ACK"}, << >>, now) EXCEPT
                       !.opts = s.opts]})

(***************************************************************************)
(* accept: SYN_RCVD and a SYN-ACK that echoes the options the SYN offered. *)
(* The caller makes sure that s has its SYN flag set.                      *)
(***************************************************************************)
accept(s, iss, now) ==
    LET c == NewConnection("SynRcvd", iss, iss, wrapping_add(s.seq, 1), s.opts, s.tsval)
        synack == [segment(c, iss, c.rcv_nxt, {"SYN", "ACK"}, << >>, now) EXCEPT
                      !.opts = s.opts]
    IN  Result(Sent(c, iss, 1, synack), {synack})

\* from_syn_cookie: ESTABLISHED at once, no option survives, nothing queued.
from_syn_cookie(peer_isn, cookie) ==
    NewConnection("Established", cookie, wrapping_add(cookie, 1),
                  wrapping_add(peer_isn, 1), {}, 0)

\* Mutants: the FIN is not queued; close has no guard on the state.
close_unrecorded(c, now) ==
    IF c.state \in SendOpen
    THEN Result([c EXCEPT !.nxt = wrapping_add(@, 1),
                          !.state = IF @ = "Established" THEN "FinWait1" ELSE "LastAck"],
                {segment(c, c.nxt, c.rcv_nxt, {"FIN", "ACK"}, << >>, now)})
    ELSE Result(c, {})

close_unguarded(c, now) ==
    LET fin == segment(c, c.nxt, c.rcv_nxt, {"FIN", "ACK"}, << >>, now)
    IN  Result([Sent(c, c.nxt, 1, fin) EXCEPT
                   !.state = IF c.state = "Established" THEN "FinWait1" ELSE "LastAck"], {fin})

\* close: our FIN, legal only while the send side is open.
close(c, now) ==
    LET fin == segment(c, c.nxt, c.rcv_nxt, {"FIN", "ACK"}, << >>, now)
    IN  IF c.state \in SendOpen
        THEN Result([Sent(c, c.nxt, 1, fin) EXCEPT
                        !.state = IF c.state = "Established" THEN "FinWait1" ELSE "LastAck"],
                    {fin})
        ELSE Result(c, {})

-----------------------------------------------------------------------------
(* Receiving a segment *)

\* RFC 5961 section 5: SND.UNA - MAX.SND.WND <= SEG.ACK <= SND.NXT.
ack_acceptable(c, ackno) ==
    /\ ~before(ackno, wrapping_sub(c.una, c.max_snd_wnd))
    /\ ~after(ackno, c.nxt)

in_window(c, seq) ==
    /\ ~before(seq, c.rcv_nxt)
    /\ before(seq, wrapping_add(c.rcv_nxt, RcvWnd))

\* A challenge ACK, unless this second's randomized budget is spent.
maybe_challenge(c, throttled, now) ==
    Result(c, IF throttled THEN {} ELSE {AckNow(c, now)})

\* SEG.ACK = SND.NXT: everything we sent, our SYN or FIN included, is acknowledged.
AcksNxt(c, s) == "ACK" \in s.flags /\ s.ack = c.nxt

(***************************************************************************)
(* on_rst (RFC 5961 section 3): honoured only at exactly RCV.NXT, or, in   *)
(* SYN_SENT, when it acknowledges our SYN; never in TIME_WAIT (RFC 1337).  *)
(***************************************************************************)
on_rst(c, s, throttled, now) ==
    LET reset  == [c EXCEPT !.state = "Closed"]
        honour == IF c.state = "SynSent" THEN AcksNxt(c, s)
                  ELSE c.state # "TimeWait" /\ s.seq = c.rcv_nxt
        probed == c.state \notin {"SynSent", "TimeWait"} /\ in_window(c, s.seq)
    IN  IF honour THEN Result(reset, {})
        ELSE IF probed THEN maybe_challenge(c, throttled, now)
        ELSE Result(c, {})

\* The SYN_SENT branch of on_segment: the SYN-ACK we are waiting for.
OnSynSent(c, s, now) ==
    LET rcv_nxt == wrapping_add(s.seq, 1)
        est == [c EXCEPT !.rcv_nxt = rcv_nxt,
                         !.reasm = NewReassembler(rcv_nxt),
                         !.una = s.ack,
                         !.retx = ack(@, s.ack),
                         !.ts_enabled = @ \/ "TS" \in s.opts,
                         !.ts_recent = IF "TS" \in s.opts THEN s.tsval ELSE @,
                         !.sack_ok = @ \/ "SACKP" \in s.opts,
                         !.state = "Established"]
    IN  IF "SYN" \in s.flags /\ AcksNxt(c, s)
        THEN Result(est, {AckNow(est, now)})
        ELSE Result(c, {})

\* Mutant: every payload is taken for the next one.
DeliverUnordered(c, s) ==
    [Result([c EXCEPT !.rcv_nxt = wrapping_add(@, Len(s.data))], {}) EXCEPT !.data = s.data]

\* Feed the payload to the reassembler and advance RCV.NXT by what it delivers.
DeliverData(c, s) ==
    LET d == recv(c.reasm, s.seq, s.data, c.rcv_nxt)
    IN  [Result([c EXCEPT !.reasm = d.reasm,
                          !.rcv_nxt = wrapping_add(@, Len(d.out))], {})
            EXCEPT !.data = d.out]

\* Consume the peer's FIN at RCV.NXT and go to state next.
ConsumeFin(c, next) ==
    [c EXCEPT !.rcv_nxt = wrapping_add(@, 1), !.peer_fin = TRUE, !.state = next]

\* A FIN, on this segment or deferred from an earlier one, is next in order.
FinDue(c) == c.state = "Established" /\ c.pending_fin = c.rcv_nxt

(***************************************************************************)
(* ESTABLISHED and CLOSE_WAIT, payload and FIN: deliver, note where the    *)
(* FIN sits, honour it once RCV.NXT has reached it, acknowledge data.      *)
(***************************************************************************)
OnOpenData(c, s, now) ==
    LET d   == DeliverData(c, s)
        fin == "FIN" \in s.flags
        c1  == d.tcb
        c2  == IF fin /\ c1.state = "Established" /\ ~before(fin_seq(s), c1.rcv_nxt)
               THEN [c1 EXCEPT !.pending_fin = fin_seq(s)] ELSE c1
        c3  == [ConsumeFin(c2, "CloseWait") EXCEPT !.pending_fin = NoFin]
        Reply(cc, out) == [d EXCEPT !.tcb = cc, !.out = out]
    IN  IF fin /\ c1.state = "CloseWait" /\ ~after(fin_seq(s), c1.rcv_nxt)
        THEN Reply(c1, {AckNow(c1, now)})
        ELSE IF FinDue(c2)
        THEN Reply(c3, {AckNow(c3, now)})
        ELSE Reply(c2, IF s.data = << >> THEN {} ELSE {SackAckNow(c2, now)})

\* Resend the lowest hole at once; with nothing to resend, go on to the data.
FastRetransmitOr(c, s, now) ==
    LET R == FirstHole(c.retx)
    IN  IF R = {} THEN OnOpenData(c, s, now)
        ELSE Result([c EXCEPT !.retx = Resend(@, R)], {r.pkt : r \in R})

\* Mutant: an old ACK counts as a new one.
AcksAtMostNxt(c, ackno) == ~after(ackno, c.nxt)

\* SND.UNA < SEG.ACK <= SND.NXT.
AcksNewData(c, ackno) == between(c.una, ackno, c.nxt)

(***************************************************************************)
(* An acceptable ACK: new data acknowledged (a partial ACK in recovery     *)
(* resends the next hole), a duplicate ACK (the DupThresh-th starts a      *)
(* recovery), or neither.                                                  *)
(***************************************************************************)
OnOpenAck(c, prev_wnd, s, now) ==
    LET acked   == [c EXCEPT !.una = s.ack, !.retx = ack(@, s.ack), !.dup_acks = 0]
        partial == c.in_recovery /\ before(s.ack, c.recover)
        dup     == /\ s.ack = c.una /\ c.una # c.nxt /\ s.data = << >>
                   /\ s.window = prev_wnd /\ s.window # 0
        count   == IF c.dup_acks > DupThresh THEN c.dup_acks ELSE c.dup_acks + 1
        counted == [c EXCEPT !.dup_acks = count]
    IN  IF AcksNewData(c, s.ack)
        THEN IF partial
             THEN FastRetransmitOr(acked, s, now)
             ELSE OnOpenData([acked EXCEPT !.in_recovery = FALSE], s, now)
        ELSE IF dup /\ count = DupThresh
        THEN FastRetransmitOr([counted EXCEPT !.in_recovery = TRUE, !.recover = c.nxt], s, now)
        ELSE OnOpenData(IF dup THEN counted ELSE c, s, now)

\* Mutant: every timestamp becomes TS.Recent.
AnyTimestamp(c, s) == TRUE

\* Only a segment at or below RCV.NXT updates TS.Recent.
UpdatesTsRecent(c, s) == ~after(s.seq, c.rcv_nxt)

(***************************************************************************)
(* ESTABLISHED and CLOSE_WAIT: PAWS, the window update, ACK acceptability, *)
(* SACK blocks, then the ACK and the data.                                 *)
(***************************************************************************)
OnOpen(c, s, throttled, now) ==
    LET ts    == c.ts_enabled /\ "TS" \in s.opts
        fresh == [c EXCEPT
                    !.ts_recent = IF ts /\ UpdatesTsRecent(c, s) THEN s.tsval ELSE @,
                    !.wnd = s.window,
                    !.max_snd_wnd = IF s.window > @ THEN s.window ELSE @]
        marked == IF c.sack_ok THEN [fresh EXCEPT !.retx = mark_sacked(@, s.sack)] ELSE fresh
    IN  IF ts /\ before(s.tsval, c.ts_recent) THEN Result(c, {AckNow(c, now)})
        ELSE IF "ACK" \notin s.flags THEN OnOpenData(fresh, s, now)
        ELSE IF ack_acceptable(fresh, s.ack) THEN OnOpenAck(marked, c.wnd, s, now)
        ELSE maybe_challenge(fresh, throttled, now)

\* Mutant: the FIN flag alone, wherever the FIN sits.
FinFlagged(c, s) == "FIN" \in s.flags

FinInOrder(c, s) == "FIN" \in s.flags /\ fin_seq(s) = c.rcv_nxt

(***************************************************************************)
(* The active-close states.  Our FIN is acknowledged by SEG.ACK = SND.NXT; *)
(* the peer's FIN counts only when it is in order on this very segment.    *)
(***************************************************************************)
OnFinWait(c, s, now) ==
    LET finAcked == c.state = "FinWait1" /\ AcksNxt(c, s)
        c0 == IF finAcked THEN [c EXCEPT !.retx = ack(@, s.ack)] ELSE c
        d  == DeliverData(c0, s)
        c1 == d.tcb
        c2 == ConsumeFin(c1, IF finAcked \/ c.state = "FinWait2" THEN "TimeWait" ELSE "Closing")
        c3 == IF finAcked THEN [c1 EXCEPT !.state = "FinWait2"] ELSE c1
    IN  IF FinInOrder(c1, s)
        THEN [d EXCEPT !.tcb = c2, !.out = {AckNow(c2, now)}]
        ELSE [d EXCEPT !.tcb = c3, !.out = IF s.data = << >> THEN {} ELSE {AckNow(c3, now)}]

\* Mutant: CLOSING is forgotten.
OnLastAckOnly(c, s) ==
    Result(IF c.state = "LastAck" /\ AcksNxt(c, s) THEN [c EXCEPT !.state = "Closed"] ELSE c, {})

\* LAST_ACK and CLOSING: only the ACK of our FIN matters.
OnFinAckOnly(c, s) ==
    Result(IF AcksNxt(c, s)
           THEN [c EXCEPT !.retx = ack(@, s.ack),
                          !.state = IF c.state = "LastAck" THEN "Closed" ELSE "TimeWait"]
           ELSE c, {})

OnSynchronized(c, s, throttled, now) ==
    CASE c.state \in SendOpen -> OnOpen(c, s, throttled, now)
      [] c.state \in {"FinWait1", "FinWait2"} -> OnFinWait(c, s, now)
      [] c.state \in {"LastAck", "Closing"} -> OnFinAckOnly(c, s)
      [] OTHER -> Result(c, {})

\* The final ACK of a passive open; it may carry data, so processing goes on.
OnSynRcvd(c, s, throttled, now) ==
    IF AcksNxt(c, s)
    THEN OnSynchronized([c EXCEPT !.una = s.ack, !.retx = ack(@, s.ack),
                                  !.state = "Established"], s, throttled, now)
    ELSE Result(c, {})

(***************************************************************************)
(* on_segment: the whole handler, in the order of its early returns.       *)
(***************************************************************************)
on_segment(c0, s, throttled, now) ==
    LET c == [c0 EXCEPT !.keepalive_probes_sent = 0]
    IN  IF "RST" \in s.flags THEN on_rst(c, s, throttled, now)
        ELSE IF c.state = "SynSent" THEN OnSynSent(c, s, now)
        ELSE IF "SYN" \in s.flags /\ c.state \in Synchronized
        THEN maybe_challenge(c, throttled, now)
        ELSE IF c.state = "SynRcvd" THEN OnSynRcvd(c, s, throttled, now)
        ELSE OnSynchronized(c, s, throttled, now)

-----------------------------------------------------------------------------
(* The application's side, transmission and timers *)

write(c, data) == [c EXCEPT !.send_buf = @ \o data]

set_nodelay(c, nodelay) == [c EXCEPT !.nagle = ~nodelay]

set_keepalive(c, on) == [c EXCEPT !.keepalive_enabled = on]

AtMost(a, b) == IF a < b THEN a ELSE b

\* Mutant: what is in flight already is not subtracted.
whole_window(c, cwnd) == AtMost(c.wnd, cwnd)

\* usable_window: min(SND.WND, cwnd) - FlightSize, never negative.
usable_window(c, cwnd) ==
    LET limit == AtMost(c.wnd, cwnd)
    IN  IF limit > flight_size(c) THEN limit - flight_size(c) ELSE 0

\* Mutant: segments go out without a copy in the retransmission queue.
SendBytesUnrecorded(c, n, now) ==
    LET Chunk(i) == SubSeq(c.send_buf, i * Mss + 1, AtMost(n, (i + 1) * Mss))
        Pkt(i)   == segment(c, wrapping_add(c.nxt, i * Mss), c.rcv_nxt, {"ACK"}, Chunk(i), now)
    IN  Result([c EXCEPT !.send_buf = SubSeq(@, n + 1, Len(@)),
                         !.nxt = wrapping_add(@, n)],
               {Pkt(i) : i \in {i \in 0 .. n - 1 : i * Mss < n}})

(***************************************************************************)
(* The first n queued bytes leave in segments of Mss bytes, the last one   *)
(* possibly shorter; each segment is recorded for retransmission.          *)
(***************************************************************************)
SendBytes(c, n, now) ==
    LET Chunk(i) == SubSeq(c.send_buf, i * Mss + 1, AtMost(n, (i + 1) * Mss))
        Start(i) == wrapping_add(c.nxt, i * Mss)
        Pkt(i)   == segment(c, Start(i), c.rcv_nxt, {"ACK"}, Chunk(i), now)
        Idx      == {i \in 0 .. n - 1 : i * Mss < n}
        Entry(i) == [start |-> Start(i), end |-> fin_seq(Pkt(i)), pkt |-> Pkt(i),
                     retried |-> FALSE, sacked |-> FALSE]
    IN  Result([c EXCEPT !.send_buf = SubSeq(@, n + 1, Len(@)),
                         !.nxt = wrapping_add(@, n),
                         !.retx = @ \cup {Entry(i) : i \in Idx}],
               {Pkt(i) : i \in Idx})

(***************************************************************************)
(* How many bytes the transmission loop sends outside recovery: all that   *)
(* the window admits, but with Nagle on a short last segment is held while *)
(* anything is in flight, that is unless it is the only one.               *)
(***************************************************************************)
Sendable(c, cwnd) ==
    LET avail == AtMost(usable_window(c, cwnd), Len(c.send_buf))
        tail  == avail % Mss
        alone == flight_size(c) = 0 /\ avail < Mss
    IN  IF c.nagle /\ ~alone THEN avail - tail ELSE avail

\* Mutant: no look at the state.
transmit_any_state(c, cwnd, now) == SendBytes(c, Sendable(c, cwnd), now)

(***************************************************************************)
(* poll_transmit.  In SACK recovery the pipe, not FlightSize, is what the  *)
(* window bounds: lost holes go first, then new data without Nagle.        *)
(***************************************************************************)
poll_transmit(c, cwnd, now) ==
    LET limit == AtMost(c.wnd, cwnd)
        lost  == LostWithin(c.retx, limit)
        c1    == [c EXCEPT !.retx = Resend(@, lost)]
        room  == IF limit > pipe(c1.retx) THEN limit - pipe(c1.retx) ELSE 0
        new   == SendBytes(c1, AtMost(room, Len(c.send_buf)), now)
    IN  IF c.state \notin SendOpen THEN Result(c, {})
        ELSE IF c.sack_ok /\ c.in_recovery
        THEN [new EXCEPT !.out = @ \cup {s.pkt : s \in lost}]
        ELSE SendBytes(c, Sendable(c, cwnd), now)

(***************************************************************************)
(* on_tick, given which timers have elapsed:                               *)
(*   t.expired   - 2 MSL in TIME_WAIT, or the idle limit of FIN_WAIT_2 or  *)
(*                 CLOSE_WAIT                                              *)
(*   t.resend    - the holes RACK, the tail loss probe or the RTO resends  *)
(*   t.rto       - whether one of them is an RTO                           *)
(*   t.persist   - the persist timer, if it is armed                       *)
(*   t.keepalive - the next keepalive probe is due                         *)
(***************************************************************************)
Expire(c, expired) ==
    IF expired /\ c.state \in {"TimeWait", "FinWait2", "CloseWait"}
    THEN [c EXCEPT !.state = "Closed"] ELSE c

Retransmit(c, R, rto) ==
    [c EXCEPT !.retx = Resend(@, R),
              !.dup_acks = IF rto THEN 0 ELSE @,
              !.in_recovery = @ /\ ~rto]

\* Mutant: the byte of the probe is left in send_buf.
PersistTickCopies(c, elapsed, now) ==
    LET shut  == c.state \in SendOpen /\ c.wnd = 0 /\ c.send_buf # << >> /\ flight_size(c) = 0
        probe == segment(c, c.nxt, c.rcv_nxt, {"ACK"}, SubSeq(c.send_buf, 1, 1), now)
    IN  IF shut /\ c.persist /\ elapsed
        THEN Result([Sent(c, c.nxt, 1, probe) EXCEPT !.persist = FALSE], {probe})
        ELSE Result([c EXCEPT !.persist = shut], {})

PersistTick(c, elapsed, now) ==
    LET shut  == c.state \in SendOpen /\ c.wnd = 0 /\ c.send_buf # << >> /\ flight_size(c) = 0
        probe == segment(c, c.nxt, c.rcv_nxt, {"ACK"}, SubSeq(c.send_buf, 1, 1), now)
    IN  IF shut /\ c.persist /\ elapsed
        THEN Result([Sent(c, c.nxt, 1, probe) EXCEPT !.send_buf = Tail(@), !.persist = FALSE],
                    {probe})
        ELSE Result([c EXCEPT !.persist = shut], {})

\* Mutant: one probe too many.
KeepaliveOneMore(c, due, now) ==
    IF due /\ c.keepalive_enabled /\ c.state = "Established" /\ flight_size(c) = 0
    THEN Result([c EXCEPT !.state = IF c.keepalive_probes_sent > KeepaliveProbes
                                    THEN "Closed" ELSE @,
                          !.keepalive_probes_sent = @ + 1], {})
    ELSE Result(c, {})

KeepaliveTick(c, due, now) ==
    LET idle  == /\ c.keepalive_enabled /\ c.state = "Established"
                 /\ flight_size(c) = 0 /\ c.send_buf = << >>
        probe == segment(c, wrapping_sub(c.nxt, 1), c.rcv_nxt, {"ACK"}, << >>, now)
    IN  IF ~(idle /\ due) THEN Result(c, {})
        ELSE IF c.keepalive_probes_sent >= KeepaliveProbes
        THEN Result([c EXCEPT !.state = "Closed"], {})
        ELSE Result([c EXCEPT !.keepalive_probes_sent = @ + 1], {probe})

on_tick(c, t, now) ==
    LET c1 == Retransmit(Expire(c, t.expired), t.resend, t.rto)
        p  == PersistTick(c1, t.persist, now)
        k  == KeepaliveTick(p.tcb, t.keepalive, now)
    IN  Result(k.tcb, {s.pkt : s \in t.resend} \cup p.out \cup k.out)

=============================================================================
