----------------------------- MODULE PairProofs -----------------------------
(***************************************************************************)
(* What is proved of two connections over a network that loses,            *)
(* duplicates and reorders: StreamIntegrity, SequenceAgreement,            *)
(* EofIsComplete, NothingForgotten, PawsSparesNeeded and the refinement of *)
(* ByteStream, for every Iss, every scenario whose streams are shorter     *)
(* than half the sequence space (ShortStreams) and every bound on the      *)
(* faults.                                                                 *)
(*                                                                         *)
(* The inductive invariant PairInv says of each way, with Direction, that  *)
(* the sender's buffer holds the rest of the stream (Sending), that every  *)
(* datagram on its way and every packet in the retransmission queue is a   *)
(* piece of it (Genuine) and acknowledges nothing the sender of it has not *)
(* received (Acked), and that the receiver has delivered a prefix and      *)
(* buffers pieces of the rest (Receiving).  The first sections say what    *)
(* the operations of a connection do in the terms of these predicates.     *)
(*                                                                         *)
(* NothingForgotten needs a second invariant on top of it, Trust: the      *)
(* queue covers what is unacknowledged, every SACK mark in it and every    *)
(* SACK block on its way is about bytes the peer holds, and no two of the  *)
(* queued packets, datagrams and fragments overlap in part (Reliable).     *)
(* PawsSparesNeeded needs a third one, InTime: packets are stamped in the  *)
(* order of the stream, and TS.Recent comes from what starts at or below   *)
(* RCV.NXT (Timely).                                                       *)
(***************************************************************************)
EXTENDS TcpPair, ConnectionProofs

-----------------------------------------------------------------------------
(* What a segment does to the connection that takes it *)

\* The packets of a queue.
Pkts(q) == {s.pkt : s \in q}

\* A SACK block covers the entry.
Blocked(s, B) == \E b \in B : ~before(s.start, b.left) /\ ~after(s.end, b.right)

\* r is q, less some entries, with no SACK mark that B does not justify.
Thins(q, r, B) ==
    \A t \in r : \E s \in q : /\ t.start = s.start /\ t.end = s.end /\ t.pkt = s.pkt
                              /\ t.sacked => s.sacked \/ Blocked(s, B)

\* p carries c's timestamp.
Stamped(c, now, p) ==
    /\ "TS" \in p.opts <=> c.ts_enabled
    /\ p.tsval = IF c.ts_enabled THEN now ELSE 0

\* p is a bare acknowledgement of the state of c.
IsAck(c, now, p) ==
    /\ p \in Segment /\ p.seq = c.nxt /\ p.ack = c.rcv_nxt /\ p.flags = {"ACK"} /\ p.data = << >>
    /\ Stamped(c, now, p) /\ p.sack \subseteq sack_blocks(c.reasm)

\* The receive side of d is that of c.
SameReceiver(c, d) ==
    /\ d.rcv_nxt = c.rcv_nxt /\ d.reasm = c.reasm
    /\ d.pending_fin = c.pending_fin /\ d.peer_fin = c.peer_fin

\* The receive side of d is that of c after recv of s, perhaps with the peer's FIN.
Takes(c, s, d, data) ==
    LET v == recv(c.reasm, s.seq, s.data, c.rcv_nxt)
        m == wrapping_add(c.rcv_nxt, Len(v.out))
        fin == "FIN" \in s.flags
    IN  /\ d.reasm = v.reasm /\ data = v.out
        /\ \/ /\ d.rcv_nxt = m /\ d.peer_fin = c.peer_fin
              /\ d.pending_fin = c.pending_fin \/ (fin /\ d.pending_fin = fin_seq(s))
           \/ /\ d.rcv_nxt = wrapping_add(m, 1) /\ d.peer_fin = TRUE
              /\ d.pending_fin \in {c.pending_fin, NoFin}
              /\ m = c.pending_fin \/ (fin /\ m = fin_seq(s))

\* The segment leaves the receive side alone, or is taken.
Receives(c, s, d, data) == (SameReceiver(c, d) /\ data = << >>) \/ Takes(c, s, d, data)

\* TS.Recent is kept or taken from a segment at or below RCV.NXT.
TakesTs(c, s, d) ==
    \/ d.ts_recent = c.ts_recent
    \/ "TS" \in s.opts /\ ~after(s.seq, c.rcv_nxt) /\ d.ts_recent = s.tsval

\* What no segment changes.
SameSender(c, d) ==
    /\ d.nxt = c.nxt /\ d.send_buf = c.send_buf /\ d.ts_enabled = c.ts_enabled
    /\ d.keepalive_enabled = c.keepalive_enabled

\* SND.UNA is kept or taken from an ACK; the queue only thins.
Acks(c, s, d) ==
    /\ d.una = c.una \/ ("ACK" \in s.flags /\ d.una = s.ack)
    /\ Thins(c.retx, d.retx, s.sack)

\* Our FIN counts as acknowledged only by SEG.ACK = SND.NXT.
Done == {"FinWait2", "TimeWait"}

\* How a segment moves the state.
MovesBy(c, s, d) ==
    /\ d.state # "SynSent"
    /\ c.state \in FinOut <=> d.state \in FinOut
    /\ d.state \in Done => c.state \in Done \/ AcksNxt(c, s)

\* What goes out is of the queue, or is one acknowledgement.
Replies(c, d, out, now) == out \subseteq Pkts(c.retx) \/ \E p : out = {p} /\ IsAck(d, now, p)

\* What on_segment does in a synchronized state.
Ingests(c, s, r, now) ==
    /\ SameSender(c, r.tcb) /\ Acks(c, s, r.tcb) /\ MovesBy(c, s, r.tcb)
    /\ Receives(c, s, r.tcb, r.data) /\ TakesTs(c, s, r.tcb)
    /\ Replies(c, r.tcb, r.out, now)

\* What happens before the payload is looked at.
Prepares(c, s, e) ==
    /\ SameSender(c, e) /\ Acks(c, s, e) /\ SameReceiver(c, e) /\ TakesTs(c, s, e)
    /\ e.state = c.state \/ (c.state = "SynRcvd" /\ e.state = "Established")

\* The queue of a branch.
LEMMA ThinsReflexive == ASSUME NEW q, NEW B PROVE Thins(q, q, B)
BY DEF Thins

\* Thinning twice is thinning.
LEMMA ThinsTransitive ==
    ASSUME NEW q, NEW r, NEW u, NEW B, Thins(q, r, B), Thins(r, u, B)
    PROVE  Thins(q, u, B)
<1> SUFFICES ASSUME NEW t \in u
             PROVE  \E s \in q : /\ t.start = s.start /\ t.end = s.end /\ t.pkt = s.pkt
                                 /\ t.sacked => s.sacked \/ Blocked(s, B)
  BY DEF Thins
<1>1. PICK x \in r : /\ t.start = x.start /\ t.end = x.end /\ t.pkt = x.pkt
                     /\ t.sacked => x.sacked \/ Blocked(x, B)
  BY DEF Thins
<1>2. PICK s \in q : /\ x.start = s.start /\ x.end = s.end /\ x.pkt = s.pkt
                     /\ x.sacked => s.sacked \/ Blocked(s, B)
  BY DEF Thins
<1>3. Blocked(x, B) => Blocked(s, B)
  BY <1>2 DEF Blocked
<1> QED BY <1>1, <1>2, <1>3

\* No packet appears in a queue that thins.
LEMMA ThinsPkts == ASSUME NEW q, NEW r, NEW B, Thins(q, r, B) PROVE Pkts(r) \subseteq Pkts(q)
BY DEF Thins, Pkts

\* RetxQueue::ack thins the queue.
LEMMA AckThins == ASSUME NEW q, NEW una, NEW B PROVE Thins(q, ack(q, una), B)
BY DEF Thins, ack

\* Marking what is resent thins it, too.
LEMMA ResendThins ==
    ASSUME NEW q \in SUBSET Unacked, NEW R \in SUBSET q, NEW B
    PROVE  Thins(q, Resend(q, R), B)
<1>1. \A s \in R : LET u == [s EXCEPT !.retried = TRUE]
                   IN  u.start = s.start /\ u.end = s.end /\ u.pkt = s.pkt /\ u.sacked = s.sacked
  BY DEF Unacked
<1> SUFFICES ASSUME NEW t \in Resend(q, R)
             PROVE  \E s \in q : t.start = s.start /\ t.end = s.end /\ t.pkt = s.pkt /\ t.sacked = s.sacked
  BY DEF Thins
<1>2. CASE t \in q
  BY <1>2
<1>3. CASE t \in {[s EXCEPT !.retried = TRUE] : s \in R}
  BY <1>1, <1>3, ZenonT(40)
<1> QED BY <1>2, <1>3 DEF Resend

\* mark_sacked adds the marks that the blocks justify.
LEMMA MarkThins ==
    ASSUME NEW q \in SUBSET Unacked, NEW B
    PROVE  Thins(q, mark_sacked(q, B), B)
<1> SUFFICES ASSUME NEW s \in q
             PROVE  LET t == [s EXCEPT !.sacked = s.sacked \/ Blocked(s, B)]
                    IN  /\ t.start = s.start /\ t.end = s.end /\ t.pkt = s.pkt
                        /\ t.sacked => s.sacked \/ Blocked(s, B)
  BY ZenonT(40) DEF Thins, mark_sacked, Blocked
<1> QED BY DEF Unacked

\* A branch that first changes c to e does what it does to e to c.
LEMMA IngestsAfter ==
    ASSUME NEW c, NEW s, NEW e, NEW r, NEW now, Prepares(c, s, e), Ingests(e, s, r, now)
    PROVE  Ingests(c, s, r, now)
<1> DEFINE d == r.tcb
<1>1. SameSender(c, d)
  BY DEF Prepares, Ingests, SameSender
<1>2. Acks(c, s, d)
  BY ThinsTransitive DEF Prepares, Ingests, Acks
<1>3. MovesBy(c, s, d)
  BY DEF Prepares, Ingests, MovesBy, SameSender, AcksNxt, FinOut, FinPending, Done
<1>4. Receives(c, s, d, r.data)
  BY DEF Prepares, Ingests, Receives, Takes, SameReceiver
<1>5. TakesTs(c, s, d)
  BY DEF Prepares, Ingests, TakesTs, SameReceiver
<1>6. Replies(c, d, r.out, now)
  BY ThinsPkts DEF Prepares, Ingests, Acks, Replies
<1> QED BY <1>1, <1>2, <1>3, <1>4, <1>5, <1>6 DEF Ingests

\* The acknowledgements the branches build.
LEMMA AckNowIs ==
    ASSUME NEW c, ConnOK(c), NEW now \in SeqNum
    PROVE  IsAck(c, now, AckNow(c, now))
<1>1. c.nxt \in SeqNum /\ c.rcv_nxt \in SeqNum
  BY DEF ConnOK, Connection
<1>2. AckNow(c, now) \in Segment
  BY <1>1, SegmentType, EmptySeq DEF AckNow, Flag
<1> QED BY <1>2 DEF AckNow, segment, IsAck, Stamped

\* An acknowledgement with SACK blocks is one.
LEMMA SackAckNowIs ==
    ASSUME NEW c, ConnOK(c), NEW now \in SeqNum
    PROVE  IsAck(c, now, SackAckNow(c, now))
<1> DEFINE p == AckNow(c, now)
           blocks == sack_blocks(c.reasm)
<1>1. PICK B \in SUBSET blocks : SackAckNow(c, now) = [p EXCEPT !.sack = B]
  BY DEF SackAckNow
<1>2. blocks \subseteq SackBlock
  <2>1. \A f \in c.reasm.frags : /\ wrapping_add(c.reasm.base, f.off) \in SeqNum
                                 /\ wrapping_add(c.reasm.base, FragEnd(f)) \in SeqNum
    <3> TAKE f \in c.reasm.frags
    <3>1. c.reasm.base \in SeqNum /\ f.off \in SeqNum /\ f.data \in Seq(Byte)
      BY DEF ConnOK, Connection, Reasm, Frag
    <3>2. FragEnd(f) \in SeqNum
      BY <3>1, LenProperties, AddType DEF FragEnd
    <3> QED BY <3>1, <3>2, AddType, SeqNumInt
  <2> QED BY <2>1 DEF sack_blocks, SackBlock
<1>3. IsAck(c, now, p)
  BY AckNowIs
<1> HIDE DEF blocks, p
<1>4. [p EXCEPT !.sack = B] \in Segment
  BY <1>2, <1>3 DEF IsAck, Segment
<1> QED BY <1>1, <1>3, <1>4 DEF IsAck, Stamped, Segment, blocks

\* A branch that leaves the connection as it is, but for counters, and acknowledges at most.
LEMMA SameIngests ==
    ASSUME NEW c, ConnOK(c), NEW s, NEW now, NEW out, c.state # "SynSent",
           Replies(c, c, out, now)
    PROVE  Ingests(c, s, Result(c, out), now)
BY ThinsReflexive DEF Ingests, Result, SameSender, Acks, MovesBy, Receives, SameReceiver, TakesTs

\* A challenge ACK changes nothing.
LEMMA ChallengeIngests ==
    ASSUME NEW c, ConnOK(c), NEW s, NEW throttled, NEW now \in SeqNum, c.state # "SynSent"
    PROVE  Ingests(c, s, maybe_challenge(c, throttled, now), now)
BY AckNowIs, SameIngests DEF maybe_challenge, Replies

\* Delivering payload.
LEMMA DeliverDataIs ==
    ASSUME NEW c, ConnOK(c), NEW s
    PROVE  LET v == recv(c.reasm, s.seq, s.data, c.rcv_nxt)
               r == DeliverData(c, s)
               d == r.tcb
           IN  /\ SameSender(c, d) /\ d.una = c.una /\ d.retx = c.retx /\ d.state = c.state
               /\ d.ts_recent = c.ts_recent
               /\ d.reasm = v.reasm /\ r.data = v.out
               /\ d.rcv_nxt = wrapping_add(c.rcv_nxt, Len(v.out))
               /\ d.peer_fin = c.peer_fin /\ d.pending_fin = c.pending_fin
               /\ DOMAIN r = {"tcb", "out", "data"}
<1> DEFINE v == recv(c.reasm, s.seq, s.data, c.rcv_nxt)
<1>1. /\ DeliverData(c, s).tcb = [c EXCEPT !.reasm = v.reasm, !.rcv_nxt = wrapping_add(@, Len(v.out))]
      /\ DeliverData(c, s).data = v.out /\ DOMAIN DeliverData(c, s) = {"tcb", "out", "data"}
  BY DEF DeliverData, Result
<1> HIDE DEF v
<1>2. LET d == [c EXCEPT !.reasm = v.reasm, !.rcv_nxt = wrapping_add(@, Len(v.out))]
      IN  /\ SameSender(c, d) /\ d.una = c.una /\ d.retx = c.retx /\ d.state = c.state
          /\ d.ts_recent = c.ts_recent /\ d.reasm = v.reasm
          /\ d.rcv_nxt = wrapping_add(c.rcv_nxt, Len(v.out))
          /\ d.peer_fin = c.peer_fin /\ d.pending_fin = c.pending_fin
  BY DEF ConnOK, Connection, SameSender
<1> QED BY <1>1, <1>2 DEF v

\* The data half of ESTABLISHED and CLOSE_WAIT.
LEMMA OnOpenDataIngests ==
    ASSUME NEW c, ConnOK(c), NEW s \in Segment, NEW now \in SeqNum, c.state \in SendOpen
    PROVE  Ingests(c, s, OnOpenData(c, s, now), now)
<1> DEFINE v   == recv(c.reasm, s.seq, s.data, c.rcv_nxt)
           d   == DeliverData(c, s)
           c1  == d.tcb
           fin == "FIN" \in s.flags
           c2  == IF fin /\ c1.state = "Established" /\ ~before(fin_seq(s), c1.rcv_nxt)
                  THEN [c1 EXCEPT !.pending_fin = fin_seq(s)] ELSE c1
           cf  == ConsumeFin(c2, "CloseWait")
           c3  == [cf EXCEPT !.pending_fin = NoFin]
           r   == OnOpenData(c, s, now)
<1>1. /\ SameSender(c, c1) /\ c1.una = c.una /\ c1.retx = c.retx /\ c1.state = c.state
      /\ c1.ts_recent = c.ts_recent
      /\ c1.reasm = v.reasm /\ d.data = v.out
      /\ c1.rcv_nxt = wrapping_add(c.rcv_nxt, Len(v.out))
      /\ c1.peer_fin = c.peer_fin /\ c1.pending_fin = c.pending_fin
      /\ DOMAIN d = {"tcb", "out", "data"}
  BY DeliverDataIs
<1>2. \/ r.tcb = c1 /\ r.out = {AckNow(c1, now)} /\ r.data = d.data
      \/ FinDue(c2) /\ r.tcb = c3 /\ r.out = {AckNow(c3, now)} /\ r.data = d.data
      \/ /\ r.tcb = c2 /\ r.data = d.data
         /\ r.out \in {{}, {SackAckNow(c2, now)}}
  <2> HIDE DEF d, c3
  <2> QED BY <1>1 DEF OnOpenData, c3, cf, c2, c1, d
<1>3. ConnOK(c1)
  BY DeliverDataType
<1> HIDE DEF v, d, c1, r
<1>4. /\ ConnOK(c2) /\ SameSender(c, c2) /\ c2.una = c.una /\ c2.retx = c.retx /\ c2.state = c.state
      /\ c2.ts_recent = c.ts_recent /\ c2.reasm = v.reasm
      /\ c2.rcv_nxt = wrapping_add(c.rcv_nxt, Len(v.out)) /\ c2.peer_fin = c.peer_fin
      /\ c2.pending_fin = c.pending_fin \/ (fin /\ c2.pending_fin = fin_seq(s))
  <2>1. c2.pending_fin \in SeqNum \cup {NoFin} /\ (fin => fin_seq(s) \in SeqNum)
    BY <1>3, SegmentFields DEF ConnOK, Connection
  <2> QED BY <1>1, <1>3, <2>1 DEF ConnOK, Connection, SameSender
<1> HIDE DEF c2
<1>5. /\ ConnOK(c3) /\ SameSender(c, c3) /\ c3.una = c.una /\ c3.retx = c.retx
      /\ c3.state = "CloseWait" /\ c3.ts_recent = c.ts_recent /\ c3.reasm = v.reasm
      /\ c3.rcv_nxt = wrapping_add(c2.rcv_nxt, 1) /\ c3.peer_fin = TRUE
      /\ c3.pending_fin = NoFin
  <2>1. ConnOK(cf)
    BY <1>4, ConsumeFinType DEF State
  <2>2. /\ SameSender(c, cf) /\ cf.una = c.una /\ cf.retx = c.retx
        /\ cf.state = "CloseWait" /\ cf.ts_recent = c.ts_recent /\ cf.reasm = v.reasm
        /\ cf.rcv_nxt = wrapping_add(c2.rcv_nxt, 1) /\ cf.peer_fin = TRUE
    BY <1>4 DEF ConsumeFin, ConnOK, Connection, SameSender
  <2> HIDE DEF cf
  <2> QED BY <2>1, <2>2 DEF ConnOK, Connection, SameSender
<1> HIDE DEF c3
<1>6. IsAck(c1, now, AckNow(c1, now)) /\ IsAck(c3, now, AckNow(c3, now)) /\ IsAck(c2, now, SackAckNow(c2, now))
  BY <1>3, <1>4, <1>5, AckNowIs, SackAckNowIs
<1>7. Replies(c, r.tcb, r.out, now)
  BY <1>2, <1>6 DEF Replies
<1>8. Receives(c, s, r.tcb, r.data)
  <2>1. CASE r.tcb = c1
    BY <1>1, <1>2, <2>1 DEF Receives, Takes, v
  <2>2. CASE r.tcb = c2
    BY <1>1, <1>2, <1>4, <2>2 DEF Receives, Takes, v
  <2>3. CASE r.tcb = c3 /\ FinDue(c2)
    BY <1>1, <1>2, <1>4, <1>5, <2>3 DEF Receives, Takes, v, FinDue
  <2> QED BY <1>2, <2>1, <2>2, <2>3
<1>9. SameSender(c, r.tcb) /\ Acks(c, s, r.tcb) /\ TakesTs(c, s, r.tcb)
  BY <1>1, <1>2, <1>4, <1>5, ThinsReflexive DEF Acks, TakesTs
<1>10. MovesBy(c, s, r.tcb)
  BY <1>1, <1>2, <1>4, <1>5 DEF MovesBy, SendOpen, FinOut, FinPending, Done
<1>11. Ingests(c, s, r, now)
  BY <1>7, <1>8, <1>9, <1>10 DEF Ingests
<1> QED BY <1>11 DEF r

\* A fast retransmission, or the data.
LEMMA FastRetransmitOrIngests ==
    ASSUME NEW c, ConnOK(c), NEW s \in Segment, NEW now \in SeqNum, c.state \in SendOpen
    PROVE  Ingests(c, s, FastRetransmitOr(c, s, now), now)
<1> DEFINE R == FirstHole(c.retx)
           e == [c EXCEPT !.retx = Resend(@, R)]
           r == Result(e, Pkts(R))
<1>1. Ingests(c, s, OnOpenData(c, s, now), now)
  BY OnOpenDataIngests
<1>2. c.retx \in SUBSET Unacked /\ R \in SUBSET c.retx
  BY DEF ConnOK, Connection, FirstHole, Holes
<1> HIDE DEF R
<1>3. Thins(c.retx, Resend(c.retx, R), s.sack)
  BY <1>2, ResendThins
<1>4. /\ SameSender(c, e) /\ e.una = c.una /\ e.retx = Resend(c.retx, R) /\ e.state = c.state
      /\ SameReceiver(c, e) /\ e.ts_recent = c.ts_recent
  BY DEF ConnOK, Connection, SameSender, SameReceiver
<1> HIDE DEF e
<1>5. r.tcb = e /\ r.out = Pkts(R) /\ r.data = << >> /\ Pkts(R) \subseteq Pkts(c.retx)
  BY <1>2 DEF Result, Pkts
<1> HIDE DEF r
<1>6. Ingests(c, s, r, now)
  BY <1>3, <1>4, <1>5 DEF Ingests, Replies, Acks, MovesBy, Receives, TakesTs, SendOpen, FinOut, FinPending, Done
<1>7. FastRetransmitOr(c, s, now) \in {OnOpenData(c, s, now), r}
  BY DEF FastRetransmitOr, r, e, R, Pkts
<1> QED BY <1>1, <1>6, <1>7

\* Every ACK branch.
LEMMA OnOpenAckIngests ==
    ASSUME NEW c, ConnOK(c), NEW prev_wnd, NEW s \in Segment, NEW now \in SeqNum,
           c.state \in SendOpen, "ACK" \in s.flags
    PROVE  Ingests(c, s, OnOpenAck(c, prev_wnd, s, now), now)
<1> DEFINE acked   == [c EXCEPT !.una = s.ack, !.retx = ack(@, s.ack), !.dup_acks = 0]
           count   == IF c.dup_acks > DupThresh THEN c.dup_acks ELSE c.dup_acks + 1
           counted == [c EXCEPT !.dup_acks = count]
           started == [counted EXCEPT !.in_recovery = TRUE, !.recover = c.nxt]
           ended   == [acked EXCEPT !.in_recovery = FALSE]
           Ok(e)   == ConnOK(e) /\ Prepares(c, s, e) /\ e.state \in SendOpen
<1>1. s.ack \in SeqNum /\ ack(c.retx, s.ack) \in SUBSET Unacked /\ 0 \in 0 .. DupThresh + 1
  BY SegmentFields, AckType, DupThreshAssumption DEF ConnOK, Connection
<1>2. Thins(c.retx, ack(c.retx, s.ack), s.sack) /\ Thins(c.retx, c.retx, s.sack)
  BY AckThins, ThinsReflexive
<1>3. ConnOK(acked) /\ acked.una = s.ack /\ acked.retx = ack(c.retx, s.ack) /\ acked.state = c.state
      /\ SameSender(c, acked) /\ SameReceiver(c, acked) /\ acked.ts_recent = c.ts_recent
  BY <1>1 DEF ConnOK, Connection, SameSender, SameReceiver
<1> HIDE DEF acked
<1>4. ConnOK(ended) /\ ended.una = s.ack /\ ended.retx = ack(c.retx, s.ack) /\ ended.state = c.state
      /\ SameSender(c, ended) /\ SameReceiver(c, ended) /\ ended.ts_recent = c.ts_recent
  BY <1>3 DEF ConnOK, Connection, SameSender, SameReceiver
<1> HIDE DEF ended
<1>5. count \in 0 .. DupThresh + 1
  BY DupThreshAssumption DEF ConnOK, Connection
<1> HIDE DEF count
<1>6. ConnOK(counted) /\ counted.una = c.una /\ counted.retx = c.retx /\ counted.state = c.state
      /\ SameSender(c, counted) /\ SameReceiver(c, counted) /\ counted.ts_recent = c.ts_recent
  BY <1>5 DEF ConnOK, Connection, SameSender, SameReceiver
<1> HIDE DEF counted
<1>7. ConnOK(started) /\ started.una = c.una /\ started.retx = c.retx /\ started.state = c.state
      /\ SameSender(c, started) /\ SameReceiver(c, started) /\ started.ts_recent = c.ts_recent
  <2>1. c.nxt \in SeqNum
    BY DEF ConnOK, Connection
  <2> QED BY <1>6, <2>1 DEF ConnOK, Connection, SameSender, SameReceiver
<1> HIDE DEF started
<1>8. Ok(acked) /\ Ok(ended)
  BY <1>2, <1>3, <1>4 DEF Prepares, Acks, TakesTs
<1>9. Ok(c) /\ Ok(counted) /\ Ok(started)
  BY <1>2, <1>6, <1>7 DEF Prepares, Acks, TakesTs, SameSender, SameReceiver
<1>10. \E e \in {acked, ended, c, counted, started} :
         OnOpenAck(c, prev_wnd, s, now) \in {OnOpenData(e, s, now), FastRetransmitOr(e, s, now)}
  <2> HIDE DEF acked, counted, count
  <2> QED BY DEF OnOpenAck, acked, counted, count, started, ended
<1>11. \A e \in {acked, ended, c, counted, started} :
         Ingests(c, s, OnOpenData(e, s, now), now) /\ Ingests(c, s, FastRetransmitOr(e, s, now), now)
  BY <1>8, <1>9, OnOpenDataIngests, FastRetransmitOrIngests, IngestsAfter
<1> QED BY <1>10, <1>11

\* ESTABLISHED and CLOSE_WAIT.
LEMMA OnOpenIngests ==
    ASSUME NEW c, ConnOK(c), NEW s \in Segment, NEW throttled, NEW now \in SeqNum,
           c.state \in SendOpen
    PROVE  Ingests(c, s, OnOpen(c, s, throttled, now), now)
<1> DEFINE ts    == c.ts_enabled /\ "TS" \in s.opts
           fresh == [c EXCEPT
                       !.ts_recent = IF ts /\ UpdatesTsRecent(c, s) THEN s.tsval ELSE @,
                       !.wnd = s.window,
                       !.max_snd_wnd = IF s.window > @ THEN s.window ELSE @]
           marked == IF c.sack_ok THEN [fresh EXCEPT !.retx = mark_sacked(@, s.sack)] ELSE fresh
           Ok(e)   == ConnOK(e) /\ Prepares(c, s, e) /\ e.state \in SendOpen
<1>1. s.window \in Nat /\ s.tsval \in SeqNum
  BY SegmentFields
<1>2. /\ ConnOK(fresh) /\ fresh.una = c.una /\ fresh.retx = c.retx /\ fresh.state = c.state
      /\ SameSender(c, fresh) /\ SameReceiver(c, fresh)
      /\ fresh.ts_recent = IF ts /\ UpdatesTsRecent(c, s) THEN s.tsval ELSE c.ts_recent
  BY <1>1 DEF ConnOK, Connection, SameSender, SameReceiver
<1> HIDE DEF fresh
<1>3. c.retx \in SUBSET Unacked /\ mark_sacked(c.retx, s.sack) \in SUBSET Unacked
  BY MarkSackedType DEF ConnOK, Connection
<1>4. Thins(c.retx, mark_sacked(c.retx, s.sack), s.sack) /\ Thins(c.retx, c.retx, s.sack)
  BY <1>3, MarkThins, ThinsReflexive
<1>5. /\ ConnOK(marked) /\ marked.una = c.una /\ marked.state = c.state
      /\ marked.retx \in {c.retx, mark_sacked(c.retx, s.sack)}
      /\ SameSender(c, marked) /\ SameReceiver(c, marked)
      /\ marked.ts_recent = fresh.ts_recent
  BY <1>2, <1>3 DEF ConnOK, Connection, SameSender, SameReceiver
<1> HIDE DEF marked
<1>6. TakesTs(c, s, fresh) /\ TakesTs(c, s, marked)
  BY <1>2, <1>5 DEF TakesTs, UpdatesTsRecent
<1>7. Ok(fresh) /\ Ok(marked)
  BY <1>2, <1>4, <1>5, <1>6 DEF Prepares, Acks
<1>8. \/ OnOpen(c, s, throttled, now) \in
            {OnOpenData(fresh, s, now), maybe_challenge(fresh, throttled, now),
             Result(c, {AckNow(c, now)})}
      \/ "ACK" \in s.flags /\ OnOpen(c, s, throttled, now) = OnOpenAck(marked, c.wnd, s, now)
  BY DEF OnOpen, fresh, marked
<1>9. /\ Ingests(c, s, OnOpenData(fresh, s, now), now)
      /\ "ACK" \in s.flags => Ingests(c, s, OnOpenAck(marked, c.wnd, s, now), now)
  BY <1>7, OnOpenDataIngests, OnOpenAckIngests, IngestsAfter
<1>10. fresh.state # "SynSent" /\ c.state # "SynSent"
  BY <1>2 DEF SendOpen
<1>11. Ingests(c, s, maybe_challenge(fresh, throttled, now), now)
  BY <1>7, <1>10, ChallengeIngests, IngestsAfter
<1>12. Ingests(c, s, Result(c, {AckNow(c, now)}), now)
  BY <1>10, AckNowIs, SameIngests DEF Replies
<1> QED BY <1>8, <1>9, <1>11, <1>12

\* The active-close states.
LEMMA OnFinWaitIngests ==
    ASSUME NEW c, ConnOK(c), NEW s \in Segment, NEW now \in SeqNum,
           c.state \in {"FinWait1", "FinWait2"}
    PROVE  Ingests(c, s, OnFinWait(c, s, now), now)
<1> DEFINE finAcked == c.state = "FinWait1" /\ AcksNxt(c, s)
           c0 == IF finAcked THEN [c EXCEPT !.retx = ack(@, s.ack)] ELSE c
           v  == recv(c.reasm, s.seq, s.data, c.rcv_nxt)
           d  == DeliverData(c0, s)
           c1 == d.tcb
           next == IF finAcked \/ c.state = "FinWait2" THEN "TimeWait" ELSE "Closing"
           c2 == ConsumeFin(c1, next)
           c3 == IF finAcked THEN [c1 EXCEPT !.state = "FinWait2"] ELSE c1
           r  == OnFinWait(c, s, now)
<1>1. ack(c.retx, s.ack) \in SUBSET Unacked
  BY AckType DEF ConnOK, Connection
<1>2. /\ ConnOK(c0) /\ SameSender(c, c0) /\ SameReceiver(c, c0) /\ c0.una = c.una
      /\ c0.retx \in {c.retx, ack(c.retx, s.ack)} /\ c0.state = c.state /\ c0.ts_recent = c.ts_recent
  <2> HIDE DEF finAcked
  <2> QED BY <1>1 DEF ConnOK, Connection, SameSender, SameReceiver
<1>3. Thins(c.retx, c0.retx, s.sack)
  BY <1>2, AckThins, ThinsReflexive
<1>4. /\ SameSender(c0, c1) /\ c1.una = c0.una /\ c1.retx = c0.retx /\ c1.state = c0.state
      /\ c1.ts_recent = c0.ts_recent /\ c1.reasm = v.reasm /\ d.data = v.out
      /\ c1.rcv_nxt = wrapping_add(c.rcv_nxt, Len(v.out))
      /\ c1.peer_fin = c0.peer_fin /\ c1.pending_fin = c0.pending_fin
      /\ DOMAIN d = {"tcb", "out", "data"}
  <2> DEFINE w == recv(c0.reasm, s.seq, s.data, c0.rcv_nxt)
  <2> HIDE DEF c0
  <2>1. w = v /\ c0.rcv_nxt = c.rcv_nxt
    BY <1>2 DEF SameReceiver
  <2>2. /\ SameSender(c0, c1) /\ c1.una = c0.una /\ c1.retx = c0.retx /\ c1.state = c0.state
        /\ c1.ts_recent = c0.ts_recent /\ c1.reasm = w.reasm /\ d.data = w.out
        /\ c1.rcv_nxt = wrapping_add(c0.rcv_nxt, Len(w.out))
        /\ c1.peer_fin = c0.peer_fin /\ c1.pending_fin = c0.pending_fin
        /\ DOMAIN d = {"tcb", "out", "data"}
    BY <1>2, DeliverDataIs, ZenonT(40)
  <2> HIDE DEF v, w, c1, d
  <2> QED BY <2>1, <2>2
<1>5. ConnOK(c1)
  <2> HIDE DEF c0
  <2> QED BY <1>2, DeliverDataType
<1>6. /\ r.data = d.data
      /\ \/ r.tcb = c2 /\ r.out = {AckNow(c2, now)} /\ FinInOrder(c1, s)
         \/ r.tcb = c3 /\ r.out \in {{}, {AckNow(c3, now)}}
  <2> HIDE DEF c0, finAcked, d, c2, c3
  <2> QED BY <1>4 DEF OnFinWait, c0, c2, c3, d, finAcked
<1> HIDE DEF c0, d, v, c1
<1>7. /\ next \in State \ {"SynSent"} /\ next \in FinOut
      /\ next \in Done => c.state \in Done \/ AcksNxt(c, s)
  BY DEF State, FinOut, FinPending, Done
<1> HIDE DEF next
<1>8. /\ ConnOK(c2) /\ SameSender(c1, c2) /\ c2.una = c1.una /\ c2.retx = c1.retx
      /\ c2.state = next /\ c2.ts_recent = c1.ts_recent /\ c2.reasm = c1.reasm
      /\ c2.rcv_nxt = wrapping_add(c1.rcv_nxt, 1) /\ c2.peer_fin = TRUE
      /\ c2.pending_fin = c1.pending_fin
  <2>1. ConnOK(c2)
    BY <1>5, <1>7, ConsumeFinType
  <2> QED BY <1>5, <2>1 DEF ConsumeFin, ConnOK, Connection, SameSender
<1> HIDE DEF c2
<1>9. /\ ConnOK(c3) /\ SameSender(c1, c3) /\ c3.una = c1.una /\ c3.retx = c1.retx
      /\ c3.ts_recent = c1.ts_recent /\ SameReceiver(c1, c3)
      /\ c3.state = c1.state \/ (c3.state = "FinWait2" /\ AcksNxt(c, s))
  <2>1. CASE c3 = c1
    BY <1>5, <2>1 DEF SameSender, SameReceiver
  <2>2. CASE AcksNxt(c, s) /\ c3 = [c1 EXCEPT !.state = "FinWait2"]
    <3> HIDE DEF c3, finAcked
    <3> QED BY <1>5, <2>2 DEF ConnOK, Connection, SameSender, SameReceiver, State
  <2> QED BY <2>1, <2>2
<1> HIDE DEF c3
<1>10. Replies(c, r.tcb, r.out, now)
  BY <1>6, <1>8, <1>9, AckNowIs DEF Replies
<1>11. SameSender(c, r.tcb) /\ Acks(c, s, r.tcb) /\ TakesTs(c, s, r.tcb)
  BY <1>2, <1>3, <1>4, <1>6, <1>8, <1>9 DEF Acks, TakesTs, SameSender
<1>12. MovesBy(c, s, r.tcb)
  BY <1>2, <1>4, <1>6, <1>7, <1>8, <1>9 DEF MovesBy, FinOut, FinPending, Done
<1>13. Receives(c, s, r.tcb, r.data)
  <2>1. CASE r.tcb = c2 /\ FinInOrder(c1, s)
    BY <1>2, <1>4, <1>6, <1>8, <2>1 DEF Receives, Takes, SameReceiver, v, FinInOrder
  <2>2. CASE r.tcb = c3
    BY <1>2, <1>4, <1>6, <1>9, <2>2 DEF Receives, Takes, SameReceiver, v
  <2> QED BY <1>6, <2>1, <2>2
<1> HIDE DEF r
<1>14. Ingests(c, s, r, now)
  BY <1>10, <1>11, <1>12, <1>13 DEF Ingests
<1> QED BY <1>14 DEF r

\* LAST_ACK and CLOSING.
LEMMA OnFinAckOnlyIngests ==
    ASSUME NEW c, ConnOK(c), NEW s \in Segment, NEW now, c.state \in {"LastAck", "Closing"}
    PROVE  Ingests(c, s, OnFinAckOnly(c, s), now)
<1> DEFINE e == [c EXCEPT !.retx = ack(@, s.ack), !.state = IF c.state = "LastAck" THEN "Closed" ELSE "TimeWait"]
           r == Result(e, {})
<1>1. Ingests(c, s, Result(c, {}), now)
  BY SameIngests DEF Replies
<1>2. /\ SameSender(c, e) /\ SameReceiver(c, e) /\ e.una = c.una /\ e.retx = ack(c.retx, s.ack)
      /\ e.state \in {"Closed", "TimeWait"} /\ e.ts_recent = c.ts_recent
  BY DEF ConnOK, Connection, SameSender, SameReceiver
<1> HIDE DEF e
<1>3. r.tcb = e /\ r.out = {} /\ r.data = << >>
  BY DEF Result
<1>4. ASSUME AcksNxt(c, s) PROVE Ingests(c, s, r, now)
  <2> HIDE DEF r
  <2> QED BY <1>2, <1>3, <1>4, AckThins
        DEF Ingests, Replies, Acks, MovesBy, Receives, TakesTs, FinOut, FinPending, Done
<1>5. OnFinAckOnly(c, s) = IF AcksNxt(c, s) THEN r ELSE Result(c, {})
  BY DEF OnFinAckOnly, r, e
<1> QED BY <1>1, <1>4, <1>5

\* Every state but SYN_SENT and SYN_RCVD.
LEMMA OnSynchronizedIngests ==
    ASSUME NEW c, ConnOK(c), NEW s \in Segment, NEW throttled, NEW now \in SeqNum,
           c.state # "SynSent"
    PROVE  Ingests(c, s, OnSynchronized(c, s, throttled, now), now)
<1>1. \/ c.state \in SendOpen /\ OnSynchronized(c, s, throttled, now) = OnOpen(c, s, throttled, now)
      \/ /\ c.state \in {"FinWait1", "FinWait2"}
         /\ OnSynchronized(c, s, throttled, now) = OnFinWait(c, s, now)
      \/ /\ c.state \in {"LastAck", "Closing"}
         /\ OnSynchronized(c, s, throttled, now) = OnFinAckOnly(c, s)
      \/ OnSynchronized(c, s, throttled, now) = Result(c, {})
  BY DEF OnSynchronized, SendOpen
<1>2. Ingests(c, s, Result(c, {}), now)
  BY SameIngests DEF Replies
<1> QED BY <1>1, <1>2, OnOpenIngests, OnFinWaitIngests, OnFinAckOnlyIngests

\* The final ACK of a passive open.
LEMMA OnSynRcvdIngests ==
    ASSUME NEW c, ConnOK(c), NEW s \in Segment, NEW throttled, NEW now \in SeqNum,
           c.state = "SynRcvd"
    PROVE  Ingests(c, s, OnSynRcvd(c, s, throttled, now), now)
<1> DEFINE est == [c EXCEPT !.una = s.ack, !.retx = ack(@, s.ack), !.state = "Established"]
<1>1. s.ack \in SeqNum /\ ack(c.retx, s.ack) \in SUBSET Unacked
  BY SegmentFields, AckType DEF ConnOK, Connection
<1>2. /\ ConnOK(est) /\ SameSender(c, est) /\ SameReceiver(c, est) /\ est.una = s.ack
      /\ est.retx = ack(c.retx, s.ack) /\ est.state = "Established" /\ est.ts_recent = c.ts_recent
  BY <1>1 DEF ConnOK, Connection, SameSender, SameReceiver, State
<1> HIDE DEF est
<1>3. AcksNxt(c, s) => Prepares(c, s, est)
  BY <1>2, AckThins DEF Prepares, Acks, TakesTs, AcksNxt
<1>4. OnSynRcvd(c, s, throttled, now) =
         IF AcksNxt(c, s) THEN OnSynchronized(est, s, throttled, now) ELSE Result(c, {})
  BY DEF OnSynRcvd, est
<1>5. Ingests(c, s, Result(c, {}), now)
  BY SameIngests DEF Replies
<1>6. Ingests(est, s, OnSynchronized(est, s, throttled, now), now)
  BY <1>2, OnSynchronizedIngests
<1> QED BY <1>3, <1>4, <1>5, <1>6, IngestsAfter

\* on_segment, once the peer's ISN is known and for a segment that is no RST.
LEMMA OnSegmentIngests ==
    ASSUME NEW c0, ConnOK(c0), NEW s \in Segment, NEW throttled, NEW now \in SeqNum,
           c0.state # "SynSent", "RST" \notin s.flags
    PROVE  Ingests(c0, s, on_segment(c0, s, throttled, now), now)
<1> DEFINE c == [c0 EXCEPT !.keepalive_probes_sent = 0]
<1>1. /\ ConnOK(c) /\ c.state = c0.state /\ SameSender(c0, c) /\ SameReceiver(c0, c)
      /\ c.una = c0.una /\ c.retx = c0.retx /\ c.ts_recent = c0.ts_recent
  BY ConnectionAssumption, SMTT(40) DEF ConnOK, Connection, SameSender, SameReceiver
<1> HIDE DEF c
<1>2. Prepares(c0, s, c)
  BY <1>1, ThinsReflexive DEF Prepares, Acks, TakesTs
<1>3. \/ on_segment(c0, s, throttled, now) \in
            {maybe_challenge(c, throttled, now), OnSynchronized(c, s, throttled, now)}
      \/ /\ c.state = "SynRcvd"
         /\ on_segment(c0, s, throttled, now) = OnSynRcvd(c, s, throttled, now)
  BY <1>1 DEF on_segment, c
<1>4. Ingests(c, s, on_segment(c0, s, throttled, now), now)
  BY <1>1, <1>3, ChallengeIngests, OnSynchronizedIngests, OnSynRcvdIngests
<1> QED BY <1>2, <1>4, IngestsAfter

-----------------------------------------------------------------------------
(* What a connection sends of its own accord *)

\* t is the entry of a segment with bytes of c's buffer, from the one after the k-th on.
Cuts(c, now, t, k) ==
    LET p == t.pkt
    IN  /\ t \in Unacked /\ k \in Nat
        /\ t.start = p.seq /\ t.end = fin_seq(p) /\ ~t.sacked
        /\ p.seq = wrapping_add(c.nxt, k) /\ p.ack = c.rcv_nxt /\ p.flags = {"ACK"}
        /\ Stamped(c, now, p) /\ p.sack = {}
        /\ Len(p.data) > 0
        /\ \A m \in 1 .. Len(p.data) : p.data[m] = c.send_buf[k + m]

\* The entries of E cut up the first n bytes of c's buffer.
Emission(c, n, E, now) ==
    /\ IsFiniteSet(E)
    /\ \A t \in E : \E k : Cuts(c, now, t, k) /\ k + Len(t.pkt.data) <= n
    /\ \A t, u \in E : t # u => \E k, m : /\ Cuts(c, now, t, k) /\ Cuts(c, now, u, m)
                                          /\ k + Len(t.pkt.data) <= n /\ m + Len(u.pkt.data) <= n
                                          /\ k + Len(t.pkt.data) <= m \/ m + Len(u.pkt.data) <= k

\* The receive side and the options are as they were.
SameRest(c, d) ==
    /\ SameReceiver(c, d) /\ d.una = c.una /\ d.ts_recent = c.ts_recent
    /\ d.ts_enabled = c.ts_enabled /\ d.keepalive_enabled = c.keepalive_enabled

\* The first n bytes go out as the entries E; old ones may go out again.
EmitsBy(c, r, n, E, now) ==
    LET d == r.tcb
    IN  /\ SameRest(c, d)
        /\ c.state \in SendOpen \/ (n = 0 /\ E = {})
        /\ Emission(c, n, E, now)
        /\ d.nxt = wrapping_add(c.nxt, n)
        /\ d.send_buf = SubSeq(c.send_buf, n + 1, Len(c.send_buf))
        /\ Thins(c.retx \cup E, d.retx, {})
        /\ r.out \subseteq Pkts(c.retx \cup E)
        /\ d.state = c.state \/ (n = 0 /\ d.state = "Closed" /\ c.state \notin Opening)

\* Some bytes of the buffer go out, perhaps none.
Emits(c, r, now) == \E n \in 0 .. Len(c.send_buf) : \E E : EmitsBy(c, r, n, E, now)

\* The FIN goes out.
Fin(c, now) == segment(c, c.nxt, c.rcv_nxt, {"FIN", "ACK"}, << >>, now)

\* The entry of the FIN in the queue.
FinEntry(c, now) ==
    [start |-> c.nxt, end |-> wrapping_add(c.nxt, 1), pkt |-> Fin(c, now),
     retried |-> FALSE, sacked |-> FALSE]

\* close: the FIN goes out and is queued.
EmitsFin(c, r, now) ==
    LET d == r.tcb
    IN  /\ SameRest(c, d) /\ c.state \in SendOpen /\ d.state \in {"FinWait1", "LastAck"}
        /\ d.nxt = wrapping_add(c.nxt, 1) /\ d.send_buf = c.send_buf
        /\ d.retx = c.retx \cup {FinEntry(c, now)} /\ r.out = {Fin(c, now)}

\* Advancing by nothing.
LEMMA AddZero == ASSUME NEW a \in SeqNum PROVE wrapping_add(a, 0) = a
<1>1. 0 \in SeqNum
  BY SeqNumInt
<1> QED BY <1>1, AddIs, CircleIs

\* All of a buffer.
LEMMA WholeBuffer ==
    ASSUME NEW b \in Seq(Byte)
    PROVE  SubSeq(b, 1, Len(b)) = b /\ Len(b) \in Nat
<1>1. Len(b) \in Nat /\ b \in [1 .. Len(b) -> Byte]
  BY LenProperties
<1>2. \A i \in 1 .. Len(b) : b[i] \in Byte
  BY <1>1
<1>3. /\ SubSeq(b, 1, Len(b)) \in Seq(Byte)
      /\ Len(SubSeq(b, 1, Len(b))) = Len(b)
      /\ \A i \in 1 .. Len(b) : SubSeq(b, 1, Len(b))[i] = b[i]
  <2> DEFINE u == SubSeq(b, 1, Len(b))
  <2>1. u \in Seq(Byte)
    BY <1>1, SubSeqType
  <2>2. Len(u) = (IF 1 <= Len(b) THEN Len(b) - 1 + 1 ELSE 0) /\ \A i \in 1 .. Len(b) - 1 + 1 : u[i] = b[1 + i - 1]
    BY <1>1, <1>2, SubSeqProperties
  <2> HIDE DEF u
  <2> QED BY <1>1, <2>1, <2>2 DEF u
<1> QED BY <1>1, <1>3, SeqEqual

\* Nothing goes out.
LEMMA NothingEmits ==
    ASSUME NEW c, ConnOK(c), NEW r, NEW now, SameRest(c, r.tcb), r.tcb.nxt = c.nxt,
           r.tcb.send_buf = c.send_buf, Thins(c.retx, r.tcb.retx, {}),
           r.out \subseteq Pkts(c.retx),
           r.tcb.state = c.state \/ (r.tcb.state = "Closed" /\ c.state \notin Opening)
    PROVE  Emits(c, r, now)
<1>1. c.nxt \in SeqNum /\ c.send_buf \in Seq(Byte)
  BY DEF ConnOK, Connection
<1>2. wrapping_add(c.nxt, 0) = c.nxt /\ SubSeq(c.send_buf, 0 + 1, Len(c.send_buf)) = c.send_buf
  BY <1>1, AddZero, WholeBuffer
<1>3. Emission(c, 0, {}, now)
  BY FS_EmptySet DEF Emission
<1>4. c.retx \cup {} = c.retx
  OBVIOUS
<1>5. EmitsBy(c, r, 0, {}, now)
  BY <1>2, <1>3, <1>4 DEF EmitsBy
<1>6. 0 \in 0 .. Len(c.send_buf)
  BY <1>1, WholeBuffer
<1> QED BY <1>5, <1>6 DEF Emits

\* close.
LEMMA CloseEmits ==
    ASSUME NEW c, ConnOK(c), NEW now
    PROVE  Emits(c, close(c, now), now) \/ EmitsFin(c, close(c, now), now)
<1> DEFINE d == [Sent(c, c.nxt, 1, Fin(c, now)) EXCEPT
                    !.state = IF c.state = "Established" THEN "FinWait1" ELSE "LastAck"]
<1>1. close(c, now) = IF c.state \in SendOpen THEN Result(d, {Fin(c, now)}) ELSE Result(c, {})
  BY DEF close, Fin
<1>2. /\ SameRest(c, d) /\ d.state \in {"FinWait1", "LastAck"}
      /\ d.nxt = wrapping_add(c.nxt, 1) /\ d.send_buf = c.send_buf
      /\ d.retx = c.retx \cup {FinEntry(c, now)}
  BY DEF Sent, record, FinEntry, ConnOK, Connection, SameRest, SameReceiver
<1> HIDE DEF d
<1>3. CASE c.state \in SendOpen
  <2>1. close(c, now).tcb = d /\ close(c, now).out = {Fin(c, now)}
    BY <1>1, <1>3 DEF Result
  <2> QED BY <1>2, <1>3, <2>1 DEF EmitsFin
<1>4. CASE c.state \notin SendOpen
  <2>1. close(c, now).tcb = c /\ close(c, now).out = {}
    BY <1>1, <1>4 DEF Result
  <2> QED BY <2>1, NothingEmits, ThinsReflexive DEF SameRest, SameReceiver
<1> QED BY <1>3, <1>4

-----------------------------------------------------------------------------
\* Piece i as an entry of the buffer.
LEMMA PieceCuts ==
    ASSUME NEW c, ConnOK(c), NEW n \in Nat, n <= Len(c.send_buf), n < Half, NEW now \in SeqNum,
           NEW i \in 0 .. n - 1, i * Mss < n
    PROVE  LET m == AtMost(n, (i + 1) * Mss)
               t == Piece(c, n, now, i)
           IN  /\ Cuts(c, now, t, i * Mss) /\ i * Mss + Len(t.pkt.data) = m
               /\ i * Mss < m /\ m <= n /\ m \in Nat /\ i * Mss \in Nat
<1> DEFINE k == i * Mss
           m == AtMost(n, (i + 1) * Mss)
           start == wrapping_add(c.nxt, k)
           data == SubSeq(c.send_buf, k + 1, m)
           pkt == segment(c, start, c.rcv_nxt, {"ACK"}, data, now)
           t == Piece(c, n, now, i)
<1>1. /\ c.nxt \in SeqNum /\ c.rcv_nxt \in SeqNum /\ c.send_buf \in Seq(Byte) /\ Half \in Nat
      /\ Len(c.send_buf) \in Nat
  BY HalfAssumption, WholeBuffer DEF ConnOK, Connection
<1>2. m \in Nat /\ k < m /\ m <= n
  BY PieceAt
<1>3. k \in Nat
  BY CutsApart
<1>4. t = [start |-> start, end |-> fin_seq(pkt), pkt |-> pkt, retried |-> FALSE, sacked |-> FALSE]
  BY DEF Piece
<1>5. /\ pkt.seq = start /\ pkt.ack = c.rcv_nxt /\ pkt.flags = {"ACK"} /\ pkt.sack = {}
      /\ pkt.data = data /\ Stamped(c, now, pkt)
  BY DEF segment, Stamped
<1> HIDE DEF t, k, m
<1>6. Len(data) = m - k
  BY <1>1, <1>2, <1>3, ChunkLen
<1>7. data \in Seq(Byte)
  BY <1>1, <1>2, <1>3, SubSeqType
<1>8. \A j \in 1 .. Len(data) : data[j] = c.send_buf[k + j]
  <2>1. \A x \in k + 1 .. m : c.send_buf[x] \in Byte
    <3>1. \A x \in k + 1 .. m : x \in 1 .. Len(c.send_buf)
      BY <1>1, <1>2, <1>3
    <3> QED BY <1>1, <3>1, ElementOfSeq
  <2>2. \A j \in 1 .. m - (k + 1) + 1 : data[j] = c.send_buf[(k + 1) + j - 1]
    BY <1>2, <1>3, <2>1, SubSeqProperties
  <2> HIDE DEF data
  <2> QED BY <1>2, <1>3, <1>6, <2>2
<1>9. start \in SeqNum
  BY <1>1, <1>3, AddType
<1> HIDE DEF start, data
<1>10. pkt \in Segment
  BY <1>1, <1>7, <1>9, SegmentType DEF Flag
<1> HIDE DEF pkt
<1>11. t \in Unacked
  BY <1>4, <1>9, <1>10, SegmentFields DEF Unacked
<1>12. Cuts(c, now, t, k)
  BY <1>2, <1>3, <1>4, <1>5, <1>6, <1>8, <1>11 DEF Cuts, start
<1>13. k + Len(t.pkt.data) = m
  BY <1>2, <1>3, <1>4, <1>5, <1>6
<1> QED BY <1>2, <1>3, <1>12, <1>13 DEF t, k, m

\* The pieces of SendBytes are an emission.
LEMMA PiecesEmit ==
    ASSUME NEW c, ConnOK(c), NEW n \in Nat, n <= Len(c.send_buf), n < Half, NEW now \in SeqNum
    PROVE  Emission(c, n, Pieces(c, n, now), now)
<1> DEFINE I == {i \in 0 .. n - 1 : i * Mss < n}
           E == Pieces(c, n, now)
           F == [i \in I |-> Piece(c, n, now, i)]
<1>1. IsFiniteSet(E)
  <2>1. IsFiniteSet(I)
    <3>1. IsFiniteSet(0 .. n - 1) /\ I \subseteq 0 .. n - 1
      BY FS_Interval
    <3> QED BY <3>1, FS_Subset
  <2>2. F \in Surjection(I, E)
    BY DEF Surjection, Pieces
  <2> QED BY <2>1, <2>2, FS_Surjection
<1>2. ASSUME NEW t \in E
      PROVE  \E i \in I : t = Piece(c, n, now, i)
  BY DEF Pieces
<1>3. \A t \in E : \E k : Cuts(c, now, t, k) /\ k + Len(t.pkt.data) <= n
  <2> TAKE t \in E
  <2>1. PICK i \in I : t = Piece(c, n, now, i)
    BY <1>2
  <2> DEFINE m == AtMost(n, (i + 1) * Mss)
  <2>2. Cuts(c, now, t, i * Mss) /\ i * Mss + Len(t.pkt.data) = m /\ m <= n
    BY <2>1, PieceCuts
  <2> QED BY <2>2
<1>4. ASSUME NEW t \in E, NEW u \in E, t # u
      PROVE  \E k, m : /\ Cuts(c, now, t, k) /\ Cuts(c, now, u, m)
                       /\ k + Len(t.pkt.data) <= n /\ m + Len(u.pkt.data) <= n
                       /\ k + Len(t.pkt.data) <= m \/ m + Len(u.pkt.data) <= k
  <2>1. PICK i \in I : t = Piece(c, n, now, i)
    BY <1>2
  <2>2. PICK j \in I : u = Piece(c, n, now, j)
    BY <1>2
  <2>3. i < j \/ j < i
    BY <1>4, <2>1, <2>2
  <2> DEFINE m == AtMost(n, (i + 1) * Mss)
             o == AtMost(n, (j + 1) * Mss)
  <2>4. Cuts(c, now, t, i * Mss) /\ i * Mss + Len(t.pkt.data) = m
    BY <2>1, PieceCuts
  <2>5. Cuts(c, now, u, j * Mss) /\ j * Mss + Len(u.pkt.data) = o
    BY <2>2, PieceCuts
  <2>6. /\ i * Mss \in Nat /\ (i + 1) * Mss = i * Mss + Mss /\ (i < j => i * Mss + Mss <= j * Mss)
        /\ j * Mss \in Nat /\ (j + 1) * Mss = j * Mss + Mss /\ (j < i => j * Mss + Mss <= i * Mss)
    BY CutsApart
  <2>7. m <= i * Mss + Mss /\ o <= j * Mss + Mss /\ m \in Nat /\ o \in Nat /\ m <= n /\ o <= n
    BY <2>6, ConnectionAssumption DEF AtMost
  <2> HIDE DEF m, o
  <2>8. m <= j * Mss \/ o <= i * Mss
    BY <2>3, <2>6, <2>7, ConnectionAssumption
  <2> QED BY <2>4, <2>5, <2>7, <2>8
<1> QED BY <1>1, <1>3, <1>4 DEF Emission

\* An emission looks at the buffer and the numbers of the connection only.
LEMMA EmissionSame ==
    ASSUME NEW c, NEW e, NEW n, NEW E, NEW now, Emission(e, n, E, now),
           e.nxt = c.nxt, e.rcv_nxt = c.rcv_nxt, e.send_buf = c.send_buf,
           e.ts_enabled = c.ts_enabled
    PROVE  Emission(c, n, E, now)
<1>1. \A t, k : Cuts(e, now, t, k) <=> Cuts(c, now, t, k)
  BY DEF Cuts, Stamped
<1> QED BY <1>1 DEF Emission

\* Queues that thin keep on doing so under what is added.
LEMMA ThinsCup ==
    ASSUME NEW q, NEW r, NEW E, Thins(q, r, {})
    PROVE  Thins(q \cup E, r \cup E, {})
BY DEF Thins

\* SendBytes, after the queue has been resent in part.
LEMMA SendBytesEmits ==
    ASSUME NEW c, ConnOK(c), c.state \in SendOpen, NEW R \in SUBSET c.retx, NEW e,
           e \in {c, [c EXCEPT !.retx = Resend(@, R)]},
           NEW n \in Nat, n <= Len(c.send_buf), n < Half, NEW now \in SeqNum,
           NEW r, r.tcb = SendBytes(e, n, now).tcb,
           r.out \subseteq Pkts(R) \cup SendBytes(e, n, now).out
    PROVE  Emits(c, r, now)
<1> DEFINE E == Pieces(e, n, now)
           b == SendBytes(e, n, now)
<1>1. /\ ConnOK(e) /\ e.nxt = c.nxt /\ e.rcv_nxt = c.rcv_nxt /\ e.send_buf = c.send_buf
      /\ e.ts_enabled = c.ts_enabled /\ SameRest(c, e) /\ e.state = c.state
      /\ e.retx \in {c.retx, Resend(c.retx, R)}
  <2>1. ConnOK(e)
    BY ResendConnType
  <2> QED BY <2>1 DEF ConnOK, Connection, SameRest, SameReceiver
<1>2. Thins(c.retx, e.retx, {})
  <2>1. c.retx \in SUBSET Unacked
    BY DEF ConnOK, Connection
  <2> QED BY <1>1, <2>1, ResendThins, ThinsReflexive
<1>3. /\ b.tcb.send_buf = SubSeq(e.send_buf, n + 1, Len(e.send_buf))
      /\ b.tcb.nxt = wrapping_add(e.nxt, n) /\ b.tcb.retx = e.retx \cup E
      /\ b.out = Pkts(E) /\ b.tcb.state = e.state
      /\ SameRest(e, b.tcb)
  <2> HIDE DEF E
  <2>1. b.out = Pkts(E)
    <3> DEFINE I == {i \in 0 .. n - 1 : i * Mss < n}
    <3>1. b.out = {Piece(e, n, now, i).pkt : i \in I}
      BY DEF SendBytes, Result, Piece
    <3>2. E = {Piece(e, n, now, i) : i \in I}
      BY DEF E, Pieces
    <3> HIDE DEF I
    <3> QED BY <3>1, <3>2 DEF Pkts
  <2>2. b.tcb = [e EXCEPT !.send_buf = SubSeq(@, n + 1, Len(@)), !.nxt = wrapping_add(@, n), !.retx = @ \cup E]
    BY DEF SendBytes, Result, E, Pieces, Piece
  <2> QED BY <1>1, <2>1, <2>2 DEF ConnOK, Connection, SameRest, SameReceiver
<1> HIDE DEF b
<1>a. n <= Len(e.send_buf)
  BY <1>1
<1>4. Emission(e, n, E, now)
  BY <1>1, <1>a, PiecesEmit
<1> HIDE DEF E
<1>5. Emission(c, n, E, now)
  BY <1>1, <1>4, EmissionSame
<1>6. Thins(c.retx \cup E, b.tcb.retx, {})
  <2>1. Thins(c.retx \cup E, e.retx \cup E, {})
    BY <1>2, ThinsCup
  <2>2. b.tcb.retx = e.retx \cup E
    BY <1>3
  <2> HIDE DEF b, E
  <2> QED BY <2>1, <2>2, Zenon
<1>7. r.out \subseteq Pkts(c.retx \cup E)
  BY <1>3 DEF Pkts, b
<1>8. EmitsBy(c, r, n, E, now)
  BY <1>1, <1>3, <1>5, <1>6, <1>7 DEF EmitsBy, SameRest, SameReceiver, b
<1> QED BY <1>8 DEF Emits

\* poll_transmit, in and outside SACK recovery.
LEMMA PollTransmitEmits ==
    ASSUME NEW c, ConnOK(c), Len(c.send_buf) < Half, NEW cwnd \in Nat, NEW now \in SeqNum
    PROVE  Emits(c, poll_transmit(c, cwnd, now), now)
<1> DEFINE limit == AtMost(c.wnd, cwnd)
           gone  == LostWithin(c.retx, limit)
           c1    == [c EXCEPT !.retx = Resend(@, gone)]
           room  == IF limit > pipe(c1.retx) THEN limit - pipe(c1.retx) ELSE 0
           n     == AtMost(room, Len(c.send_buf))
           new   == SendBytes(c1, n, now)
           m     == Sendable(c, cwnd)
           r     == poll_transmit(c, cwnd, now)
<1>1. Len(c.send_buf) \in Nat /\ c.wnd \in Nat /\ Half \in Nat
  BY LenProperties, HalfAssumption DEF ConnOK, Connection
<1>2. limit \in Nat
  BY <1>1, AtMostType
<1>3. gone \in SUBSET c.retx
  BY DEF LostWithin
<1>4. \/ r.tcb = c /\ r.out = {}
      \/ c.state \in SendOpen /\ r.tcb = new.tcb /\ r.out = new.out \cup Pkts(gone)
      \/ c.state \in SendOpen /\ r.tcb = SendBytes(c, m, now).tcb /\ r.out = SendBytes(c, m, now).out
  <2> HIDE DEF m, n, gone, c1
  <2> QED BY DEF poll_transmit, Result, SendBytes, Pkts, m, n, gone, c1
<1>5. room \in Nat
  <2> HIDE DEF limit
  <2>1. ConnOK(c1)
    BY <1>3, ResendConnType DEF limit
  <2> HIDE DEF c1
  <2>2. pipe(c1.retx) \in Nat
    BY <2>1, PipeType DEF ConnOK, Connection
  <2> QED BY <1>2, <2>2
<1>6. n \in Nat /\ n <= Len(c.send_buf)
  <2> HIDE DEF room
  <2> QED BY <1>1, <1>5, AtMostType
<1>7. m \in Nat /\ m <= Len(c.send_buf)
  BY SendableType
<1>8. n < Half /\ m < Half
  <2> HIDE DEF n, m
  <2> QED BY <1>1, <1>6, <1>7
<1>9. CASE r.tcb = c /\ r.out = {}
  BY <1>9, NothingEmits, ThinsReflexive DEF SameRest, SameReceiver
<1>10. CASE c.state \in SendOpen /\ r.tcb = new.tcb /\ r.out = new.out \cup Pkts(gone)
  <2>1. r.out \subseteq Pkts(gone) \cup new.out
    BY <1>10
  <2> HIDE DEF n, gone, r
  <2> QED BY <1>3, <1>6, <1>8, <1>10, <2>1, SendBytesEmits DEF r
<1>11. CASE c.state \in SendOpen /\ r.tcb = SendBytes(c, m, now).tcb /\ r.out = SendBytes(c, m, now).out
  <2>1. r.out \subseteq Pkts({}) \cup SendBytes(c, m, now).out
    BY <1>11
  <2> HIDE DEF m, r
  <2> QED BY <1>7, <1>8, <1>11, <2>1, SendBytesEmits DEF r
<1> QED BY <1>4, <1>9, <1>10, <1>11

\* The probe of the persist timer.
LEMMA PersistTickEmits ==
    ASSUME NEW c, ConnOK(c), 1 < Half, NEW elapsed, NEW now \in SeqNum
    PROVE  Emits(c, PersistTick(c, elapsed, now), now)
<1> DEFINE b     == c.send_buf
           shut  == c.state \in SendOpen /\ c.wnd = 0 /\ b # << >> /\ flight_size(c) = 0
           probe == segment(c, c.nxt, c.rcv_nxt, {"ACK"}, SubSeq(b, 1, 1), now)
           t     == [start |-> c.nxt, end |-> wrapping_add(c.nxt, 1), pkt |-> probe,
                     retried |-> FALSE, sacked |-> FALSE]
           d     == [Sent(c, c.nxt, 1, probe) EXCEPT !.send_buf = Tail(@), !.persist = FALSE]
           e     == [c EXCEPT !.persist = shut]
           r     == PersistTick(c, elapsed, now)
<1>1. \/ shut /\ r.tcb = d /\ r.out = {probe}
      \/ r.tcb = e /\ r.out = {}
  BY DEF PersistTick, Result
<1>2. /\ SameRest(c, d) /\ d.state = c.state /\ d.nxt = wrapping_add(c.nxt, 1)
      /\ d.retx = c.retx \cup {t} /\ d.send_buf = Tail(b)
      /\ SameRest(c, e) /\ e.state = c.state /\ e.nxt = c.nxt /\ e.retx = c.retx /\ e.send_buf = b
  <2> HIDE DEF probe, shut
  <2> QED BY DEF Sent, record, ConnOK, Connection, SameRest, SameReceiver
<1> HIDE DEF d, e, r
<1>3. CASE r.tcb = e /\ r.out = {}
  <2>1. Emits(c, r, now)
    BY <1>2, <1>3, NothingEmits, ThinsReflexive
  <2> QED BY <2>1 DEF r
<1>4. CASE shut /\ r.tcb = d /\ r.out = {probe}
  <2>1. /\ c.nxt \in SeqNum /\ c.rcv_nxt \in SeqNum /\ b \in Seq(Byte) /\ Half \in Nat /\ c.retx \in SUBSET Unacked
        /\ b # << >>
    BY <1>4, HalfAssumption DEF ConnOK, Connection
  <2>2. Len(b) \in Nat /\ 1 <= Len(b) /\ b[1] \in Byte
    BY <2>1, LenProperties, EmptySeq, ElementOfSeq
  <2>3. /\ SubSeq(b, 1, 1) \in Seq(Byte) /\ Len(SubSeq(b, 1, 1)) = 1 /\ SubSeq(b, 1, 1)[1] = b[1]
    <3>1. \A i \in 1 .. 1 : b[i] \in Byte
      BY <2>2
    <3>2. SubSeq(b, 1, 1) \in Seq(Byte)
      BY <3>1, SubSeqProperties
    <3>3. Len(SubSeq(b, 1, 1)) = (IF 1 <= 1 THEN 1 - 1 + 1 ELSE 0) /\ \A i \in 1 .. 1 - 1 + 1 : SubSeq(b, 1, 1)[i] = b[1 + i - 1]
      BY <3>1, SubSeqProperties
    <3> QED BY <3>2, <3>3
  <2>4. Tail(b) = SubSeq(b, 1 + 1, Len(b))
    <3> DEFINE u == SubSeq(b, 2, Len(b))
    <3>1. \A i \in 2 .. Len(b) : b[i] \in Byte
      BY <2>1, <2>2, ElementOfSeq
    <3>2. /\ u \in Seq(Byte)
          /\ Len(u) = (IF 2 <= Len(b) THEN Len(b) - 2 + 1 ELSE 0)
          /\ \A i \in 1 .. Len(b) - 2 + 1 : u[i] = b[2 + i - 1]
      <4>1. 2 <= Len(b) + 1
        BY <2>2
      <4> QED BY <2>2, <3>1, <4>1, SubSeqProperties
    <3>3. /\ Tail(b) \in Seq(Byte) /\ Len(Tail(b)) = Len(b) - 1
          /\ \A i \in 1 .. Len(Tail(b)) : Tail(b)[i] = b[i + 1]
      BY <2>1, <2>2, HeadTailProperties
    <3> HIDE DEF u
    <3>4. Len(u) = Len(Tail(b)) /\ \A i \in 1 .. Len(u) : u[i] = Tail(b)[i]
      BY <2>2, <3>2, <3>3
    <3>5. u = Tail(b)
      BY <3>2, <3>3, <3>4, SeqEqual
    <3> QED BY <3>5 DEF u
  <2>5. probe \in Segment
    BY <2>1, <2>3, SegmentType DEF Flag
  <2>6. /\ probe.seq = c.nxt /\ probe.ack = c.rcv_nxt /\ probe.flags = {"ACK"} /\ probe.sack = {}
        /\ probe.data = SubSeq(b, 1, 1) /\ Stamped(c, now, probe)
    BY DEF segment, Stamped
  <2>7. wrapping_add(c.nxt, 1) \in SeqNum /\ wrapping_add(c.nxt, 0) = c.nxt
    BY <2>1, AddType, AddZero
  <2> HIDE DEF probe
  <2>8. t \in Unacked /\ t.pkt = probe /\ t.start = c.nxt /\ t.end = wrapping_add(c.nxt, 1) /\ ~t.sacked
    BY <2>1, <2>5, <2>7 DEF Unacked
  <2> HIDE DEF t
  <2>9. Cuts(c, now, t, 0) /\ 0 + Len(t.pkt.data) <= 1
    BY <2>3, <2>6, <2>7, <2>8 DEF Cuts, fin_seq
  <2>10. Emission(c, 1, {t}, now)
    BY <2>9, FS_Singleton DEF Emission
  <2>11. Thins(c.retx \cup {t}, d.retx, {})
    BY <1>2, ThinsReflexive
  <2>12. r.out \subseteq Pkts(c.retx \cup {t})
    BY <1>4, <2>8 DEF Pkts
  <2>13. EmitsBy(c, r, 1, {t}, now)
    BY <1>2, <1>4, <2>4, <2>10, <2>11, <2>12 DEF EmitsBy
  <2>14. 1 \in 0 .. Len(b)
    BY <2>2
  <2>15. Emits(c, r, now)
    BY <2>13, <2>14 DEF Emits
  <2> QED BY <2>15 DEF r
<1> QED BY <1>1, <1>3, <1>4

\* Timers first, then what is emitted.
LEMMA EmitsAfter ==
    ASSUME NEW c, NEW e, NEW p, NEW r, NEW now, Emits(e, p, now),
           SameRest(c, e), e.nxt = c.nxt, e.send_buf = c.send_buf, Thins(c.retx, e.retx, {}),
           e.state = c.state \/ (e.state = "Closed" /\ c.state \notin Opening),
           r.tcb = p.tcb, r.out \subseteq Pkts(c.retx) \cup p.out
    PROVE  Emits(c, r, now)
<1>1. PICK n \in 0 .. Len(e.send_buf) : \E E : EmitsBy(e, p, n, E, now)
  BY DEF Emits
<1>2. PICK E : EmitsBy(e, p, n, E, now)
  BY <1>1
<1>3. Emission(c, n, E, now)
  BY <1>2, EmissionSame DEF EmitsBy, SameRest, SameReceiver
<1>4. Thins(c.retx \cup E, r.tcb.retx, {})
  <2>1. Thins(c.retx \cup E, e.retx \cup E, {})
    BY ThinsCup
  <2> QED BY <1>2, <2>1, ThinsTransitive DEF EmitsBy
<1>5. r.out \subseteq Pkts(c.retx \cup E)
  <2>1. Pkts(e.retx) \subseteq Pkts(c.retx)
    BY ThinsPkts
  <2>2. p.out \subseteq Pkts(e.retx \cup E)
    BY <1>2 DEF EmitsBy
  <2> QED BY <2>1, <2>2 DEF Pkts
<1>6. EmitsBy(c, r, n, E, now)
  <2>1. SameRest(c, r.tcb)
    BY <1>2 DEF EmitsBy, SameRest, SameReceiver
  <2>2. c.state \in SendOpen \/ (n = 0 /\ E = {})
    BY <1>2 DEF EmitsBy, SendOpen
  <2>3. r.tcb.state = c.state \/ (n = 0 /\ r.tcb.state = "Closed" /\ c.state \notin Opening)
    BY <1>2 DEF EmitsBy, SendOpen
  <2> QED BY <1>2, <1>3, <1>4, <1>5, <2>1, <2>2, <2>3 DEF EmitsBy
<1> QED BY <1>1, <1>6 DEF Emits

\* on_tick without keepalive.
LEMMA OnTickEmits ==
    ASSUME NEW c, ConnOK(c), ~c.keepalive_enabled, 1 < Half, NEW t, t.resend \in SUBSET c.retx,
           t.rto \in BOOLEAN, NEW now \in SeqNum
    PROVE  Emits(c, on_tick(c, t, now), now)
<1> DEFINE c0 == Expire(c, t.expired)
           c1 == Retransmit(c0, t.resend, t.rto)
           p  == PersistTick(c1, t.persist, now)
           k  == KeepaliveTick(p.tcb, t.keepalive, now)
           r  == on_tick(c, t, now)
<1>1. /\ ConnOK(c0) /\ SameRest(c, c0) /\ c0.nxt = c.nxt /\ c0.send_buf = c.send_buf
      /\ c0.retx = c.retx
      /\ c0.state = c.state \/ (c0.state = "Closed" /\ c.state \notin Opening)
  BY DEF Expire, ConnOK, Connection, SameRest, SameReceiver, State, Opening
<1> HIDE DEF c0
<1>2. ConnOK(c1)
  <2> QED BY <1>1, RetransmitType
<1>3. c.retx \in SUBSET Unacked
  BY DEF ConnOK, Connection
<1>4. /\ SameRest(c0, c1) /\ c1.nxt = c0.nxt /\ c1.send_buf = c0.send_buf /\ c1.state = c0.state
      /\ c1.retx = Resend(c0.retx, t.resend)
  BY <1>1 DEF Retransmit, ConnOK, Connection, SameRest, SameReceiver
<1> HIDE DEF c1
<1>5. Thins(c.retx, c1.retx, {})
  BY <1>1, <1>3, <1>4, ResendThins
<1>6. Emits(c1, p, now)
  BY <1>2, PersistTickEmits
<1>7. ~p.tcb.keepalive_enabled
  BY <1>1, <1>4, <1>6 DEF Emits, EmitsBy, SameRest
<1> HIDE DEF p
<1>8. k = Result(p.tcb, {})
  BY <1>7 DEF KeepaliveTick
<1>9. r.tcb = p.tcb /\ r.out = Pkts(t.resend) \cup p.out
  <2>1. r = Result(k.tcb, {s.pkt : s \in t.resend} \cup p.out \cup k.out)
    BY DEF on_tick, p, c1, c0
  <2> HIDE DEF k, r
  <2> QED BY <1>8, <2>1 DEF Result, Pkts
<1> HIDE DEF r
<1>10. r.out \subseteq Pkts(c.retx) \cup p.out
  BY <1>9 DEF Pkts
<1>11. SameRest(c, c1) /\ c1.nxt = c.nxt /\ c1.send_buf = c.send_buf
       /\ (c1.state = c.state \/ (c1.state = "Closed" /\ c.state \notin Opening))
  BY <1>1, <1>4 DEF SameRest, SameReceiver
<1>12. Emits(c, r, now)
  BY <1>5, <1>6, <1>9, <1>10, <1>11, EmitsAfter
<1> QED BY <1>12 DEF r

-----------------------------------------------------------------------------
(* Opening *)

\* The SYN-ACK completes an active open.
Completes(c, s, r, now) ==
    LET d == r.tcb
    IN  /\ "SYN" \in s.flags /\ AcksNxt(c, s)
        /\ d.nxt = c.nxt /\ d.send_buf = c.send_buf /\ d.state = "Established"
        /\ d.una = s.ack /\ Thins(c.retx, d.retx, {})
        /\ d.rcv_nxt = wrapping_add(s.seq, 1) /\ d.reasm = NewReassembler(d.rcv_nxt)
        /\ d.peer_fin = c.peer_fin /\ d.pending_fin = c.pending_fin
        /\ d.keepalive_enabled = c.keepalive_enabled
        /\ d.ts_recent = (IF "TS" \in s.opts THEN s.tsval ELSE c.ts_recent)
        /\ r.data = << >>
        /\ \E p : r.out = {p} /\ IsAck(d, now, p)

\* A connection that has seen nothing yet, but for a counter.
Idles(c, r) ==
    /\ SameRest(c, r.tcb) /\ SameSender(c, r.tcb) /\ r.tcb.state = c.state /\ r.tcb.retx = c.retx
    /\ r.data = << >> /\ r.out = {}

\* on_segment in SYN_SENT.
LEMMA OnSynSentCompletes ==
    ASSUME NEW c0, ConnOK(c0), NEW s \in Segment, NEW throttled, NEW now \in SeqNum,
           c0.state = "SynSent", "RST" \notin s.flags
    PROVE  LET r == on_segment(c0, s, throttled, now)
           IN  Idles(c0, r) \/ Completes(c0, s, r, now)
<1> DEFINE c == [c0 EXCEPT !.keepalive_probes_sent = 0]
           r == on_segment(c0, s, throttled, now)
           n == wrapping_add(s.seq, 1)
           est == [c EXCEPT !.rcv_nxt = n,
                            !.reasm = NewReassembler(n),
                            !.una = s.ack,
                            !.retx = ack(@, s.ack),
                            !.ts_enabled = @ \/ "TS" \in s.opts,
                            !.ts_recent = IF "TS" \in s.opts THEN s.tsval ELSE @,
                            !.sack_ok = @ \/ "SACKP" \in s.opts,
                            !.state = "Established"]
<1>1. /\ ConnOK(c) /\ c.state = c0.state /\ SameSender(c0, c) /\ SameRest(c0, c) /\ c.retx = c0.retx
  BY ConnectionAssumption, SMTT(40) DEF ConnOK, Connection, SameSender, SameRest, SameReceiver
<1>2. r = OnSynSent(c, s, now)
  BY DEF on_segment, ConnOK, Connection
<1> HIDE DEF c, r
<1>3. r = IF "SYN" \in s.flags /\ AcksNxt(c, s) THEN Result(est, {AckNow(est, now)}) ELSE Result(c, {})
  BY <1>2 DEF OnSynSent
<1>4. CASE ~("SYN" \in s.flags /\ AcksNxt(c, s))
  <2>1. r.tcb = c /\ r.out = {} /\ r.data = << >>
    BY <1>3, <1>4 DEF Result
  <2>2. Idles(c0, r)
    BY <1>1, <2>1 DEF Idles
  <2> QED BY <2>2 DEF r
<1>5. CASE "SYN" \in s.flags /\ AcksNxt(c, s)
  <2>1. r.tcb = est /\ r.out = {AckNow(est, now)} /\ r.data = << >>
    BY <1>3, <1>5 DEF Result
  <2>2. /\ n \in SeqNum /\ s.ack \in SeqNum /\ ack(c.retx, s.ack) \in SUBSET Unacked
        /\ ReasmOK(NewReassembler(n)) /\ s.tsval \in SeqNum
    <3>1. n \in SeqNum /\ s.ack \in SeqNum /\ s.tsval \in SeqNum
      BY SegmentFields, AddType
    <3>2. ack(c.retx, s.ack) \in SUBSET Unacked
      BY <1>1, AckType DEF ConnOK, Connection
    <3> QED BY <3>1, <3>2, NewReassemblerType
  <2>3. /\ est.nxt = c.nxt /\ est.send_buf = c.send_buf /\ est.state = "Established"
        /\ est.una = s.ack /\ est.retx = ack(c.retx, s.ack)
        /\ est.rcv_nxt = n /\ est.reasm = NewReassembler(n)
        /\ est.peer_fin = c.peer_fin /\ est.pending_fin = c.pending_fin
        /\ est.keepalive_enabled = c.keepalive_enabled
        /\ est.ts_recent = (IF "TS" \in s.opts THEN s.tsval ELSE c.ts_recent)
    <3> HIDE DEF n
    <3> QED BY <1>1 DEF ConnOK, Connection
  <2>4. ConnOK(est)
    <3> DEFINE x == c.ts_enabled \/ "TS" \in s.opts
               y == IF "TS" \in s.opts THEN s.tsval ELSE c.ts_recent
               z == c.sack_ok \/ "SACKP" \in s.opts
    <3>1. est = [c EXCEPT !.rcv_nxt = n, !.reasm = NewReassembler(n), !.una = s.ack,
                          !.retx = ack(c.retx, s.ack), !.ts_enabled = x, !.ts_recent = y,
                          !.sack_ok = z, !.state = "Established"]
      BY <1>1 DEF ConnOK, Connection
    <3>2. x \in BOOLEAN /\ y \in SeqNum /\ z \in BOOLEAN
      BY <1>1, <2>2 DEF ConnOK, Connection
    <3> HIDE DEF x, y, z, n, est
    <3> QED BY <1>1, <2>2, <3>1, <3>2, ZenonT(40) DEF ConnOK, Connection, ReasmOK, State
  <2>5. IsAck(est, now, AckNow(est, now))
    <3> HIDE DEF est
    <3> QED BY <2>4, AckNowIs
  <2>6. Thins(c0.retx, est.retx, {})
    BY <1>1, <2>3, AckThins
  <2> HIDE DEF est
  <2>7. Completes(c0, s, r, now)
    BY <1>1, <1>5, <2>1, <2>3, <2>5, <2>6
       DEF Completes, AcksNxt, SameSender, SameRest, SameReceiver, n
  <2> QED BY <2>7 DEF r
<1> QED BY <1>4, <1>5

\* The one entry of a new connection.
SynEntry(iss, p) ==
    [start |-> iss, end |-> wrapping_add(iss, 1), pkt |-> p, retried |-> FALSE, sacked |-> FALSE]

\* What both opens have in common.
Opened(c, iss, p) ==
    /\ ConnOK(c) /\ c.una = iss /\ c.nxt = wrapping_add(iss, 1) /\ c.send_buf = << >>
    /\ c.retx = {SynEntry(iss, p)} /\ ~c.peer_fin /\ c.pending_fin = NoFin
    /\ ~c.keepalive_enabled
    /\ p \in Segment /\ p.seq = iss /\ p.data = << >> /\ p.sack = {}

\* What the passive open gives.
Accepted(s, iss, now, r) ==
    LET c == r.tcb
    IN  \E p : /\ Opened(c, iss, p) /\ r.out = {p} /\ c.state = "SynRcvd"
               /\ p.flags = {"SYN", "ACK"} /\ p.ack = c.rcv_nxt
               /\ Stamped(c, now, p)
               /\ c.rcv_nxt = wrapping_add(s.seq, 1) /\ c.reasm = NewReassembler(c.rcv_nxt)
               /\ c.ts_recent = s.tsval

\* That is what accept returns.
LEMMA AcceptOpens ==
    ASSUME NEW s \in Segment, NEW iss \in SeqNum, NEW now \in SeqNum
    PROVE  Accepted(s, iss, now, accept(s, iss, now))
<1> DEFINE n == wrapping_add(s.seq, 1)
           b == NewConnection("SynRcvd", iss, iss, n, s.opts, s.tsval)
           q == segment(b, iss, b.rcv_nxt, {"SYN", "ACK"}, << >>, now)
           p == [q EXCEPT !.opts = s.opts]
           c == Sent(b, iss, 1, p)
           r == accept(s, iss, now)
<1>1. r = Result(c, {p})
  BY DEF accept
<1>2. r.tcb = c /\ r.out = {p}
  BY <1>1 DEF Result
<1>3. /\ b.rcv_nxt = n /\ b.una = iss /\ b.send_buf = << >> /\ b.retx = {} /\ ~b.peer_fin
      /\ b.pending_fin = NoFin /\ ~b.keepalive_enabled /\ b.ts_enabled = ("TS" \in s.opts)
      /\ b.ts_recent = s.tsval /\ b.reasm = NewReassembler(n) /\ b.state = "SynRcvd"
  BY DEF NewConnection
<1>4. n \in SeqNum /\ s.opts \in SUBSET Option /\ s.tsval \in SeqNum
  BY SegmentFields, AddType DEF Segment
<1>5. ConnOK(b)
  BY <1>4, NewConnectionType DEF State
<1> HIDE DEF b, n, r
<1>6. q \in Segment
  BY <1>3, <1>4, SegmentType, EmptySeq DEF Flag
<1>7. /\ p \in Segment /\ p.seq = iss /\ p.data = << >> /\ p.sack = {} /\ p.flags = {"SYN", "ACK"}
      /\ p.ack = n /\ Stamped(b, now, p)
  <2>1. p \in Segment
    <3> HIDE DEF q
    <3> QED BY <1>4, <1>6 DEF Segment
  <2> QED BY <1>3, <2>1 DEF segment, Stamped
<1>8. ConnOK(c)
  <2>1. p \in Segment
    BY <1>7
  <2> HIDE DEF p
  <2> QED BY <1>5, <2>1, SentType
<1> HIDE DEF p
<1>9. /\ c.una = iss /\ c.nxt = wrapping_add(iss, 1) /\ c.send_buf = << >>
      /\ c.retx = {SynEntry(iss, p)} /\ ~c.peer_fin /\ c.pending_fin = NoFin
      /\ ~c.keepalive_enabled /\ c.rcv_nxt = n /\ c.reasm = NewReassembler(n)
      /\ c.ts_recent = s.tsval /\ c.ts_enabled = b.ts_enabled /\ c.state = "SynRcvd"
  BY <1>3, <1>5 DEF Sent, record, SynEntry, ConnOK, Connection
<1> HIDE DEF c
<1>10. Opened(c, iss, p)
  BY <1>7, <1>8, <1>9 DEF Opened
<1>11. Stamped(c, now, p)
  BY <1>7, <1>9 DEF Stamped
<1>12. /\ Opened(r.tcb, iss, p) /\ r.out = {p} /\ r.tcb.state = "SynRcvd"
       /\ p.flags = {"SYN", "ACK"} /\ p.ack = r.tcb.rcv_nxt
       /\ Stamped(r.tcb, now, p)
       /\ r.tcb.rcv_nxt = wrapping_add(s.seq, 1) /\ r.tcb.reasm = NewReassembler(r.tcb.rcv_nxt)
       /\ r.tcb.ts_recent = s.tsval
  BY <1>2, <1>7, <1>9, <1>10, <1>11 DEF n
<1> QED BY <1>12 DEF r, Accepted

\* What the active open gives.
Connecting(iss, now, r) ==
    LET c == r.tcb
    IN  \E p : /\ Opened(c, iss, p) /\ r.out = {p} /\ c.state = "SynSent"
               /\ p.flags = {"SYN"} /\ p.tsval = now /\ c.ts_recent = 0

\* That is what connect returns.
LEMMA ConnectOpens ==
    ASSUME NEW iss \in SeqNum, NEW now \in SeqNum
    PROVE  Connecting(iss, now, connect(iss, now))
<1> DEFINE b == NewConnection("SynSent", iss, iss, 0, {}, 0)
           q == segment(b, iss, 0, {"SYN"}, << >>, now)
           p == [q EXCEPT !.opts = Option, !.tsval = now]
           c == Sent(b, iss, 1, p)
           r == connect(iss, now)
<1>1. r = Result(c, {p})
  BY DEF connect
<1>2. r.tcb = c /\ r.out = {p}
  BY <1>1 DEF Result
<1>3. /\ b.una = iss /\ b.send_buf = << >> /\ b.retx = {} /\ ~b.peer_fin
      /\ b.pending_fin = NoFin /\ ~b.keepalive_enabled
      /\ b.ts_recent = 0 /\ b.state = "SynSent"
  BY DEF NewConnection
<1>4. ConnOK(b)
  BY NewConnectionType, SeqNumInt DEF State
<1> HIDE DEF b, r
<1>5. q \in Segment
  <2>1. {"SYN"} \in SUBSET Flag /\ << >> \in Seq(Byte) /\ 0 \in SeqNum
    BY EmptySeq, SeqNumInt DEF Flag
  <2> QED BY <2>1, SegmentType
<1>6. /\ p \in Segment /\ p.seq = iss /\ p.data = << >> /\ p.sack = {} /\ p.flags = {"SYN"}
      /\ p.tsval = now
  <2>1. p \in Segment
    <3> HIDE DEF q
    <3> QED BY <1>5 DEF Segment
  <2> QED BY <2>1 DEF segment
<1>7. ConnOK(c)
  <2>1. p \in Segment
    BY <1>6
  <2> HIDE DEF p
  <2> QED BY <1>4, <2>1, SentType
<1> HIDE DEF p
<1>8. /\ c.una = iss /\ c.nxt = wrapping_add(iss, 1) /\ c.send_buf = << >>
      /\ c.retx = {SynEntry(iss, p)} /\ ~c.peer_fin /\ c.pending_fin = NoFin
      /\ ~c.keepalive_enabled /\ c.ts_recent = 0 /\ c.state = "SynSent"
  BY <1>3, <1>4 DEF Sent, record, SynEntry, ConnOK, Connection
<1> HIDE DEF c
<1>9. Opened(c, iss, p)
  BY <1>6, <1>7, <1>8 DEF Opened
<1>10. /\ Opened(r.tcb, iss, p) /\ r.out = {p} /\ r.tcb.state = "SynSent"
       /\ p.flags = {"SYN"} /\ p.tsval = now /\ r.tcb.ts_recent = 0
  BY <1>2, <1>6, <1>8, <1>9
<1> QED BY <1>10 DEF r, Connecting

-----------------------------------------------------------------------------
(* Positions counted from an initial sequence number *)

\* A number further on, when the circle is not gone round.
LEMMA PosAdd ==
    ASSUME NEW i \in SeqNum, NEW x \in SeqNum, NEW n \in Nat, wrapping_sub(x, i) + n < SeqMod
    PROVE  wrapping_sub(wrapping_add(x, n), i) = wrapping_sub(x, i) + n /\ wrapping_add(x, n) \in SeqNum
<1> DEFINE d == wrapping_sub(x, i)
           y == wrapping_add(x, n)
<1>1. d \in SeqNum /\ d = IF i <= x THEN x - i ELSE (x - i) + SeqMod
  BY SubIs
<1> HIDE DEF d
<1>2. n \in SeqNum
  BY <1>1, CircleIs DEF d
<1>3. y \in SeqNum /\ y = IF x + n < SeqMod THEN x + n ELSE (x + n) - SeqMod
  BY <1>2, AddIs
<1> HIDE DEF y
<1>4. wrapping_sub(y, i) = IF i <= y THEN y - i ELSE (y - i) + SeqMod
  BY <1>3, SubIs
<1>5. d + n < SeqMod
  BY DEF d
<1>6. wrapping_sub(y, i) = d + n
  BY <1>1, <1>3, <1>4, <1>5, CircleIs
<1> QED BY <1>3, <1>6 DEF d, y

\* A number is given by its position.
LEMMA PosSame ==
    ASSUME NEW i \in SeqNum, NEW x \in SeqNum, NEW y \in SeqNum, wrapping_sub(x, i) = wrapping_sub(y, i)
    PROVE  x = y
<1>1. x = wrapping_add(i, wrapping_sub(x, i)) /\ y = wrapping_add(i, wrapping_sub(y, i))
  BY RoundTrip
<1> QED BY <1>1

\* In half the circle from i on, before is the order of the positions.
LEMMA PosBefore ==
    ASSUME NEW i \in SeqNum, NEW x \in SeqNum, NEW y \in SeqNum,
           wrapping_sub(x, i) < Half, wrapping_sub(y, i) < Half
    PROVE  before(x, y) <=> wrapping_sub(x, i) < wrapping_sub(y, i)
<1>1. /\ wrapping_sub(x, i) = IF i <= x THEN x - i ELSE (x - i) + SeqMod
      /\ wrapping_sub(y, i) = IF i <= y THEN y - i ELSE (y - i) + SeqMod
      /\ wrapping_sub(x, y) = IF y <= x THEN x - y ELSE (x - y) + SeqMod
  BY SubIs
<1> QED BY <1>1, CircleIs DEF before

\* Offsets are positions counted from the first byte, which follows the SYN.
LEMMA PosOff ==
    ASSUME NEW i \in SeqNum, NEW x \in SeqNum
    PROVE  /\ wrapping_sub(x, i) \in SeqNum
           /\ wrapping_sub(x, wrapping_add(i, 1)) =
                 IF wrapping_sub(x, i) >= 1 THEN wrapping_sub(x, i) - 1 ELSE SeqMod - 1
<1> DEFINE b == wrapping_add(i, 1)
<1>1. 1 \in SeqNum
  BY CircleIs
<1>2. b \in SeqNum /\ b = IF i + 1 < SeqMod THEN i + 1 ELSE (i + 1) - SeqMod
  BY <1>1, AddIs
<1> HIDE DEF b
<1>3. /\ wrapping_sub(x, i) = IF i <= x THEN x - i ELSE (x - i) + SeqMod
      /\ wrapping_sub(x, b) = IF b <= x THEN x - b ELSE (x - b) + SeqMod
      /\ wrapping_sub(x, i) \in SeqNum
  BY <1>2, SubIs
<1>4. wrapping_sub(x, b) = IF wrapping_sub(x, i) >= 1 THEN wrapping_sub(x, i) - 1 ELSE SeqMod - 1
  BY <1>2, <1>3, CircleIs
<1> QED BY <1>3, <1>4 DEF b

\* Positions are natural numbers.
LEMMA PosNat == ASSUME NEW i \in SeqNum, NEW x \in SeqNum PROVE wrapping_sub(x, i) \in Nat
<1>1. wrapping_sub(x, i) \in SeqNum
  BY SubIs
<1> QED BY <1>1, CircleIs

-----------------------------------------------------------------------------
(* What the reassembler does to a stream in which the byte at offset k has *)
(* value k + 1 and of which S bytes exist                                  *)

\* f holds bytes of the stream.
Right(f, S) ==
    /\ Len(f.data) > 0 /\ f.off + Len(f.data) <= S
    /\ \A k \in 1 .. Len(f.data) : f.data[k] = f.off + k

\* The offsets of a set of fragments.
Offsets(F) == UNION {FragOffsets(f) : f \in F}

\* The numbers of a fragment that is right.
LEMMA RightNumbers ==
    ASSUME NEW S \in Nat, S < SeqMod, NEW f \in Frag, Right(f, S)
    PROVE  /\ f.off \in Nat /\ Len(f.data) \in Nat /\ Len(f.data) > 0
           /\ f.off + Len(f.data) <= S /\ FragEnd(f) = f.off + Len(f.data)
           /\ FragOffsets(f) = f.off .. f.off + Len(f.data) - 1
<1>1. f.off \in SeqNum /\ f.data \in Seq(Byte)
  BY DEF Frag
<1>2. Len(f.data) \in Nat /\ f.off \in Nat
  BY <1>1, LenProperties, CircleIs
<1>3. Len(f.data) > 0 /\ f.off + Len(f.data) <= S
  BY DEF Right
<1>4. Len(f.data) \in SeqNum
  BY <1>2, <1>3, CircleIs
<1>5. FragEnd(f) = IF f.off + Len(f.data) < SeqMod THEN f.off + Len(f.data)
                  ELSE (f.off + Len(f.data)) - SeqMod
  BY <1>1, <1>4, AddIs DEF FragEnd
<1>6. FragEnd(f) = f.off + Len(f.data)
  BY <1>2, <1>3, <1>5, SeqModType
<1> QED BY <1>2, <1>3, <1>6 DEF FragOffsets

\* What follows the run is in it, and what is in it follows it.
LEMMA RunCloses ==
    ASSUME NEW F, NEW cur
    PROVE  LET run == UnbrokenRun(F, cur)
           IN  /\ run \subseteq F
               /\ \A f \in F : f.off = cur \/ (\E g \in run : f.off = FragEnd(g)) => f \in run
               /\ \A f \in run : f.off = cur \/ \E g \in run : f.off = FragEnd(g)
<1> DEFINE Closed(C) == \A f \in F : (f.off = cur \/ \E g \in C : f.off = FragEnd(g)) => f \in C
           run == UnbrokenRun(F, cur)
<1>1. run = {f \in F : \A C \in SUBSET F : Closed(C) => f \in C}
  BY DEF UnbrokenRun
<1> HIDE DEF run
<1>2. ASSUME NEW f \in F, f.off = cur \/ \E g \in run : f.off = FragEnd(g) PROVE f \in run
  <2> SUFFICES ASSUME NEW C \in SUBSET F, Closed(C) PROVE f \in C
    BY <1>1
  <2>1. run \subseteq C
    BY <1>1
  <2> QED BY <1>2, <2>1
<1>3. ASSUME NEW f \in run PROVE f.off = cur \/ \E g \in run : f.off = FragEnd(g)
  <2> DEFINE C == {h \in run : h.off = cur \/ \E g \in run : h.off = FragEnd(g)}
  <2>1. C \in SUBSET F
    BY <1>1
  <2>2. Closed(C)
    BY <1>2
  <2> HIDE DEF C
  <2>3. f \in C
    BY <1>1, <1>3, <2>1, <2>2
  <2> QED BY <2>3 DEF C
<1> QED BY <1>1, <1>2, <1>3 DEF run

\* The run is a stretch of the stream that starts at cur, and nothing starts where it ends.
LEMMA RunIsStretch ==
    ASSUME NEW F \in SUBSET Frag, NEW S \in Nat, S < SeqMod, \A f \in F : Right(f, S),
           NEW cur \in Nat
    PROVE  LET run == UnbrokenRun(F, cur)
           IN  /\ RunLength(run) \in Nat
               /\ Offsets(run) = cur .. cur + RunLength(run) - 1
               /\ RunLength(run) > 0 => cur + RunLength(run) <= S
               /\ \A f \in F \ run : f.off # cur + RunLength(run)
<1> DEFINE run == UnbrokenRun(F, cur)
           U == Offsets(run)
<1>1. /\ run \subseteq F
      /\ \A f \in F : f.off = cur \/ (\E g \in run : f.off = FragEnd(g)) => f \in run
      /\ \A f \in run : f.off = cur \/ \E g \in run : f.off = FragEnd(g)
  BY RunCloses
<1>2. \A f \in F : /\ f.off \in Nat /\ Len(f.data) \in Nat /\ Len(f.data) > 0
                   /\ f.off + Len(f.data) <= S /\ FragEnd(f) = f.off + Len(f.data)
                   /\ FragOffsets(f) = f.off .. f.off + Len(f.data) - 1
  BY RightNumbers
<1>3. \A f \in run : f.off >= cur
  <2> DEFINE C == {h \in run : h.off >= cur}
  <2>1. C \in SUBSET F
    BY <1>1
  <2>2. \A f \in F : (f.off = cur \/ \E g \in C : f.off = FragEnd(g)) => f \in C
    BY <1>1, <1>2
  <2> HIDE DEF C
  <2>3. \A f \in run : f \in C
    BY <2>1, <2>2 DEF UnbrokenRun
  <2> QED BY <2>3 DEF C
<1>4. \A y : y \in U <=> \E f \in run : y \in f.off .. f.off + Len(f.data) - 1
  BY <1>1, <1>2 DEF Offsets
<1>5. RunLength(run) = Cardinality(U)
  BY DEF RunLength, Offsets
<1> HIDE DEF run, U
<1>6. U \subseteq cur .. S - 1
  BY <1>1, <1>2, <1>3, <1>4
<1>7. CASE U = {}
  <2>1. RunLength(run) = 0
    BY <1>5, <1>7, FS_EmptySet
  <2>2. run = {}
    <3> SUFFICES ASSUME NEW f \in run PROVE FALSE
      OBVIOUS
    <3>1. f.off \in U
      BY <1>1, <1>2, <1>4
    <3> QED BY <1>7, <3>1
  <2> QED BY <1>1, <1>7, <2>1, <2>2 DEF run, U
<1>8. CASE U # {}
  <2>1. PICK m \in U : \A y \in U : y <= m
    <3>1. U \in SUBSET (0 .. S)
      BY <1>6
    <3> QED BY <1>8, <3>1, GreatestNumber
  <2>2. m \in cur .. S - 1
    BY <1>6, <2>1
  <2>3. ASSUME NEW y \in U, y # cur PROVE y - 1 \in U
    <3>1. PICK f \in run : y \in f.off .. f.off + Len(f.data) - 1
      BY <1>4, <2>3
    <3>2. f.off \in Nat /\ Len(f.data) \in Nat /\ f.off >= cur
      BY <1>1, <1>2, <1>3
    <3>3. CASE y # f.off
      BY <1>4, <3>1, <3>2, <3>3
    <3>4. CASE y = f.off
      <4>1. PICK g \in run : f.off = FragEnd(g)
        BY <1>1, <2>3, <3>4
      <4>2. g.off \in Nat /\ Len(g.data) \in Nat /\ Len(g.data) > 0 /\ y = g.off + Len(g.data)
        BY <1>1, <1>2, <3>4, <4>1
      <4> QED BY <1>4, <4>2
    <3> QED BY <3>3, <3>4
  <2>4. cur .. m \subseteq U
    <3> DEFINE T == {d \in 0 .. m - cur : m - d \in U}
    <3>1. 0 \in T
      BY <2>1, <2>2
    <3>2. ASSUME NEW d \in 0 .. (m - cur) - 1, d \in T PROVE d + 1 \in T
      <4>1. m - d \in U /\ m - d # cur
        BY <2>2, <3>2
      <4>2. (m - d) - 1 \in U
        BY <2>3, <4>1
      <4> QED BY <2>2, <4>2
    <3> HIDE DEF T
    <3>3. 0 .. m - cur \subseteq T
      BY <2>2, <3>1, <3>2, SetInduction
    <3>4. ASSUME NEW y \in cur .. m PROVE y \in U
      <4>1. m - y \in 0 .. m - cur /\ m - (m - y) = y
        BY <2>2
      <4> QED BY <3>3, <4>1 DEF T
    <3> QED BY <3>4
  <2>5. U = cur .. m
    <3>1. \A y \in U : y \in cur .. m
      BY <1>6, <2>1, <2>2
    <3> QED BY <2>4, <3>1
  <2>6. Cardinality(cur .. m) = m - cur + 1
    <3>1. cur \in Int /\ m \in Int /\ cur <= m
      BY <2>2
    <3>2. Cardinality(cur .. m) = IF cur > m THEN 0 ELSE m - cur + 1
      BY <3>1, FS_Interval
    <3> QED BY <3>1, <3>2
  <2>7. RunLength(run) = m - cur + 1
    BY <1>5, <2>5, <2>6
  <2>8. ASSUME NEW f \in F, f.off = m + 1 PROVE f \in run
    <3>1. PICK g \in run : m \in g.off .. g.off + Len(g.data) - 1
      BY <1>4, <2>1
    <3>2. g.off \in Nat /\ Len(g.data) \in Nat /\ Len(g.data) > 0 /\ FragEnd(g) = g.off + Len(g.data)
      BY <1>1, <1>2
    <3>3. g.off + Len(g.data) - 1 \in U
      BY <1>4, <3>2
    <3>4. FragEnd(g) = m + 1
      BY <2>1, <2>2, <3>1, <3>2, <3>3
    <3> QED BY <1>1, <2>8, <3>4
  <2>9. m - cur + 1 \in Nat /\ cur + (m - cur + 1) = m + 1 /\ m + 1 <= S
    BY <2>2
  <2>10. cur .. cur + (m - cur + 1) - 1 = cur .. m
    BY <2>2
  <2> QED BY <2>5, <2>7, <2>8, <2>9, <2>10 DEF run, U
<1> QED BY <1>7, <1>8

\* The bytes of the run are the right ones.
LEMMA RunBytesRight ==
    ASSUME NEW F \in SUBSET Frag, NEW S \in Nat, S < SeqMod, \A f \in F : Right(f, S),
           NEW cur \in Nat
    PROVE  LET b == RunBytes(UnbrokenRun(F, cur), cur)
               n == RunLength(UnbrokenRun(F, cur))
           IN  b \in Seq(Nat) /\ Len(b) = n /\ \A k \in 1 .. n : b[k] = cur + k
<1> DEFINE run == UnbrokenRun(F, cur)
           n == RunLength(run)
           b == RunBytes(run, cur)
<1>1. n \in Nat /\ Offsets(run) = cur .. cur + n - 1
  BY RunIsStretch
<1>2. run \subseteq F
  BY RunCloses
<1>3. b = [k \in 1 .. n |-> LET f == CHOOSE g \in run : cur + k - 1 \in FragOffsets(g)
                            IN  f.data[cur + k - f.off]]
  BY DEF RunBytes
<1> HIDE DEF run, n, b
<1>4. ASSUME NEW k \in 1 .. n PROVE b[k] = cur + k
  <2> DEFINE f == CHOOSE g \in run : cur + k - 1 \in FragOffsets(g)
  <2>1. cur + k - 1 \in Offsets(run)
    BY <1>1
  <2>2. f \in run /\ cur + k - 1 \in FragOffsets(f)
    BY <2>1 DEF Offsets
  <2>3. b[k] = f.data[cur + k - f.off]
    BY <1>3
  <2> HIDE DEF f
  <2>4. /\ f.off \in Nat /\ Len(f.data) \in Nat /\ FragOffsets(f) = f.off .. f.off + Len(f.data) - 1
        /\ \A j \in 1 .. Len(f.data) : f.data[j] = f.off + j
    BY <1>2, <2>2, RightNumbers DEF Right
  <2>5. cur + k - f.off \in 1 .. Len(f.data)
    BY <1>1, <2>2, <2>4
  <2>6. f.data[cur + k - f.off] = f.off + (cur + k - f.off)
    BY <2>4, <2>5
  <2> QED BY <1>1, <2>3, <2>4, <2>6
<1>5. b \in [1 .. n -> Nat]
  <2>1. b = [k \in 1 .. n |-> b[k]]
    BY <1>3
  <2>2. \A k \in 1 .. n : b[k] \in Nat
    BY <1>1, <1>4
  <2> QED BY <2>1, <2>2
<1>6. b \in Seq(Nat) /\ Len(b) = n
  <2>1. b \in Seq(Nat)
    BY <1>1, <1>5, SeqDef
  <2> QED BY <1>1, <1>5, <2>1, LenProperties
<1> QED BY <1>4, <1>6 DEF run, n, b

\* What is covered ahead of a gap, or lies below n.
Reached(F, n, y) == y < n \/ y \in Offsets(F)

(***************************************************************************)
(* recv of bytes of the stream, which start at offset a: what comes out    *)
(* continues the stream, what is buffered is right, nothing buffered is    *)
(* due, and nothing that was reached is dropped: provided that a fragment  *)
(* at the same offset has the same length.                                 *)
(***************************************************************************)
LEMMA RecvRight ==
    ASSUME NEW r, ReasmOK(r), NEW seq \in SeqNum, NEW data \in Seq(Byte), NEW rcv_nxt \in SeqNum,
           NEW S \in Nat, S < SeqMod, \A f \in r.frags : Right(f, S),
           data # << >> => /\ wrapping_sub(seq, r.base) + Len(data) <= S
                           /\ \A k \in 1 .. Len(data) : data[k] = wrapping_sub(seq, r.base) + k
    PROVE  LET d == recv(r, seq, data, rcv_nxt)
               n == wrapping_sub(rcv_nxt, r.base)
               a == wrapping_sub(seq, r.base)
           IN  /\ d.reasm.base = r.base /\ ReasmOK(d.reasm)
               /\ \A f \in d.reasm.frags : Right(f, S)
               /\ d.out \in Seq(Nat) /\ Len(d.out) \in Nat
               /\ \A k \in 1 .. Len(d.out) : d.out[k] = n + k
               /\ Len(d.out) > 0 => n + Len(d.out) <= S
               /\ (\A f \in r.frags : f.off # n)
                     => \A f \in d.reasm.frags : f.off # n + Len(d.out)
               /\ (\A f \in r.frags : f.off # n)
                     => \A f \in d.reasm.frags : f \in r.frags \/ (data # << >> /\ f.off = a /\ Len(f.data) = Len(data))
               /\ (\A f \in r.frags : f.off # n /\ (data # << >> /\ f.off = a => Len(f.data) = Len(data)))
                     => \A y \in Nat : Reached(r.frags, n, y) => Reached(d.reasm.frags, n + Len(d.out), y)
<1> DEFINE n       == wrapping_sub(rcv_nxt, r.base)
           a       == wrapping_sub(seq, r.base)
           old     == a < n
           skip    == IF old THEN n - a ELSE 0
           off     == IF old THEN n ELSE a
           dropped == skip >= Len(data) \/ off - n > MaxAhead
           frag    == [off |-> off, data |-> SubSeq(data, skip + 1, Len(data))]
           frags   == {f \in r.frags : f.off # off} \cup {frag}
           run     == UnbrokenRun(frags, n)
           d       == recv(r, seq, data, rcv_nxt)
<1>1. r.base \in SeqNum /\ r.frags \in SUBSET Frag
  BY DEF ReasmOK, Reasm
<1>2. n \in SeqNum /\ a \in SeqNum /\ n \in Nat /\ a \in Nat /\ Len(data) \in Nat
  BY <1>1, SubIs, PosNat, LenProperties
<1>3. ReasmOK(d.reasm) /\ d.reasm.base = r.base
  BY RecvType
<1>4. d = IF dropped THEN [reasm |-> r, out |-> << >>]
          ELSE [reasm |-> [r EXCEPT !.frags = frags \ run], out |-> RunBytes(run, n)]
  BY DEF recv
<1>5. data # << >> => a + Len(data) <= S /\ \A k \in 1 .. Len(data) : data[k] = a + k
  OBVIOUS
<1> HIDE DEF d, n, a
<1>6. CASE dropped
  <2>1. d.reasm = r /\ d.out = << >>
    BY <1>4, <1>6
  <2>2. Len(d.out) = 0 /\ d.out \in Seq(Nat)
    BY <2>1, EmptySeq
  <2>3. n + 0 = n
    BY <1>2
  <2> QED BY <1>2, <1>3, <2>1, <2>2, <2>3 DEF d, n, a
<1>7. CASE ~dropped
  <2>1. skip \in Nat /\ off \in Nat /\ off \in SeqNum /\ skip < Len(data) /\ off = a + skip /\ off >= n
    <3>1. CASE old
      BY <1>2, <1>7, <3>1
    <3>2. CASE ~old
      BY <1>2, <1>7, <3>2
    <3> QED BY <3>1, <3>2
  <2>2. data # << >> /\ a + Len(data) <= S
    <3>1. data = << >> => Len(data) = 0
      OBVIOUS
    <3> QED BY <1>2, <1>5, <2>1, <3>1
  <2> DEFINE u == SubSeq(data, skip + 1, Len(data))
  <2>3. u \in Seq(Byte) /\ Len(u) = Len(data) - skip /\ \A k \in 1 .. Len(u) : u[k] = off + k
    <3>1. u \in Seq(Byte)
      <4> HIDE DEF skip, off
      <4> QED BY <1>2, <2>1, SubSeqType
    <3>2. \A k \in skip + 1 .. Len(data) : data[k] \in Byte
      <4> HIDE DEF skip, off
      <4> QED BY <1>2, <2>1, ElementOfSeq
    <3>3. /\ Len(u) = (IF skip + 1 <= Len(data) THEN Len(data) - (skip + 1) + 1 ELSE 0)
          /\ \A k \in 1 .. Len(data) - (skip + 1) + 1 : u[k] = data[(skip + 1) + k - 1]
      <4> HIDE DEF skip, off
      <4> QED BY <1>2, <2>1, <3>2, SubSeqProperties
    <3> HIDE DEF u, skip, off
    <3>4. Len(u) = Len(data) - skip
      BY <1>2, <2>1, <3>3
    <3>5. ASSUME NEW k \in 1 .. Len(u) PROVE u[k] = off + k
      <4>1. k \in 1 .. Len(data) - (skip + 1) + 1 /\ (skip + 1) + k - 1 = skip + k /\ skip + k \in 1 .. Len(data)
        BY <1>2, <2>1, <3>4
      <4>2. u[k] = data[skip + k]
        BY <3>3, <4>1
      <4>3. data[skip + k] = a + (skip + k)
        BY <1>5, <2>2, <4>1
      <4> QED BY <1>2, <2>1, <4>1, <4>2, <4>3
    <3> QED BY <3>1, <3>4, <3>5
  <2>4. frag.off = off /\ frag.data = u
    OBVIOUS
  <2>5. frag \in Frag /\ Right(frag, S) /\ frag.off + Len(frag.data) = a + Len(data)
    <3>1. frag \in Frag
      <4> HIDE DEF u, off
      <4> QED BY <2>1, <2>3 DEF Frag
    <3> HIDE DEF frag, u, skip, off
    <3>2. Len(frag.data) = Len(data) - skip /\ frag.off = a + skip
      BY <2>1, <2>3, <2>4
    <3>3. Len(frag.data) > 0 /\ frag.off + Len(frag.data) = a + Len(data)
      BY <1>2, <2>1, <3>2
    <3>4. \A k \in 1 .. Len(frag.data) : frag.data[k] = frag.off + k
      BY <2>3, <2>4
    <3> QED BY <2>2, <3>1, <3>3, <3>4 DEF Right
  <2>6. d.reasm.frags = frags \ run /\ d.out = RunBytes(run, n)
    <3> HIDE DEF run, frags, dropped
    <3> QED BY <1>4, <1>7 DEF ReasmOK, Reasm
  <2> HIDE DEF frag, u, skip, off, dropped
  <2>7. frags \in SUBSET Frag /\ \A f \in frags : Right(f, S)
    BY <1>1, <2>5
  <2>8. run \subseteq frags
    BY RunCloses
  <2>9. frag \in frags
    OBVIOUS
  <2>10. \A f \in r.frags : f.off # off => f \in frags
    OBVIOUS
  <2>11. \A f \in frags : f = frag \/ f \in r.frags
    OBVIOUS
  <2> HIDE DEF frags
  <2> DEFINE l == RunLength(run)
  <2>12. /\ l \in Nat /\ Offsets(run) = n .. n + l - 1 /\ (l > 0 => n + l <= S)
         /\ \A f \in frags \ run : f.off # n + l
    BY <1>2, <2>7, RunIsStretch
  <2>13. d.out \in Seq(Nat) /\ Len(d.out) = l /\ \A k \in 1 .. l : d.out[k] = n + k
    BY <1>2, <2>6, <2>7, RunBytesRight, ZenonT(40)
  <2> HIDE DEF l, run
  <2>14. ASSUME NEW f \in frags \ run, \A g \in r.frags : g.off # n
         PROVE  f \in r.frags \/ (data # << >> /\ f.off = a /\ Len(f.data) = Len(data))
    <3> SUFFICES ASSUME f = frag PROVE f.off = a /\ Len(f.data) = Len(data)
      BY <2>2, <2>11
    <3>1. frag.off # n
      BY <2>14, RunCloses DEF run
    <3>2. skip = 0
      BY <1>2, <2>1, <2>4, <3>1 DEF skip, off
    <3> QED BY <1>2, <2>1, <2>3, <2>4, <3>2
  <2>15. ASSUME \A f \in r.frags : f.off # n /\ (data # << >> /\ f.off = a => Len(f.data) = Len(data)),
                NEW y \in Nat, Reached(r.frags, n, y)
         PROVE  Reached(frags \ run, n + l, y)
    <3>1. CASE y < n
      BY <1>2, <2>12, <3>1 DEF Reached
    <3>2. CASE y \in Offsets(r.frags)
      <4>1. PICK f \in r.frags : y \in FragOffsets(f)
        BY <3>2 DEF Offsets
      <4>2. PICK g \in frags : y \in FragOffsets(g)
        <5>1. CASE f.off # off
          BY <2>10, <4>1, <5>1
        <5>2. CASE f.off = off
          <6>1. off = a /\ skip = 0
            BY <1>2, <2>1, <2>15, <5>2 DEF off, skip
          <6>2. Len(f.data) = Len(frag.data) /\ frag.off = f.off
            BY <1>2, <2>2, <2>3, <2>4, <2>15, <5>2, <6>1
          <6>3. y \in FragOffsets(frag)
            BY <4>1, <6>2 DEF FragOffsets
          <6> QED BY <2>9, <6>3
        <5> QED BY <5>1, <5>2
      <4>3. CASE g \in run
        <5>1. y \in Offsets(run)
          BY <4>2, <4>3 DEF Offsets
        <5>2. y < n + l
          BY <1>2, <2>12, <5>1
        <5> QED BY <5>2 DEF Reached
      <4>4. CASE g \notin run
        BY <4>2, <4>4 DEF Reached, Offsets
      <4> QED BY <4>3, <4>4
    <3> QED BY <2>15, <3>1, <3>2 DEF Reached
  <2>16. \A f \in frags \ run : Right(f, S)
    BY <2>7
  <2>17. \A f \in frags \ run : f.off # n + Len(d.out)
    BY <2>12, <2>13
  <2> QED BY <1>2, <1>3, <2>6, <2>12, <2>13, <2>14, <2>15, <2>16, <2>17 DEF d, n, a
<1> QED BY <1>6, <1>7

-----------------------------------------------------------------------------
(* One direction of the pair.  c is the connection that sends, d the one   *)
(* that receives; i is the initial sequence number of c, j that of d; w    *)
(* bytes have been written to c; Q are the datagrams on their way from c   *)
(* to d; rcvd is what d has delivered.  S is how much of the stream is on  *)
(* the wire and N the position of SND.NXT: N = S + 1, or S + 2 once the    *)
(* FIN is out.                                                             *)

\* p is a segment of the stream.
Genuine(i, S, N, p) ==
    LET q == wrapping_sub(p.seq, i)
    IN  /\ p \in Segment /\ "RST" \notin p.flags
        /\ q <= N
        /\ p.data # << >> => /\ q >= 1 /\ q + Len(p.data) <= S + 1
                             /\ \A k \in 1 .. Len(p.data) : p.data[k] = q + k - 1
        /\ "FIN" \in p.flags => q = S + 1 /\ N = S + 2 /\ p.data = << >>
        /\ "SYN" \in p.flags => q = 0 /\ p.data = << >> /\ "FIN" \notin p.flags
        /\ "SYN" \notin p.flags => q >= 1

\* p acknowledges nothing at or beyond position R.
Acked(j, R, p) == "ACK" \in p.flags => wrapping_sub(p.ack, j) >= 1 /\ wrapping_sub(p.ack, j) <= R

\* What is left of the stream is in the buffer.
Sending(i, w, c) ==
    LET S == w - Len(c.send_buf)
        N == wrapping_sub(c.nxt, i)
    IN  /\ ConnOK(c) /\ IsFiniteSet(c.retx) /\ ~c.keepalive_enabled
        /\ Len(c.send_buf) <= w /\ \A k \in 1 .. Len(c.send_buf) : c.send_buf[k] = S + k
        /\ N = S + 1 \/ N = S + 2
        /\ c.state \notin FinOut => N = S + 1
        /\ c.state \in FinOut \ {"Closed"} => N = S + 2

\* What has been delivered is the start of the stream, and what is buffered is part of it.
Receiving(i, S, N, d, rcvd) ==
    /\ d.reasm.base = wrapping_add(i, 1)
    /\ wrapping_sub(d.rcv_nxt, i) = 1 + Len(rcvd) + (IF d.peer_fin THEN 1 ELSE 0)
    /\ Len(rcvd) <= S /\ \A k \in 1 .. Len(rcvd) : rcvd[k] = k
    /\ \A f \in d.reasm.frags : Right(f, S)
    /\ d.pending_fin # NoFin => N = S + 2 /\ wrapping_sub(d.pending_fin, i) = S + 1
    /\ d.peer_fin => N = S + 2 /\ Len(rcvd) = S

\* c knows the peer's sequence space; how far it has got in it.
Knows(c) == c # NoConn /\ c.state # "SynSent"

\* RCV.NXT of c as a position in the stream it receives.
RcvPos(j, c) == IF Knows(c) THEN wrapping_sub(c.rcv_nxt, j) ELSE 0

\* How much of the w bytes written to c has left the buffer.
Wire(w, c) == IF c # NoConn THEN w - Len(c.send_buf) ELSE 0

\* SND.NXT of c as a position in the stream it sends.
NxtPos(i, c) == wrapping_sub(c.nxt, i)

\* The packets that c may send again.
Packets(c) == IF c # NoConn THEN Pkts(c.retx) ELSE {}

\* The invariant of one direction.
Direction(i, j, w, c, d, Q, rcvd) ==
    /\ c = NoConn => Q = {} /\ w = 0
    /\ c # NoConn => Sending(i, w, c)
    /\ \A p \in Q \cup Packets(c) : Genuine(i, Wire(w, c), NxtPos(i, c), p) /\ Acked(j, RcvPos(j, c), p)
    /\ Knows(d) => c # NoConn /\ ConnOK(d) /\ Receiving(i, Wire(w, c), NxtPos(i, c), d, rcvd)
    /\ ~Knows(d) => rcvd = << >> /\ (d # NoConn => ~d.peer_fin /\ d.pending_fin = NoFin)
    /\ c # NoConn => /\ wrapping_sub(c.una, i) <= RcvPos(i, d)
                     /\ c.state \in Done => RcvPos(i, d) = NxtPos(i, c)

\* More of the stream is on the wire, unless it has ended.
Grows(S, N, S2, N2) == S <= S2 /\ N <= N2 /\ (N = S + 2 => S2 = S /\ N2 = N)

\* A segment of the stream stays one.
LEMMA GenuineGrows ==
    ASSUME NEW i \in SeqNum, NEW S \in Nat, NEW N \in Nat, NEW S2 \in Nat, NEW N2 \in Nat,
           Grows(S, N, S2, N2), NEW p, Genuine(i, S, N, p)
    PROVE  Genuine(i, S2, N2, p)
<1> DEFINE q == wrapping_sub(p.seq, i)
<1>1. q \in Nat /\ Len(p.data) \in Nat
  BY PosNat, SegmentFields, LenProperties DEF Genuine
<1> HIDE DEF q
<1>2. /\ p \in Segment /\ "RST" \notin p.flags
      /\ q <= N
      /\ p.data # << >> => /\ q >= 1 /\ q + Len(p.data) <= S + 1
                           /\ \A k \in 1 .. Len(p.data) : p.data[k] = q + k - 1
      /\ "FIN" \in p.flags => q = S + 1 /\ N = S + 2 /\ p.data = << >>
      /\ "SYN" \in p.flags => q = 0 /\ p.data = << >> /\ "FIN" \notin p.flags
      /\ "SYN" \notin p.flags => q >= 1
  BY DEF Genuine, q
<1>3. q <= N2 /\ (q + Len(p.data) <= S + 1 => q + Len(p.data) <= S2 + 1)
  BY <1>1, <1>2 DEF Grows
<1>4. "FIN" \in p.flags => q = S2 + 1 /\ N2 = S2 + 2
  BY <1>2 DEF Grows
<1> QED BY <1>2, <1>3, <1>4 DEF Genuine, q

\* So does a prefix.
LEMMA ReceivingGrows ==
    ASSUME NEW i \in SeqNum, NEW S \in Nat, NEW N \in Nat, NEW S2 \in Nat, NEW N2 \in Nat,
           Grows(S, N, S2, N2), NEW d, ConnOK(d), NEW rcvd, Len(rcvd) \in Nat, Receiving(i, S, N, d, rcvd)
    PROVE  Receiving(i, S2, N2, d, rcvd)
<1>1. \A f \in d.reasm.frags : Right(f, S2)
  <2> TAKE f \in d.reasm.frags
  <2>1. f.off \in Nat /\ Len(f.data) \in Nat
    <3>1. f.off \in SeqNum /\ f.data \in Seq(Byte)
      BY DEF ConnOK, Connection, Reasm, Frag
    <3> QED BY <3>1, CircleIs, LenProperties
  <2>2. Right(f, S)
    BY DEF Receiving
  <2> QED BY <2>1, <2>2 DEF Right, Grows
<1>2. Len(rcvd) <= S2
  BY DEF Receiving, Grows
<1>3. d.pending_fin # NoFin => N2 = S2 + 2 /\ wrapping_sub(d.pending_fin, i) = S2 + 1
  BY DEF Receiving, Grows
<1>4. d.peer_fin => N2 = S2 + 2 /\ Len(rcvd) = S2
  BY DEF Receiving, Grows
<1> QED BY <1>1, <1>2, <1>3, <1>4 DEF Receiving

\* The numbers of a direction.
LEMMA SendingNumbers ==
    ASSUME NEW i \in SeqNum, NEW w \in Nat, NEW c, Sending(i, w, c)
    PROVE  /\ c.nxt \in SeqNum /\ c.una \in SeqNum /\ c.rcv_nxt \in SeqNum /\ c.send_buf \in Seq(Byte)
           /\ c.retx \in SUBSET Unacked
           /\ Len(c.send_buf) \in Nat /\ Len(c.send_buf) <= w
           /\ w - Len(c.send_buf) \in Nat /\ wrapping_sub(c.nxt, i) \in Nat
           /\ wrapping_sub(c.una, i) \in Nat
           /\ wrapping_sub(c.nxt, i) <= w - Len(c.send_buf) + 2 /\ wrapping_sub(c.nxt, i) >= w - Len(c.send_buf) + 1
<1>1. /\ c.nxt \in SeqNum /\ c.una \in SeqNum /\ c.rcv_nxt \in SeqNum /\ c.send_buf \in Seq(Byte)
      /\ c.retx \in SUBSET Unacked
  BY DEF Sending, ConnOK, Connection
<1>2. Len(c.send_buf) \in Nat /\ Len(c.send_buf) <= w
  BY <1>1, LenProperties DEF Sending
<1>3. wrapping_sub(c.nxt, i) \in Nat /\ wrapping_sub(c.una, i) \in Nat
  BY <1>1, PosNat
<1> DEFINE S == w - Len(c.send_buf)
           N == wrapping_sub(c.nxt, i)
<1>4. N = S + 1 \/ N = S + 2
  BY DEF Sending
<1>5. S \in Nat
  BY <1>2
<1> HIDE DEF S, N
<1>6. N <= S + 2 /\ N >= S + 1
  BY <1>4, <1>5
<1> QED BY <1>1, <1>2, <1>3, <1>5, <1>6 DEF S, N

\* What has been received was sent.
LEMMA ReceivedWasSent ==
    ASSUME NEW i \in SeqNum, NEW S \in Nat, NEW N \in Nat, N >= S + 1,
           NEW d, ConnOK(d), NEW rcvd, Len(rcvd) \in Nat, Receiving(i, S, N, d, rcvd)
    PROVE  /\ d.rcv_nxt \in SeqNum /\ wrapping_sub(d.rcv_nxt, i) \in Nat
           /\ wrapping_sub(d.rcv_nxt, i) >= 1 /\ wrapping_sub(d.rcv_nxt, i) <= N
<1>1. d.rcv_nxt \in SeqNum
  BY DEF ConnOK, Connection
<1>2. wrapping_sub(d.rcv_nxt, i) \in Nat
  BY <1>1, PosNat
<1>3. wrapping_sub(d.rcv_nxt, i) = 1 + Len(rcvd) + (IF d.peer_fin THEN 1 ELSE 0)
  BY DEF Receiving
<1>4. Len(rcvd) <= S /\ (d.peer_fin => N = S + 2 /\ Len(rcvd) = S)
  BY DEF Receiving
<1> QED BY <1>1, <1>2, <1>3, <1>4

-----------------------------------------------------------------------------
(* The queue and the network stay finite *)

\* A finite queue has finitely many packets.
LEMMA PktsFinite == ASSUME NEW q, IsFiniteSet(q) PROVE IsFiniteSet(Pkts(q))
<1> DEFINE f == [s \in q |-> s.pkt]
<1>1. f \in Surjection(q, Pkts(q))
  BY DEF Surjection, Pkts
<1> QED BY <1>1, FS_Surjection

\* A queue that thins stays finite.
LEMMA ThinsFinite ==
    ASSUME NEW q, IsFiniteSet(q), NEW r \in SUBSET Unacked, NEW B, Thins(q, r, B)
    PROVE  IsFiniteSet(r)
<1> DEFINE D == q \X (BOOLEAN \X BOOLEAN)
           f == [x \in D |-> [start |-> x[1].start, end |-> x[1].end, pkt |-> x[1].pkt,
                              retried |-> x[2][1], sacked |-> x[2][2]]]
           T == {f[x] : x \in D}
<1>1. IsFiniteSet(D)
  <2>1. BOOLEAN = {FALSE} \cup {TRUE}
    OBVIOUS
  <2>2. IsFiniteSet({FALSE} \cup {TRUE})
    <3>1. IsFiniteSet({FALSE}) /\ IsFiniteSet({TRUE})
      BY FS_Singleton
    <3> QED BY <3>1, FS_Union
  <2>3. IsFiniteSet(BOOLEAN)
    BY <2>1, <2>2, Zenon
  <2> QED BY <2>3, FS_Product
<1>2. f \in Surjection(D, T)
  <2> HIDE DEF D
  <2> QED BY DEF Surjection
<1>3. IsFiniteSet(T)
  <2> HIDE DEF D, f, T
  <2> QED BY <1>1, <1>2, FS_Surjection
<1>4. ASSUME NEW t \in r PROVE t \in T
  <2>1. PICK s \in q : t.start = s.start /\ t.end = s.end /\ t.pkt = s.pkt
    BY DEF Thins
  <2>2. t = [start |-> t.start, end |-> t.end, pkt |-> t.pkt, retried |-> t.retried, sacked |-> t.sacked]
    BY DEF Unacked
  <2>3. t.retried \in BOOLEAN /\ t.sacked \in BOOLEAN
    BY DEF Unacked
  <2> DEFINE x == << s, << t.retried, t.sacked >> >>
  <2>4. x \in D
    BY <2>3
  <2>5. f[x] = t
    BY <2>1, <2>2, <2>4
  <2> QED BY <2>4, <2>5
<1> QED BY <1>3, <1>4, FS_Subset

-----------------------------------------------------------------------------
(* The sending side of a direction *)

\* The entry t starts k numbers after SND.NXT of c.
CutAt(i, c, t, k) ==
    /\ wrapping_sub(t.pkt.seq, i) = NxtPos(i, c) + k
    /\ wrapping_sub(t.end, i) = NxtPos(i, c) + k + Len(t.pkt.data)

\* A segment cut from the buffer is one of the stream.
LEMMA CutGenuine ==
    ASSUME NEW i \in SeqNum, NEW w \in Nat, w + 3 < Half, NEW c, Sending(i, w, c),
           NxtPos(i, c) = w - Len(c.send_buf) + 1, NEW now, NEW t, NEW k, Cuts(c, now, t, k),
           NEW n \in 0 .. Len(c.send_buf), k + Len(t.pkt.data) <= n
    PROVE  /\ Genuine(i, w - Len(c.send_buf) + n, NxtPos(i, c) + n, t.pkt)
           /\ CutAt(i, c, t, k)
<1> DEFINE p == t.pkt
           S == w - Len(c.send_buf)
           N == NxtPos(i, c)
           l == Len(p.data)
           q == wrapping_sub(p.seq, i)
<1>1. /\ p \in Segment /\ p.seq = wrapping_add(c.nxt, k) /\ p.flags = {"ACK"} /\ k \in Nat /\ l > 0
      /\ \A m \in 1 .. l : p.data[m] = c.send_buf[k + m]
      /\ t.end = wrapping_add(p.seq, l)
  BY DEF Cuts, Unacked, fin_seq
<1>2. /\ c.nxt \in SeqNum /\ Len(c.send_buf) \in Nat /\ Len(c.send_buf) <= w /\ S \in Nat /\ N \in Nat
  BY SendingNumbers DEF NxtPos
<1>3. l \in Nat
  BY <1>1, SegmentFields, LenProperties
<1>4. N = S + 1 /\ k + l <= n /\ n <= Len(c.send_buf) /\ n \in Nat /\ S + Len(c.send_buf) = w
  BY <1>2
<1>5. \A m \in 1 .. Len(c.send_buf) : c.send_buf[m] = S + m
  BY DEF Sending
<1> HIDE DEF S, l, q, N
<1>6. N + k < SeqMod /\ N + k + l < SeqMod
  <2>1. Half \in Nat /\ SeqMod = 2 * Half /\ k \in Nat
    BY <1>1, CircleIs
  <2> QED BY <1>2, <1>3, <1>4, <2>1
<1>7. q = N + k /\ p.seq \in SeqNum
  <2>1. wrapping_sub(c.nxt, i) + k < SeqMod
    BY <1>6 DEF NxtPos, N
  <2>2. wrapping_sub(wrapping_add(c.nxt, k), i) = wrapping_sub(c.nxt, i) + k /\ wrapping_add(c.nxt, k) \in SeqNum
    BY <1>1, <1>2, <2>1, PosAdd
  <2> QED BY <1>1, <2>2 DEF NxtPos, q, N
<1>8. wrapping_sub(t.end, i) = N + k + l
  <2>1. wrapping_sub(p.seq, i) + l < SeqMod
    BY <1>6, <1>7 DEF q
  <2>2. wrapping_sub(wrapping_add(p.seq, l), i) = wrapping_sub(p.seq, i) + l
    BY <1>3, <1>7, <2>1, PosAdd
  <2> QED BY <1>1, <1>7, <2>2 DEF q
<1>9. ASSUME NEW m \in 1 .. l PROVE p.data[m] = q + m - 1
  <2>1. k + m \in 1 .. Len(c.send_buf)
    BY <1>1, <1>2, <1>3, <1>4
  <2>2. p.data[m] = S + (k + m)
    BY <1>1, <1>5, <2>1
  <2> QED BY <1>1, <1>2, <1>3, <1>4, <1>7, <2>2
<1>10. q <= N + n /\ q >= 1 /\ q + l <= (S + n) + 1
  BY <1>1, <1>2, <1>3, <1>4, <1>7
<1>11. Genuine(i, S + n, N + n, p)
  <2>1. "RST" \notin p.flags /\ "FIN" \notin p.flags /\ "SYN" \notin p.flags
    BY <1>1
  <2> HIDE DEF p
  <2> QED BY <1>1, <1>9, <1>10, <2>1 DEF Genuine, q, l
<1> QED BY <1>7, <1>8, <1>11 DEF S, N, q, l, CutAt

\* d is c after the first n bytes of its buffer have gone out as the entries E.
EmitsTo(i, w, c, d, n, E) ==
    LET S == w - Len(c.send_buf)
        N == NxtPos(i, c)
    IN  /\ Sending(i, w, d)
        /\ w - Len(d.send_buf) = S + n /\ NxtPos(i, d) = N + n
        /\ Grows(S, N, S + n, N + n)
        /\ n > 0 \/ E # {} => c.state \in SendOpen /\ N = S + 1
        /\ \A t \in E : Genuine(i, S + n, N + n, t.pkt) /\ t.pkt.ack = c.rcv_nxt

\* Sending bytes of the buffer.
LEMMA EmitsSending ==
    ASSUME NEW i \in SeqNum, NEW w \in Nat, w + 3 < Half, NEW c, Sending(i, w, c), NEW r, ConnOK(r.tcb),
           NEW now, NEW n \in 0 .. Len(c.send_buf), NEW E, EmitsBy(c, r, n, E, now)
    PROVE  EmitsTo(i, w, c, r.tcb, n, E) /\ IsFiniteSet(r.out) /\ IsFiniteSet(c.retx \cup E)
<1> DEFINE S == w - Len(c.send_buf)
           N == NxtPos(i, c)
           d == r.tcb
           L == Len(c.send_buf)
<1>1. /\ c.nxt \in SeqNum /\ c.send_buf \in Seq(Byte) /\ L \in Nat /\ L <= w /\ S \in Nat /\ N \in Nat
      /\ S + L = w
  <2>1. /\ c.nxt \in SeqNum /\ c.send_buf \in Seq(Byte) /\ L \in Nat /\ L <= w /\ S \in Nat /\ N \in Nat
    BY SendingNumbers DEF NxtPos
  <2>2. S + L = w
    BY <2>1
  <2> QED BY <2>1, <2>2
<1>2. N = S + 1 \/ N = S + 2
  BY DEF Sending, NxtPos
<1>3. ~c.keepalive_enabled /\ IsFiniteSet(c.retx) /\ \A k \in 1 .. L : c.send_buf[k] = S + k
  BY DEF Sending
<1>4. (c.state \notin FinOut => N = S + 1) /\ (c.state \in FinOut \ {"Closed"} => N = S + 2)
  BY DEF Sending, NxtPos
<1>5. /\ SameRest(c, d) /\ (c.state \in SendOpen \/ (n = 0 /\ E = {})) /\ Emission(c, n, E, now)
      /\ d.nxt = wrapping_add(c.nxt, n) /\ d.send_buf = SubSeq(c.send_buf, n + 1, L)
      /\ Thins(c.retx \cup E, d.retx, {}) /\ r.out \subseteq Pkts(c.retx \cup E)
      /\ d.state = c.state \/ (n = 0 /\ d.state = "Closed" /\ c.state \notin Opening)
  BY DEF EmitsBy
<1>6. SendOpen \cap FinOut = {}
  BY DEF SendOpen, FinOut, FinPending
<1>7. n > 0 \/ E # {} => c.state \in SendOpen /\ N = S + 1
  <2>1. c.state \in SendOpen => N = S + 1
    BY <1>4, <1>6
  <2>2. n > 0 => n # 0
    OBVIOUS
  <2> HIDE DEF S, N
  <2> QED BY <1>5, <2>1, <2>2
<1>8. n \in Nat /\ n <= L
  BY <1>1
<1> HIDE DEF S, N, d, L
<1>9. Len(d.send_buf) = L - n /\ \A k \in 1 .. L - n : d.send_buf[k] = (S + n) + k
  <2> DEFINE u == SubSeq(c.send_buf, n + 1, L)
  <2>1. \A k \in n + 1 .. L : c.send_buf[k] \in Byte
    BY <1>1, <1>8, ElementOfSeq DEF L
  <2>2. /\ Len(u) = (IF n + 1 <= L THEN L - (n + 1) + 1 ELSE 0)
        /\ \A k \in 1 .. L - (n + 1) + 1 : u[k] = c.send_buf[(n + 1) + k - 1]
    BY <1>1, <1>8, <2>1, SubSeqProperties
  <2> HIDE DEF u
  <2>3. Len(u) = L - n
    BY <1>1, <1>8, <2>2
  <2>4. ASSUME NEW k \in 1 .. L - n PROVE u[k] = (S + n) + k
    <3>1. k \in 1 .. L - (n + 1) + 1 /\ (n + 1) + k - 1 = n + k /\ n + k \in 1 .. L
      BY <1>1, <1>8
    <3>2. u[k] = S + (n + k)
      BY <1>3, <2>2, <3>1
    <3> QED BY <1>1, <1>8, <3>1, <3>2
  <2> QED BY <1>5, <2>3, <2>4 DEF u
<1>10. w - Len(d.send_buf) = S + n /\ Len(d.send_buf) <= w
  BY <1>1, <1>8, <1>9
<1>11. NxtPos(i, d) = N + n
  <2>1. wrapping_sub(c.nxt, i) + n < SeqMod
    BY <1>1, <1>2, <1>8, CircleIs DEF N, NxtPos
  <2> QED BY <1>1, <1>5, <1>8, <2>1, PosAdd DEF N, NxtPos
<1>12. Grows(S, N, S + n, N + n)
  BY <1>1, <1>7, <1>8 DEF Grows
<1>13. IsFiniteSet(c.retx \cup E)
  BY <1>3, <1>5, FS_Union DEF Emission
<1>14. IsFiniteSet(d.retx) /\ IsFiniteSet(r.out)
  <2>1. d.retx \in SUBSET Unacked
    BY DEF ConnOK, Connection, d
  <2>2. IsFiniteSet(d.retx)
    BY <1>5, <1>13, <2>1, ThinsFinite
  <2>3. IsFiniteSet(Pkts(c.retx \cup E))
    BY <1>13, PktsFinite
  <2> QED BY <1>5, <2>2, <2>3, FS_Subset
<1>15. Sending(i, w, d)
  <2>1. ConnOK(d) /\ ~d.keepalive_enabled
    BY <1>3, <1>5 DEF SameRest, d
  <2>2. N + n = (S + n) + 1 \/ N + n = (S + n) + 2
    BY <1>1, <1>2, <1>8
  <2>3. d.state \notin FinOut => N + n = (S + n) + 1
    <3>1. d.state \notin FinOut => d.state = c.state
      BY <1>5 DEF FinOut
    <3> QED BY <1>1, <1>4, <1>8, <3>1
  <2>4. d.state \in FinOut \ {"Closed"} => N + n = (S + n) + 2
    <3>1. d.state \in FinOut \ {"Closed"} => d.state = c.state
      BY <1>5
    <3> QED BY <1>1, <1>4, <1>8, <3>1
  <2>5. \A k \in 1 .. Len(d.send_buf) : d.send_buf[k] = (S + n) + k
    BY <1>9
  <2> QED BY <1>10, <1>11, <1>14, <2>1, <2>2, <2>3, <2>4, <2>5 DEF Sending, NxtPos
<1>16. ASSUME NEW t \in E PROVE Genuine(i, S + n, N + n, t.pkt) /\ t.pkt.ack = c.rcv_nxt
  <2>1. PICK k : Cuts(c, now, t, k) /\ k + Len(t.pkt.data) <= n
    BY <1>5, <1>16 DEF Emission
  <2>2. NxtPos(i, c) = w - Len(c.send_buf) + 1
    BY <1>7, <1>16 DEF S, N
  <2>3. Genuine(i, S + n, N + n, t.pkt)
    BY <2>1, <2>2, CutGenuine DEF S, N
  <2> QED BY <2>1, <2>3 DEF Cuts
<1> QED BY <1>7, <1>10, <1>11, <1>12, <1>13, <1>14, <1>15, <1>16 DEF S, N, d, EmitsTo

\* Sending the FIN.
LEMMA FinSending ==
    ASSUME NEW i \in SeqNum, NEW w \in Nat, w + 3 < Half, NEW c, Sending(i, w, c), NEW r, ConnOK(r.tcb),
           NEW now \in SeqNum, EmitsFin(c, r, now)
    PROVE  LET S == w - Len(c.send_buf)
               N == NxtPos(i, c)
               d == r.tcb
               p == Fin(c, now)
           IN  /\ Sending(i, w, d)
               /\ d.send_buf = c.send_buf /\ NxtPos(i, d) = N + 1 /\ N = S + 1
               /\ Grows(S, N, S, N + 1)
               /\ Genuine(i, S, N + 1, p) /\ p.ack = c.rcv_nxt /\ wrapping_sub(p.seq, i) = N
               /\ IsFiniteSet(r.out) /\ r.out \subseteq Pkts(d.retx) /\ Pkts(d.retx) \subseteq Pkts(c.retx) \cup {p}
<1> DEFINE S == w - Len(c.send_buf)
           N == NxtPos(i, c)
           d == r.tcb
           p == Fin(c, now)
<1>1. /\ c.nxt \in SeqNum /\ c.rcv_nxt \in SeqNum /\ Len(c.send_buf) \in Nat /\ Len(c.send_buf) <= w
      /\ S \in Nat /\ N \in Nat /\ S <= w
  BY SendingNumbers DEF NxtPos
<1>2. /\ SameRest(c, d) /\ c.state \in SendOpen /\ d.state \in {"FinWait1", "LastAck"}
      /\ d.nxt = wrapping_add(c.nxt, 1) /\ d.send_buf = c.send_buf
      /\ d.retx = c.retx \cup {FinEntry(c, now)} /\ r.out = {p}
  BY DEF EmitsFin
<1>3. /\ ~c.keepalive_enabled /\ IsFiniteSet(c.retx) /\ Len(c.send_buf) <= w
      /\ \A k \in 1 .. Len(c.send_buf) : c.send_buf[k] = S + k
  BY DEF Sending
<1>4. N = S + 1
  BY <1>2 DEF Sending, NxtPos, SendOpen, FinOut, FinPending
<1>5. NxtPos(i, d) = N + 1
  <2>1. wrapping_sub(c.nxt, i) + 1 < SeqMod
    <3> HIDE DEF S
    <3>1. N + 1 < SeqMod
      <4> HIDE DEF N
      <4> QED BY <1>1, <1>4, CircleIs
    <3> QED BY <3>1 DEF NxtPos
  <2> QED BY <1>1, <1>2, <2>1, PosAdd DEF NxtPos
<1>6. Grows(S, N, S, N + 1)
  <2> HIDE DEF S, N
  <2> QED BY <1>1, <1>4 DEF Grows
<1>7. p \in Segment /\ p.seq = c.nxt /\ p.ack = c.rcv_nxt /\ p.flags = {"FIN", "ACK"} /\ p.data = << >>
  <2>1. {"FIN", "ACK"} \in SUBSET Flag /\ << >> \in Seq(Byte)
    BY EmptySeq DEF Flag
  <2>2. p \in Segment
    BY <1>1, <2>1, SegmentType DEF Fin
  <2> QED BY <2>2 DEF Fin, segment
<1> HIDE DEF p, S
<1>8. wrapping_sub(p.seq, i) = N
  BY <1>7 DEF NxtPos
<1> HIDE DEF N
<1>9. Genuine(i, S, N + 1, p)
  <2>0. p.flags = {"FIN", "ACK"} => "FIN" \in p.flags /\ "SYN" \notin p.flags /\ "RST" \notin p.flags
    OBVIOUS
  <2>1. N <= N + 1 /\ N + 1 = S + 2 /\ N >= 1
    BY <1>1, <1>4
  <2> QED BY <1>4, <1>7, <1>8, <2>0, <2>1 DEF Genuine
<1>10. FinEntry(c, now).pkt = p
  BY DEF FinEntry, p
<1>11. /\ IsFiniteSet(r.out) /\ IsFiniteSet(d.retx)
       /\ r.out \subseteq Pkts(d.retx) /\ Pkts(d.retx) \subseteq Pkts(c.retx) \cup {p}
  <2>1. IsFiniteSet(r.out)
    BY <1>2, FS_Singleton
  <2>2. IsFiniteSet(d.retx)
    BY <1>2, <1>3, FS_AddElement, SMTT(40)
  <2> HIDE DEF d
  <2> QED BY <1>2, <1>10, <2>1, <2>2 DEF Pkts
<1>12. Sending(i, w, d)
  <2>1. ConnOK(d) /\ ~d.keepalive_enabled
    BY <1>2, <1>3 DEF SameRest
  <2>2. d.state \in FinOut
    BY <1>2 DEF FinOut, FinPending
  <2>3. N + 1 = S + 2
    BY <1>1, <1>4
  <2> HIDE DEF d
  <2> QED BY <1>2, <1>3, <1>5, <1>11, <2>1, <2>2, <2>3 DEF Sending, NxtPos, S
<1> QED BY <1>2, <1>4, <1>5, <1>6, <1>7, <1>8, <1>9, <1>11, <1>12 DEF S, N, p

-----------------------------------------------------------------------------
(* The receiving side of a direction *)

\* The facts a step of the receiver rests on, as numbers.
LEMMA ReceivingNumbers ==
    ASSUME NEW i \in SeqNum, NEW S, NEW N, NEW d, ConnOK(d), NEW rcvd, Len(rcvd) \in Nat,
           Receiving(i, S, N, d, rcvd)
    PROVE  LET R == wrapping_sub(d.rcv_nxt, i)
           IN  /\ R \in Nat /\ R >= 1 /\ d.rcv_nxt \in SeqNum
               /\ d.reasm.base \in SeqNum /\ d.reasm.base = wrapping_add(i, 1)
               /\ wrapping_sub(d.rcv_nxt, d.reasm.base) = R - 1
               /\ R = IF d.peer_fin THEN Len(rcvd) + 2 ELSE Len(rcvd) + 1
<1> DEFINE R == wrapping_sub(d.rcv_nxt, i)
<1>1. d.rcv_nxt \in SeqNum /\ d.reasm.base \in SeqNum /\ d.peer_fin \in BOOLEAN
  BY DEF ConnOK, Connection, Reasm
<1>2. d.reasm.base = wrapping_add(i, 1) /\ R = 1 + Len(rcvd) + (IF d.peer_fin THEN 1 ELSE 0)
  BY DEF Receiving
<1>3. R \in Nat
  BY <1>1, PosNat
<1>4. wrapping_sub(d.rcv_nxt, d.reasm.base) = IF R >= 1 THEN R - 1 ELSE SeqMod - 1
  BY <1>1, <1>2, PosOff
<1> HIDE DEF R
<1>5. R >= 1 /\ R = IF d.peer_fin THEN Len(rcvd) + 2 ELSE Len(rcvd) + 1
  BY <1>2, <1>3
<1> QED BY <1>1, <1>2, <1>3, <1>4, <1>5 DEF R

\* A genuine segment given to the reassembler.
LEMMA GenuineRecv ==
    ASSUME NEW i \in SeqNum, NEW S \in Nat, NEW N \in Nat, S + 3 < Half,
           NEW d, ConnOK(d), NEW rcvd \in Seq(Nat), Receiving(i, S, N, d, rcvd),
           NEW s, Genuine(i, S, N, s)
    PROVE  LET v == recv(d.reasm, s.seq, s.data, d.rcv_nxt)
           IN  /\ v.reasm.base = d.reasm.base /\ ReasmOK(v.reasm)
               /\ \A f \in v.reasm.frags : Right(f, S)
               /\ v.out \in Seq(Nat) /\ Len(v.out) \in Nat /\ rcvd \o v.out \in Seq(Nat)
               /\ Len(rcvd \o v.out) = Len(rcvd) + Len(v.out) /\ Len(rcvd \o v.out) <= S
               /\ \A k \in 1 .. Len(rcvd \o v.out) : (rcvd \o v.out)[k] = k
               /\ d.peer_fin => Len(v.out) = 0
               /\ wrapping_sub(wrapping_add(d.rcv_nxt, Len(v.out)), i) = wrapping_sub(d.rcv_nxt, i) + Len(v.out)
               /\ wrapping_add(d.rcv_nxt, Len(v.out)) \in SeqNum
<1> DEFINE v == recv(d.reasm, s.seq, s.data, d.rcv_nxt)
           R == wrapping_sub(d.rcv_nxt, i)
           q == wrapping_sub(s.seq, i)
           a == wrapping_sub(s.seq, d.reasm.base)
           n == wrapping_sub(d.rcv_nxt, d.reasm.base)
<1>1. Len(rcvd) \in Nat
  BY LenProperties
<1>2. /\ R \in Nat /\ R >= 1 /\ d.rcv_nxt \in SeqNum
      /\ d.reasm.base \in SeqNum /\ d.reasm.base = wrapping_add(i, 1) /\ n = R - 1
      /\ R = IF d.peer_fin THEN Len(rcvd) + 2 ELSE Len(rcvd) + 1
  BY <1>1, ReceivingNumbers
<1>3. /\ Len(rcvd) <= S /\ \A k \in 1 .. Len(rcvd) : rcvd[k] = k
      /\ \A f \in d.reasm.frags : Right(f, S)
      /\ d.peer_fin => Len(rcvd) = S
  BY DEF Receiving
<1>4. s \in Segment /\ s.seq \in SeqNum /\ s.data \in Seq(Byte) /\ Len(s.data) \in Nat /\ q \in Nat
  BY SegmentFields, LenProperties, PosNat DEF Genuine
<1>5. s.data # << >> => a = q - 1 /\ q >= 1
  <2>1. a = IF q >= 1 THEN q - 1 ELSE SeqMod - 1
    BY <1>2, <1>4, PosOff
  <2>2. s.data # << >> => q >= 1
    BY DEF Genuine
  <2> QED BY <2>1, <2>2
<1>6. s.data # << >> => q + Len(s.data) <= S + 1 /\ \A k \in 1 .. Len(s.data) : s.data[k] = q + k - 1
  BY DEF Genuine
<1>7. ReasmOK(d.reasm) /\ S < SeqMod
  BY CircleIs DEF ConnOK, Connection, ReasmOK
<1> HIDE DEF R, q, a, n
<1>8. s.data # << >> => a + Len(s.data) <= S /\ \A k \in 1 .. Len(s.data) : s.data[k] = a + k
  <2> SUFFICES ASSUME s.data # << >>
               PROVE  a + Len(s.data) <= S /\ \A k \in 1 .. Len(s.data) : s.data[k] = a + k
    OBVIOUS
  <2>1. \A k \in 1 .. Len(s.data) : a + k = q + k - 1
    BY <1>4, <1>5
  <2> QED BY <1>4, <1>5, <1>6, <2>1
<1>9. /\ v.reasm.base = d.reasm.base /\ ReasmOK(v.reasm)
      /\ \A f \in v.reasm.frags : Right(f, S)
      /\ v.out \in Seq(Nat) /\ Len(v.out) \in Nat
      /\ \A k \in 1 .. Len(v.out) : v.out[k] = n + k
      /\ Len(v.out) > 0 => n + Len(v.out) <= S
  <2>1. s.data # << >> => /\ wrapping_sub(s.seq, d.reasm.base) + Len(s.data) <= S
                          /\ \A k \in 1 .. Len(s.data) : s.data[k] = wrapping_sub(s.seq, d.reasm.base) + k
    BY <1>8 DEF a
  <2>2. /\ v.reasm.base = d.reasm.base /\ ReasmOK(v.reasm)
        /\ \A f \in v.reasm.frags : Right(f, S)
        /\ v.out \in Seq(Nat) /\ Len(v.out) \in Nat
        /\ \A k \in 1 .. Len(v.out) : v.out[k] = wrapping_sub(d.rcv_nxt, d.reasm.base) + k
        /\ Len(v.out) > 0 => wrapping_sub(d.rcv_nxt, d.reasm.base) + Len(v.out) <= S
    <3>1. d.rcv_nxt \in SeqNum /\ s.seq \in SeqNum /\ s.data \in Seq(Byte) /\ ReasmOK(d.reasm) /\ S < SeqMod
      BY <1>2, <1>4, <1>7
    <3>2. \A f \in d.reasm.frags : Right(f, S)
      BY <1>3
    <3> DEFINE r == d.reasm
               x == s.seq
               y == s.data
               z == d.rcv_nxt
    <3> HIDE DEF r, x, y, z
    <3>3. /\ z \in SeqNum /\ x \in SeqNum /\ y \in Seq(Byte) /\ ReasmOK(r) /\ S < SeqMod
          /\ \A f \in r.frags : Right(f, S)
          /\ y # << >> => /\ wrapping_sub(x, r.base) + Len(y) <= S
                          /\ \A k \in 1 .. Len(y) : y[k] = wrapping_sub(x, r.base) + k
      BY <2>1, <3>1, <3>2 DEF r, x, y, z
    <3>4. LET u == recv(r, x, y, z)
          IN  /\ u.reasm.base = r.base /\ ReasmOK(u.reasm)
              /\ \A f \in u.reasm.frags : Right(f, S)
              /\ u.out \in Seq(Nat) /\ Len(u.out) \in Nat
              /\ \A k \in 1 .. Len(u.out) : u.out[k] = wrapping_sub(z, r.base) + k
              /\ Len(u.out) > 0 => wrapping_sub(z, r.base) + Len(u.out) <= S
      BY <3>3, RecvRight
    <3> QED BY <3>4 DEF r, x, y, z
  <2> QED BY <2>2 DEF n
<1> HIDE DEF v
<1>0. d.peer_fin \in BOOLEAN
  BY DEF ConnOK, Connection
<1> DEFINE L == Len(rcvd)
           l == Len(v.out)
<1>a. /\ L \in Nat /\ l \in Nat /\ L <= S /\ n = R - 1 /\ (l > 0 => n + l <= S)
      /\ d.peer_fin => L = S /\ R = L + 2
      /\ ~d.peer_fin => R = L + 1
  BY <1>1, <1>2, <1>3, <1>9
<1> HIDE DEF L, l
<1>b. d.peer_fin => l = 0
  BY <1>a
<1>c. L + l <= S /\ R <= L + 2 /\ R + l < SeqMod
  <2>1. CASE d.peer_fin
    BY <1>a, <1>b, <2>1, CircleIs
  <2>2. CASE ~d.peer_fin
    BY <1>a, <2>2, CircleIs
  <2> QED BY <2>1, <2>2
<1>10. d.peer_fin => Len(v.out) = 0
  BY <1>b DEF l
<1>11. /\ rcvd \o v.out \in Seq(Nat) /\ Len(rcvd \o v.out) = Len(rcvd) + Len(v.out)
       /\ \A k \in 1 .. Len(rcvd) : (rcvd \o v.out)[k] = rcvd[k]
       /\ \A k \in 1 .. Len(v.out) : (rcvd \o v.out)[Len(rcvd) + k] = v.out[k]
  <2>1. /\ rcvd \o v.out \in Seq(Nat) /\ Len(rcvd \o v.out) = Len(rcvd) + Len(v.out)
        /\ \A k \in 1 .. Len(rcvd) + Len(v.out) : (rcvd \o v.out)[k] =
              IF k <= Len(rcvd) THEN rcvd[k] ELSE v.out[k - Len(rcvd)]
    BY <1>9, ConcatProperties
  <2> HIDE DEF R
  <2>2. ASSUME NEW k \in 1 .. Len(v.out) PROVE (rcvd \o v.out)[Len(rcvd) + k] = v.out[k]
    <3>1. Len(rcvd) + k \in 1 .. Len(rcvd) + Len(v.out) /\ ~(Len(rcvd) + k <= Len(rcvd)) /\ (Len(rcvd) + k) - Len(rcvd) = k
      BY <1>1, <1>9
    <3> QED BY <2>1, <3>1
  <2>3. ASSUME NEW k \in 1 .. Len(rcvd) PROVE (rcvd \o v.out)[k] = rcvd[k]
    <3>1. k \in 1 .. Len(rcvd) + Len(v.out) /\ k <= Len(rcvd)
      BY <1>1, <1>9
    <3> QED BY <2>1, <3>1
  <2> QED BY <2>1, <2>2, <2>3
<1>12. Len(rcvd) + Len(v.out) <= S
  BY <1>c DEF l, L
<1>13. ASSUME NEW k \in 1 .. Len(rcvd) + Len(v.out) PROVE (rcvd \o v.out)[k] = k
  <2>1. CASE k <= Len(rcvd)
    BY <1>1, <1>3, <1>11, <2>1
  <2>2. CASE k > Len(rcvd)
    <3> DEFINE m == k - Len(rcvd)
    <3>1. m \in 1 .. Len(v.out) /\ k = Len(rcvd) + m
      BY <1>1, <1>9, <2>2
    <3> HIDE DEF m
    <3>2. (rcvd \o v.out)[k] = n + m
      BY <1>9, <1>11, <3>1
    <3>3. ~d.peer_fin
      BY <1>9, <1>10, <3>1
    <3> QED BY <1>1, <1>2, <3>1, <3>2, <3>3
  <2> QED BY <1>1, <1>9, <2>1, <2>2
<1>14. /\ wrapping_sub(wrapping_add(d.rcv_nxt, Len(v.out)), i) = R + Len(v.out)
       /\ wrapping_add(d.rcv_nxt, Len(v.out)) \in SeqNum
  <2>1. R + Len(v.out) < SeqMod
    BY <1>c DEF l
  <2> QED BY <1>2, <1>9, <2>1, PosAdd DEF R
<1> QED BY <1>9, <1>10, <1>11, <1>12, <1>13, <1>14 DEF v, R

\* A genuine segment taken by the receiver.
LEMMA ReceivesReceiving ==
    ASSUME NEW i \in SeqNum, NEW S \in Nat, NEW N \in Nat, S + 3 < Half,
           NEW d, ConnOK(d), NEW rcvd \in Seq(Nat), Receiving(i, S, N, d, rcvd),
           NEW s, Genuine(i, S, N, s), NEW d2, NEW data, Receives(d, s, d2, data)
    PROVE  /\ Receiving(i, S, N, d2, rcvd \o data) /\ rcvd \o data \in Seq(Nat)
           /\ wrapping_sub(d.rcv_nxt, i) <= wrapping_sub(d2.rcv_nxt, i)
<1>1. CASE SameReceiver(d, d2) /\ data = << >>
  <2>1. rcvd \o data = rcvd
    BY <1>1, ConcatEmptySeq
  <2>2. wrapping_sub(d.rcv_nxt, i) \in Nat
    BY PosNat DEF ConnOK, Connection
  <2> QED BY <1>1, <2>1, <2>2 DEF SameReceiver, Receiving
<1>2. CASE Takes(d, s, d2, data)
  <2> DEFINE v == recv(d.reasm, s.seq, s.data, d.rcv_nxt)
             m == wrapping_add(d.rcv_nxt, Len(v.out))
             R == wrapping_sub(d.rcv_nxt, i)
             o == rcvd \o v.out
             l == Len(v.out)
  <2>1. Len(rcvd) \in Nat
    BY LenProperties
  <2>2. /\ R \in Nat /\ R >= 1 /\ d.reasm.base = wrapping_add(i, 1)
        /\ R = IF d.peer_fin THEN Len(rcvd) + 2 ELSE Len(rcvd) + 1
    BY <2>1, ReceivingNumbers
  <2>3. /\ v.reasm.base = d.reasm.base
        /\ \A f \in v.reasm.frags : Right(f, S)
        /\ l \in Nat /\ o \in Seq(Nat)
        /\ Len(o) = Len(rcvd) + l /\ Len(o) <= S
        /\ \A k \in 1 .. Len(o) : o[k] = k
        /\ d.peer_fin => l = 0
        /\ wrapping_sub(m, i) = R + l /\ m \in SeqNum
    BY GenuineRecv
  <2>4. /\ d.pending_fin # NoFin => N = S + 2 /\ wrapping_sub(d.pending_fin, i) = S + 1
        /\ d.peer_fin => N = S + 2 /\ Len(rcvd) = S
    BY DEF Receiving
  <2>5. "FIN" \in s.flags => N = S + 2 /\ wrapping_sub(fin_seq(s), i) = S + 1
    <3> SUFFICES ASSUME "FIN" \in s.flags PROVE N = S + 2 /\ wrapping_sub(fin_seq(s), i) = S + 1
      OBVIOUS
    <3>1. s \in Segment /\ N = S + 2 /\ s.data = << >> /\ wrapping_sub(s.seq, i) = S + 1
      BY DEF Genuine
    <3>2. fin_seq(s) = s.seq
      BY <3>1, SegmentFields, AddZero DEF fin_seq
    <3> QED BY <3>1, <3>2
  <2>6. /\ d2.reasm = v.reasm /\ data = v.out
        /\ \/ /\ d2.rcv_nxt = m /\ d2.peer_fin = d.peer_fin
              /\ d2.pending_fin = d.pending_fin \/ ("FIN" \in s.flags /\ d2.pending_fin = fin_seq(s))
           \/ /\ d2.rcv_nxt = wrapping_add(m, 1) /\ d2.peer_fin = TRUE
              /\ d2.pending_fin \in {d.pending_fin, NoFin}
              /\ m = d.pending_fin \/ ("FIN" \in s.flags /\ m = fin_seq(s))
    BY <1>2 DEF Takes
  <2>7. d.peer_fin \in BOOLEAN
    BY DEF ConnOK, Connection
  <2> HIDE DEF v, m, R, o, l
  <2>8. CASE /\ d2.rcv_nxt = m /\ d2.peer_fin = d.peer_fin
             /\ d2.pending_fin = d.pending_fin \/ ("FIN" \in s.flags /\ d2.pending_fin = fin_seq(s))
    <3>1. d2.pending_fin # NoFin => N = S + 2 /\ wrapping_sub(d2.pending_fin, i) = S + 1
      BY <2>4, <2>5, <2>8
    <3>2. d2.peer_fin => N = S + 2 /\ Len(o) = S
      BY <2>1, <2>3, <2>4, <2>8
    <3>3. wrapping_sub(d2.rcv_nxt, i) = 1 + Len(o) + (IF d2.peer_fin THEN 1 ELSE 0)
      <4>1. CASE d.peer_fin
        BY <2>1, <2>2, <2>3, <2>8, <4>1
      <4>2. CASE ~d.peer_fin
        BY <2>1, <2>2, <2>3, <2>8, <4>2
      <4> QED BY <4>1, <4>2
    <3>4. R <= wrapping_sub(d2.rcv_nxt, i)
      BY <2>2, <2>3, <2>8
    <3>5. Receiving(i, S, N, d2, o)
      BY <2>2, <2>3, <2>6, <3>1, <3>2, <3>3 DEF Receiving
    <3> QED BY <2>3, <2>6, <3>4, <3>5 DEF R, o
  <2>9. CASE /\ d2.rcv_nxt = wrapping_add(m, 1) /\ d2.peer_fin = TRUE
             /\ d2.pending_fin \in {d.pending_fin, NoFin}
             /\ m = d.pending_fin \/ ("FIN" \in s.flags /\ m = fin_seq(s))
    <3>1. m # NoFin
      BY <2>3, CircleIs DEF NoFin
    <3>2. N = S + 2 /\ R + l = S + 1
      BY <2>3, <2>4, <2>5, <2>9, <3>1
    <3>3. ~d.peer_fin /\ Len(o) = S
      BY <2>1, <2>2, <2>3, <2>4, <2>7, <3>2
    <3>4. wrapping_sub(d2.rcv_nxt, i) = S + 2
      <4>1. wrapping_sub(m, i) + 1 < SeqMod
        BY <2>3, <3>2, CircleIs
      <4> QED BY <2>3, <2>9, <3>2, <4>1, PosAdd
    <3>5. d2.pending_fin # NoFin => N = S + 2 /\ wrapping_sub(d2.pending_fin, i) = S + 1
      BY <2>4, <2>9
    <3>6. R <= wrapping_sub(d2.rcv_nxt, i) /\ 1 + Len(o) + 1 = S + 2
      <4>1. R \in Nat /\ l \in Nat /\ R + l = S + 1
        BY <2>2, <2>3, <3>2
      <4>2. R <= S + 2
        BY <4>1
      <4> QED BY <3>3, <3>4, <4>2
    <3>7. Receiving(i, S, N, d2, o)
      BY <2>2, <2>3, <2>6, <2>9, <3>2, <3>3, <3>4, <3>5, <3>6 DEF Receiving
    <3> QED BY <2>3, <2>6, <3>6, <3>7 DEF R, o
  <2> QED BY <2>6, <2>8, <2>9
<1> QED BY <1>1, <1>2 DEF Receives

-----------------------------------------------------------------------------
(* Steps of a direction *)

\* The sender takes a step.
LEMMA SenderStep ==
    ASSUME NEW i \in SeqNum, NEW j \in SeqNum, NEW w \in Nat, NEW w2 \in Nat, NEW c, NEW c2, NEW d,
           NEW Q, NEW Q2, NEW rcvd, Len(rcvd) \in Nat, Direction(i, j, w, c, d, Q, rcvd),
           c # NoConn, c2 # NoConn, Sending(i, w2, c2),
           Grows(Wire(w, c), NxtPos(i, c), Wire(w2, c2), NxtPos(i, c2)),
           RcvPos(j, c) \in Nat, RcvPos(j, c2) \in Nat, RcvPos(j, c) <= RcvPos(j, c2),
           \A p \in Q2 \cup Pkts(c2.retx) :
              \/ p \in Q \cup Pkts(c.retx)
              \/ Genuine(i, Wire(w2, c2), NxtPos(i, c2), p) /\ Acked(j, RcvPos(j, c2), p),
           wrapping_sub(c2.una, i) <= RcvPos(i, d),
           c2.state \in Done => RcvPos(i, d) = NxtPos(i, c2)
    PROVE  Direction(i, j, w2, c2, d, Q2, rcvd)
<1> DEFINE S == Wire(w, c)
           N == NxtPos(i, c)
           S2 == Wire(w2, c2)
           N2 == NxtPos(i, c2)
<1>1. Sending(i, w, c)
  BY DEF Direction
<1>2. S \in Nat /\ N \in Nat /\ S2 \in Nat /\ N2 \in Nat
  BY <1>1, SendingNumbers DEF Wire, NxtPos
<1> HIDE DEF S, N, S2, N2
<1>3. ASSUME NEW p \in Q2 \cup Packets(c2) PROVE Genuine(i, S2, N2, p) /\ Acked(j, RcvPos(j, c2), p)
  <2>1. p \in Q2 \cup Pkts(c2.retx)
    BY <1>3 DEF Packets
  <2>2. CASE p \in Q \cup Pkts(c.retx)
    <3>1. Genuine(i, S, N, p) /\ Acked(j, RcvPos(j, c), p)
      BY <2>2 DEF Direction, Packets, S, N
    <3>2. Genuine(i, S2, N2, p)
      BY <1>2, <3>1, GenuineGrows DEF S, N, S2, N2
    <3>3. "ACK" \in p.flags => wrapping_sub(p.ack, j) \in Nat
      BY <3>1, SegmentFields, PosNat DEF Genuine
    <3>4. Acked(j, RcvPos(j, c2), p)
      BY <3>1, <3>3 DEF Acked
    <3> QED BY <3>2, <3>4
  <2> QED BY <2>1, <2>2 DEF S2, N2
<1>4. ASSUME Knows(d) PROVE ConnOK(d) /\ Receiving(i, S2, N2, d, rcvd)
  <2>1. ConnOK(d) /\ Receiving(i, S, N, d, rcvd)
    BY <1>4 DEF Direction, S, N
  <2> QED BY <1>2, <2>1, ReceivingGrows DEF S, N, S2, N2
<1>5. ~Knows(d) => rcvd = << >> /\ (d # NoConn => ~d.peer_fin /\ d.pending_fin = NoFin)
  BY DEF Direction
<1> QED BY <1>3, <1>4, <1>5 DEF Direction, S2, N2

\* The receiver, which knows the sequence space from now on at the latest, takes a step.
LEMMA ReceiverStep ==
    ASSUME NEW i \in SeqNum, NEW j \in SeqNum, NEW w \in Nat, NEW c, NEW d, NEW d2, NEW Q, NEW Q2,
           NEW rcvd, NEW rcvd2, Len(rcvd2) \in Nat, Direction(i, j, w, c, d, Q, rcvd),
           c # NoConn, Q2 \subseteq Q, Knows(d2), ConnOK(d2),
           Receiving(i, Wire(w, c), NxtPos(i, c), d2, rcvd2),
           RcvPos(i, d) \in Nat, RcvPos(i, d) <= RcvPos(i, d2)
    PROVE  Direction(i, j, w, c, d2, Q2, rcvd2)
<1> DEFINE S == Wire(w, c)
           N == NxtPos(i, c)
<1>1. Sending(i, w, c)
  BY DEF Direction
<1>2. S \in Nat /\ N \in Nat /\ N >= S + 1 /\ wrapping_sub(c.una, i) \in Nat
  BY <1>1, SendingNumbers DEF Wire, NxtPos
<1>3. RcvPos(i, d2) \in Nat /\ RcvPos(i, d2) <= N
  <2> HIDE DEF S, N
  <2>1. /\ wrapping_sub(d2.rcv_nxt, i) \in Nat /\ wrapping_sub(d2.rcv_nxt, i) <= N
    BY <1>2, ReceivedWasSent DEF S, N
  <2> QED BY <2>1 DEF RcvPos
<1>4. wrapping_sub(c.una, i) <= RcvPos(i, d) /\ (c.state \in Done => RcvPos(i, d) = N)
  BY DEF Direction
<1> HIDE DEF S, N
<1>5. wrapping_sub(c.una, i) <= RcvPos(i, d2) /\ (c.state \in Done => RcvPos(i, d2) = N)
  BY <1>2, <1>3, <1>4
<1>6. \A p \in Q2 \cup Packets(c) : Genuine(i, S, N, p) /\ Acked(j, RcvPos(j, c), p)
  BY DEF Direction, S, N
<1> QED BY <1>1, <1>5, <1>6 DEF Direction, S, N

\* The receiver stays ignorant, or keeps what it has.
LEMMA ReceiverIdles ==
    ASSUME NEW i, NEW j, NEW w, NEW c, NEW d, NEW d2, NEW Q, NEW Q2, NEW rcvd,
           Direction(i, j, w, c, d, Q, rcvd), Q2 \subseteq Q,
           d # NoConn, d2 # NoConn, Knows(d) <=> Knows(d2), SameReceiver(d, d2), ConnOK(d2)
    PROVE  Direction(i, j, w, c, d2, Q2, rcvd)
<1>1. RcvPos(i, d2) = RcvPos(i, d)
  BY DEF RcvPos, SameReceiver
<1>2. Knows(d) /\ Receiving(i, Wire(w, c), NxtPos(i, c), d, rcvd) => Receiving(i, Wire(w, c), NxtPos(i, c), d2, rcvd)
  BY DEF Receiving, SameReceiver
<1>3. ~Knows(d2) => rcvd = << >> /\ ~d2.peer_fin /\ d2.pending_fin = NoFin
  BY DEF Direction, SameReceiver
<1>4. Knows(d2) => c # NoConn /\ Receiving(i, Wire(w, c), NxtPos(i, c), d2, rcvd)
  BY <1>2 DEF Direction
<1>5. /\ c = NoConn => Q2 = {} /\ w = 0
      /\ c # NoConn => Sending(i, w, c)
      /\ \A p \in Q2 \cup Packets(c) : Genuine(i, Wire(w, c), NxtPos(i, c), p) /\ Acked(j, RcvPos(j, c), p)
      /\ c # NoConn => /\ wrapping_sub(c.una, i) <= RcvPos(i, d)
                       /\ c.state \in Done => RcvPos(i, d) = NxtPos(i, c)
  BY DEF Direction
<1> QED BY <1>1, <1>3, <1>4, <1>5 DEF Direction

\* Datagrams disappear.
LEMMA ChannelShrinks ==
    ASSUME NEW i, NEW j, NEW w, NEW c, NEW d, NEW Q, NEW Q2, NEW rcvd,
           Direction(i, j, w, c, d, Q, rcvd), Q2 \subseteq Q
    PROVE  Direction(i, j, w, c, d, Q2, rcvd)
<1>1. /\ c = NoConn => Q2 = {}
      /\ \A p \in Q2 \cup Packets(c) : Genuine(i, Wire(w, c), NxtPos(i, c), p) /\ Acked(j, RcvPos(j, c), p)
  BY DEF Direction
<1> QED BY <1>1 DEF Direction

\* A segment that is ingested changes nothing that is still to be sent.
LEMMA IngestsSending ==
    ASSUME NEW i, NEW w, NEW c, Sending(i, w, c), NEW d, ConnOK(d), SameSender(c, d), NEW B,
           Thins(c.retx, d.retx, B), Moves(c, d), c.state \in FinOut <=> d.state \in FinOut
    PROVE  Sending(i, w, d)
<1>1. IsFiniteSet(d.retx)
  <2>1. d.retx \in SUBSET Unacked /\ IsFiniteSet(c.retx)
    BY DEF ConnOK, Connection, Sending
  <2> QED BY <2>1, ThinsFinite
<1>2. d.nxt = c.nxt /\ d.send_buf = c.send_buf /\ ~d.keepalive_enabled
  BY DEF Sending, SameSender
<1>3. d.state \in FinOut \ {"Closed"} => c.state \in FinOut \ {"Closed"}
  BY DEF Moves, FinOut, FinPending, Opening
<1> QED BY <1>1, <1>2, <1>3 DEF Sending

\* How far the receiver has got.
LEMMA KnowsPos ==
    ASSUME NEW i \in SeqNum, NEW j \in SeqNum, NEW w \in Nat, NEW c, NEW d, NEW Q, NEW rcvd,
           Len(rcvd) \in Nat, Direction(i, j, w, c, d, Q, rcvd)
    PROVE  /\ RcvPos(i, d) \in Nat
           /\ Knows(d) => RcvPos(i, d) >= 1 /\ RcvPos(i, d) <= NxtPos(i, c)
           /\ c # NoConn => RcvPos(i, d) <= NxtPos(i, c)
<1>1. CASE ~Knows(d)
  <2>1. RcvPos(i, d) = 0
    BY <1>1 DEF RcvPos
  <2>2. c # NoConn => NxtPos(i, c) \in Nat
    BY SendingNumbers DEF Direction, NxtPos
  <2> QED BY <1>1, <2>1, <2>2
<1>2. CASE Knows(d)
  <2> DEFINE S == Wire(w, c)
             N == NxtPos(i, c)
  <2>1. c # NoConn /\ Sending(i, w, c) /\ ConnOK(d) /\ Receiving(i, S, N, d, rcvd)
    BY <1>2 DEF Direction
  <2>2. S \in Nat /\ N \in Nat /\ N >= S + 1
    BY <2>1, SendingNumbers DEF Wire, NxtPos
  <2> HIDE DEF S, N
  <2>3. /\ wrapping_sub(d.rcv_nxt, i) \in Nat
        /\ wrapping_sub(d.rcv_nxt, i) >= 1 /\ wrapping_sub(d.rcv_nxt, i) <= N
    BY <2>1, <2>2, ReceivedWasSent
  <2> QED BY <1>2, <2>3 DEF RcvPos, N
<1> QED BY <1>1, <1>2

\* Connections are never the absence of one.
LEMMA ConnIsNot == ASSUME NEW c, ConnOK(c) PROVE c # NoConn
BY PairAssumption DEF ConnOK

\* What goes out when a connection sends of its own accord.
LEMMA EmitsOut ==
    ASSUME NEW i \in SeqNum, NEW w \in Nat, w + 3 < Half, NEW c, Sending(i, w, c), NEW r, ConnOK(r.tcb),
           NEW now \in SeqNum, Emits(c, r, now) \/ EmitsFin(c, r, now),
           \A p \in Pkts(c.retx) : p \in Segment
    PROVE  /\ IsFiniteSet(r.out) /\ r.out \subseteq Segment
           /\ SameReceiver(c, r.tcb) /\ (Knows(c) <=> Knows(r.tcb)) /\ r.tcb.ts_recent = c.ts_recent
<1>0. ConnOK(c)
  BY DEF Sending
<1>1. CASE Emits(c, r, now)
  <2>1. PICK n \in 0 .. Len(c.send_buf) : \E E : EmitsBy(c, r, n, E, now)
    BY <1>1 DEF Emits
  <2>2. PICK E : EmitsBy(c, r, n, E, now)
    BY <2>1
  <2>3. /\ IsFiniteSet(r.out)
        /\ \A t \in E : Genuine(i, w - Len(c.send_buf) + n, NxtPos(i, c) + n, t.pkt)
    BY <2>2, EmitsSending DEF EmitsTo
  <2>4. r.out \subseteq Pkts(c.retx \cup E)
    BY <2>2 DEF EmitsBy
  <2>5. \A p \in Pkts(c.retx \cup E) : p \in Segment
    BY <2>3 DEF Pkts, Genuine
  <2>6. r.tcb.state = c.state \/ (r.tcb.state = "Closed" /\ c.state \notin Opening)
    BY <2>2 DEF EmitsBy
  <2>7. Knows(c) <=> Knows(r.tcb)
    BY <1>0, <2>6, ConnIsNot DEF Knows, Opening
  <2> QED BY <2>2, <2>3, <2>4, <2>5, <2>7 DEF EmitsBy, SameRest
<1>2. CASE EmitsFin(c, r, now)
  <2>1. IsFiniteSet(r.out) /\ r.out = {Fin(c, now)} /\ Fin(c, now) \in Segment
    BY <1>2, FinSending DEF EmitsFin, Genuine
  <2>2. Knows(c) /\ Knows(r.tcb)
    BY <1>0, <1>2, ConnIsNot DEF EmitsFin, Knows, SendOpen
  <2> QED BY <1>2, <2>1, <2>2 DEF EmitsFin, SameRest
<1> QED BY <1>1, <1>2

\* A connection sends of its own accord.
LEMMA EmitsDirection ==
    ASSUME NEW i \in SeqNum, NEW j \in SeqNum, NEW w \in Nat, w + 3 < Half, NEW c, NEW d, NEW Q, NEW Q2,
           NEW rcvd, Len(rcvd) \in Nat, Direction(i, j, w, c, d, Q, rcvd), c # NoConn,
           RcvPos(j, c) \in Nat, Knows(c) => RcvPos(j, c) >= 1,
           NEW r, ConnOK(r.tcb), NEW now \in SeqNum, Emits(c, r, now) \/ EmitsFin(c, r, now),
           Q2 \subseteq Q \cup r.out
    PROVE  Direction(i, j, w, r.tcb, d, Q2, rcvd)
<1> DEFINE c2 == r.tcb
           S == w - Len(c.send_buf)
           N == NxtPos(i, c)
<1>1. /\ Sending(i, w, c) /\ wrapping_sub(c.una, i) <= RcvPos(i, d)
      /\ c.state \in Done => RcvPos(i, d) = N
  BY DEF Direction
<1>2. c2 # NoConn /\ ConnOK(c)
  BY <1>1, ConnIsNot DEF Sending
<1>3. S = Wire(w, c) /\ S \in Nat /\ N \in Nat
  BY <1>1, SendingNumbers DEF Wire, NxtPos
<1>4. \A p \in Pkts(c.retx) : p \in Segment
  BY DEF Direction, Packets, Genuine
<1>5. SameReceiver(c, c2) /\ (Knows(c) <=> Knows(c2))
  BY <1>1, <1>4, EmitsOut
<1>6. RcvPos(j, c2) = RcvPos(j, c)
  BY <1>5 DEF RcvPos, SameReceiver
<1>7. ASSUME NEW p, p.ack = c.rcv_nxt, c.state \in SendOpen PROVE Acked(j, RcvPos(j, c2), p)
  <2>1. Knows(c)
    BY <1>7 DEF Knows, SendOpen
  <2> QED BY <1>6, <1>7, <2>1 DEF Acked, RcvPos
<1>8. CASE Emits(c, r, now)
  <2>1. PICK n \in 0 .. Len(c.send_buf) : \E E : EmitsBy(c, r, n, E, now)
    BY <1>8 DEF Emits
  <2>2. PICK E : EmitsBy(c, r, n, E, now)
    BY <2>1
  <2>3. /\ Sending(i, w, c2)
        /\ w - Len(c2.send_buf) = S + n /\ NxtPos(i, c2) = N + n
        /\ Grows(S, N, S + n, N + n)
        /\ \A t \in E : Genuine(i, S + n, N + n, t.pkt) /\ t.pkt.ack = c.rcv_nxt
    <3>1. EmitsTo(i, w, c, r.tcb, n, E)
      BY <1>1, <2>2, EmitsSending
    <3> QED BY <3>1 DEF EmitsTo
  <2>31. c.state \in SendOpen \/ (n = 0 /\ E = {})
    BY <2>2 DEF EmitsBy
  <2>4. /\ c2.una = c.una /\ Thins(c.retx \cup E, c2.retx, {}) /\ r.out \subseteq Pkts(c.retx \cup E)
        /\ c2.state = c.state \/ c2.state = "Closed"
    BY <2>2 DEF EmitsBy, SameRest
  <2> HIDE DEF c2
  <2>5. Wire(w, c2) = S + n
    BY <1>2, <2>3 DEF Wire
  <2> HIDE DEF S, N
  <2>6. ASSUME NEW p \in Q2 \cup Pkts(c2.retx)
        PROVE  \/ p \in Q \cup Pkts(c.retx)
               \/ Genuine(i, S + n, N + n, p) /\ Acked(j, RcvPos(j, c2), p)
    <3>1. p \in Q \cup Pkts(c.retx \cup E)
      BY <2>4, <2>6, ThinsPkts
    <3>2. \A t \in E : Genuine(i, S + n, N + n, t.pkt) /\ Acked(j, RcvPos(j, c2), t.pkt)
      BY <1>7, <2>3, <2>31
    <3> QED BY <3>1, <3>2 DEF Pkts
  <2>7. c2.state \in Done => RcvPos(i, d) = N + n
    <3> SUFFICES ASSUME c2.state \in Done PROVE RcvPos(i, d) = N + n
      OBVIOUS
    <3>1. c.state \in Done /\ c.state \notin SendOpen
      BY <2>4 DEF Done, SendOpen
    <3>2. n = 0
      BY <2>31, <3>1
    <3> QED BY <1>1, <1>3, <3>1, <3>2
  <2>8. RcvPos(j, c) <= RcvPos(j, c2)
    BY <1>6
  <2> QED BY <1>1, <1>2, <1>3, <1>6, <2>3, <2>4, <2>5, <2>6, <2>7, <2>8, SenderStep DEF N, c2
<1>9. CASE EmitsFin(c, r, now)
  <2>1. /\ Sending(i, w, c2)
        /\ c2.send_buf = c.send_buf /\ NxtPos(i, c2) = N + 1
        /\ Grows(S, N, S, N + 1)
        /\ Genuine(i, S, N + 1, Fin(c, now)) /\ Fin(c, now).ack = c.rcv_nxt
        /\ r.out \subseteq Pkts(c2.retx) /\ Pkts(c2.retx) \subseteq Pkts(c.retx) \cup {Fin(c, now)}
    BY <1>1, <1>9, FinSending
  <2>2. c2.una = c.una /\ c.state \in SendOpen /\ c2.state \in {"FinWait1", "LastAck"}
    BY <1>9 DEF EmitsFin, SameRest
  <2> HIDE DEF c2
  <2>3. Wire(w, c2) = S
    BY <1>2, <2>1 DEF Wire
  <2> HIDE DEF S, N
  <2>4. Acked(j, RcvPos(j, c2), Fin(c, now))
    BY <1>7, <2>1, <2>2
  <2>5. \A p \in Q2 \cup Pkts(c2.retx) :
           \/ p \in Q \cup Pkts(c.retx)
           \/ Genuine(i, S, N + 1, p) /\ Acked(j, RcvPos(j, c2), p)
    BY <2>1, <2>4
  <2>6. c2.state \notin Done /\ RcvPos(j, c) <= RcvPos(j, c2)
    BY <1>6, <2>2 DEF Done
  <2> QED BY <1>1, <1>2, <1>3, <1>6, <2>1, <2>2, <2>3, <2>5, <2>6, SenderStep DEF N, c2
<1> QED BY <1>8, <1>9

\* A bare acknowledgement is a segment of the stream.
LEMMA AckGenuine ==
    ASSUME NEW i \in SeqNum, NEW S \in Nat, NEW c, NxtPos(i, c) \in Nat, NxtPos(i, c) >= 1,
           NEW now, NEW p, IsAck(c, now, p)
    PROVE  Genuine(i, S, NxtPos(i, c), p)
<1>1. /\ p \in Segment /\ p.flags = {"ACK"} /\ p.data = << >> /\ wrapping_sub(p.seq, i) = NxtPos(i, c)
  BY DEF IsAck, NxtPos
<1>2. "RST" \notin p.flags /\ "FIN" \notin p.flags /\ "SYN" \notin p.flags
  BY <1>1
<1> QED BY <1>1, <1>2 DEF Genuine

\* A connection ingests a segment: its sending side.
LEMMA IngestsDirection ==
    ASSUME NEW i \in SeqNum, NEW j \in SeqNum, NEW w \in Nat, NEW c, NEW d, NEW Q, NEW Q2,
           NEW rcvd, Len(rcvd) \in Nat, Direction(i, j, w, c, d, Q, rcvd), Knows(c),
           NEW s, Acked(i, RcvPos(i, d), s), NEW r, NEW now, Ingests(c, s, r, now), ConnOK(r.tcb),
           Moves(c, r.tcb), RcvPos(j, c) \in Nat, RcvPos(j, r.tcb) \in Nat, RcvPos(j, c) >= 1,
           RcvPos(j, c) <= RcvPos(j, r.tcb), Q2 \subseteq Q \cup r.out
    PROVE  Direction(i, j, w, r.tcb, d, Q2, rcvd)
<1> DEFINE c2 == r.tcb
           S == Wire(w, c)
           N == NxtPos(i, c)
<1>1. /\ c # NoConn /\ Sending(i, w, c) /\ wrapping_sub(c.una, i) <= RcvPos(i, d)
      /\ c.state \in Done => RcvPos(i, d) = N
  BY DEF Direction, Knows
<1>2. S \in Nat /\ N \in Nat /\ N >= 1
  <2>1. S \in Nat /\ N \in Nat /\ N >= S + 1
    BY <1>1, SendingNumbers DEF Wire, NxtPos
  <2> HIDE DEF S, N
  <2> QED BY <2>1
<1>3. /\ SameSender(c, c2) /\ Acks(c, s, c2) /\ MovesBy(c, s, c2)
      /\ Replies(c, c2, r.out, now)
  BY DEF Ingests
<1>4. c2 # NoConn /\ Sending(i, w, c2)
  BY <1>1, <1>3, IngestsSending, ConnIsNot DEF Acks, MovesBy
<1> HIDE DEF c2
<1>5. Wire(w, c2) = S /\ NxtPos(i, c2) = N
  BY <1>1, <1>3, <1>4 DEF Wire, NxtPos, SameSender
<1> HIDE DEF S, N
<1>6. Grows(S, N, S, N)
  BY <1>2 DEF Grows
<1>7. Knows(c2) /\ RcvPos(j, c2) >= 1 /\ RcvPos(j, c2) \in Nat /\ RcvPos(j, c) <= RcvPos(j, c2)
  BY <1>3, <1>4 DEF Knows, MovesBy, c2
<1>8. ASSUME NEW p, IsAck(c2, now, p) PROVE Genuine(i, S, N, p) /\ Acked(j, RcvPos(j, c2), p)
  <2>1. Genuine(i, S, N, p)
    BY <1>2, <1>5, <1>8, AckGenuine
  <2>2. Acked(j, RcvPos(j, c2), p)
    BY <1>7, <1>8 DEF Acked, IsAck, RcvPos
  <2> QED BY <2>1, <2>2
<1>9. \A p \in Q2 \cup Pkts(c2.retx) :
         \/ p \in Q \cup Pkts(c.retx)
         \/ Genuine(i, S, N, p) /\ Acked(j, RcvPos(j, c2), p)
  <2>1. Pkts(c2.retx) \subseteq Pkts(c.retx)
    BY <1>3, ThinsPkts DEF Acks
  <2> QED BY <1>3, <1>8, <2>1 DEF Replies
<1>10. wrapping_sub(c2.una, i) <= RcvPos(i, d)
  BY <1>1, <1>3 DEF Acks, Acked
<1>11. c2.state \in Done => RcvPos(i, d) = N
  <2> SUFFICES ASSUME AcksNxt(c, s) PROVE RcvPos(i, d) = N
    BY <1>1, <1>3 DEF MovesBy
  <2>1. N <= RcvPos(i, d)
    BY DEF AcksNxt, Acked, NxtPos, N
  <2>2. RcvPos(i, d) \in Nat /\ RcvPos(i, d) <= N
    BY <1>1, KnowsPos DEF N
  <2> QED BY <1>2, <2>1, <2>2
<1> QED BY <1>1, <1>4, <1>5, <1>6, <1>7, <1>9, <1>10, <1>11, SenderStep DEF S, N, c2

\* d has learnt the sequence space from the SYN s.
Begun(d, s) ==
    /\ ConnOK(d) /\ d.state # "SynSent" /\ d.rcv_nxt = wrapping_add(s.seq, 1)
    /\ d.reasm = NewReassembler(d.rcv_nxt) /\ ~d.peer_fin /\ d.pending_fin = NoFin

\* d knows the sequence space that starts at i, and nothing but the SYN has come.
AtStart(i, d) == Knows(d) /\ RcvPos(i, d) = 1

\* The receiver learns the sequence space from a SYN.
LEMMA BeginsDirection ==
    ASSUME NEW i \in SeqNum, NEW j \in SeqNum, NEW w \in Nat, w + 3 < Half, NEW c, NEW d, NEW d2, NEW Q,
           NEW rcvd, Direction(i, j, w, c, d, Q, rcvd), ~Knows(d), NEW s \in Q, "SYN" \in s.flags, Begun(d2, s)
    PROVE  Direction(i, j, w, c, d2, Q, rcvd) /\ AtStart(i, d2)
<1>0. /\ ConnOK(d2) /\ d2.state # "SynSent" /\ d2.rcv_nxt = wrapping_add(s.seq, 1)
      /\ d2.reasm = NewReassembler(d2.rcv_nxt) /\ ~d2.peer_fin /\ d2.pending_fin = NoFin
  BY DEF Begun
<1>1. /\ rcvd = << >> /\ Genuine(i, Wire(w, c), NxtPos(i, c), s) /\ c # NoConn /\ Sending(i, w, c)
  BY DEF Direction
<1>2. s.seq \in SeqNum /\ wrapping_sub(s.seq, i) = 0
  BY <1>1, SegmentFields DEF Genuine
<1>3. 1 < SeqMod
  BY CircleIs
<1>4. s.seq = i
  <2>1. s.seq = wrapping_add(i, 0)
    BY <1>2, RoundTrip
  <2> QED BY <2>1, AddZero
<1>5. wrapping_sub(i, i) = 0
  BY <1>2, <1>4
<1>6. wrapping_sub(wrapping_add(i, 1), i) = 1
  <2>1. wrapping_sub(i, i) + 1 < SeqMod
    BY <1>3, <1>5
  <2>2. wrapping_sub(wrapping_add(i, 1), i) = wrapping_sub(i, i) + 1
    BY <2>1, PosAdd
  <2> QED BY <1>5, <2>2
<1>7. Knows(d2)
  BY <1>0, ConnIsNot DEF Knows
<1>8. RcvPos(i, d2) = 1 /\ RcvPos(i, d) = 0
  BY <1>0, <1>4, <1>6, <1>7 DEF RcvPos
<1>9. Wire(w, c) \in Nat
  BY <1>1, SendingNumbers DEF Wire
<1>10. Receiving(i, Wire(w, c), NxtPos(i, c), d2, rcvd)
  <2>1. d2.reasm.base = wrapping_add(i, 1) /\ d2.reasm.frags = {}
    BY <1>0, <1>4 DEF NewReassembler
  <2>2. Len(rcvd) = 0
    BY <1>1, LenProperties, EmptySeq
  <2>3. d2.rcv_nxt = wrapping_add(i, 1)
    BY <1>0, <1>4
  <2>4. wrapping_sub(d2.rcv_nxt, i) = 1 + Len(rcvd) + (IF d2.peer_fin THEN 1 ELSE 0)
    BY <1>0, <1>6, <2>2, <2>3
  <2>5. Len(rcvd) <= Wire(w, c) /\ \A k \in 1 .. Len(rcvd) : rcvd[k] = k
    BY <1>9, <2>2
  <2> QED BY <1>0, <2>1, <2>4, <2>5 DEF Receiving
<1>11. Len(rcvd) \in Nat
  BY <1>1, LenProperties, EmptySeq
<1>12. Direction(i, j, w, c, d2, Q, rcvd)
  BY <1>0, <1>1, <1>7, <1>8, <1>10, <1>11, ReceiverStep
<1> QED BY <1>7, <1>8, <1>12 DEF AtStart

\* A connection opens.
LEMMA OpensDirection ==
    ASSUME NEW i \in SeqNum, NEW j \in SeqNum, NEW c, NEW d, NEW rcvd, NEW p, NEW Q2,
           ~Knows(d), rcvd = << >>, d # NoConn => ~d.peer_fin /\ d.pending_fin = NoFin,
           Opened(c, i, p), c.state \in Opening, "SYN" \in p.flags, "FIN" \notin p.flags, "RST" \notin p.flags,
           Acked(j, RcvPos(j, c), p), Q2 \subseteq {p}
    PROVE  Direction(i, j, 0, c, d, Q2, rcvd)
<1>1. /\ ConnOK(c) /\ c.una = i /\ c.nxt = wrapping_add(i, 1) /\ c.send_buf = << >>
      /\ c.retx = {SynEntry(i, p)} /\ ~c.keepalive_enabled
      /\ p \in Segment /\ p.seq = i /\ p.data = << >>
  BY DEF Opened
<1>2. wrapping_sub(i, i) = 0
  BY SubIs, CircleIs
<1>3. NxtPos(i, c) = 1
  <2>1. wrapping_sub(i, i) + 1 < SeqMod
    BY <1>2, CircleIs
  <2>2. wrapping_sub(wrapping_add(i, 1), i) = wrapping_sub(i, i) + 1
    BY <2>1, PosAdd
  <2> QED BY <1>1, <1>2, <2>2 DEF NxtPos
<1>4. c # NoConn
  BY <1>1, ConnIsNot
<1>5. Len(c.send_buf) = 0
  BY <1>1, LenProperties, EmptySeq
<1>6. Wire(0, c) = 0
  BY <1>4, <1>5 DEF Wire
<1>7. Sending(i, 0, c)
  <2>1. IsFiniteSet(c.retx)
    BY <1>1, FS_Singleton
  <2>2. c.state \notin FinOut
    BY DEF Opening, FinOut, FinPending
  <2>3. \A k \in 1 .. Len(c.send_buf) : FALSE
    BY <1>5
  <2> QED BY <1>1, <1>3, <1>5, <2>1, <2>2, <2>3 DEF Sending, NxtPos
<1>8. Genuine(i, 0, 1, p)
  BY <1>1, <1>2 DEF Genuine
<1>9. Packets(c) = {p}
  BY <1>1, <1>4 DEF Packets, Pkts, SynEntry
<1>10. RcvPos(i, d) = 0
  BY DEF RcvPos
<1>11. c.state \notin Done
  BY DEF Opening, Done
<1> QED BY <1>1, <1>2, <1>3, <1>4, <1>6, <1>7, <1>8, <1>9, <1>10, <1>11 DEF Direction

\* The SYN-ACK arrives: the sending side.
LEMMA CompletesDirection ==
    ASSUME NEW i \in SeqNum, NEW j \in SeqNum, NEW w \in Nat, NEW c, NEW d, NEW Q, NEW Q2,
           NEW rcvd, Len(rcvd) \in Nat, Direction(i, j, w, c, d, Q, rcvd), c # NoConn, c.state = "SynSent",
           NEW s, Acked(i, RcvPos(i, d), s), NEW r, NEW now, Completes(c, s, r, now), ConnOK(r.tcb),
           RcvPos(j, r.tcb) = 1, Q2 \subseteq Q \cup r.out
    PROVE  Direction(i, j, w, r.tcb, d, Q2, rcvd)
<1> DEFINE c2 == r.tcb
           S == Wire(w, c)
           N == NxtPos(i, c)
<1>1. Sending(i, w, c)
  BY DEF Direction
<1>2. S \in Nat /\ N \in Nat /\ N >= 1
  <2>1. S \in Nat /\ N \in Nat /\ N >= S + 1
    BY <1>1, SendingNumbers DEF Wire, NxtPos
  <2> HIDE DEF S, N
  <2> QED BY <2>1
<1>3. /\ AcksNxt(c, s) /\ c2.nxt = c.nxt /\ c2.send_buf = c.send_buf /\ c2.state = "Established"
      /\ c2.una = s.ack /\ Thins(c.retx, c2.retx, {}) /\ c2.keepalive_enabled = c.keepalive_enabled
      /\ \E p : r.out = {p} /\ IsAck(c2, now, p)
  BY DEF Completes
<1>4. c2 # NoConn
  BY ConnIsNot
<1> HIDE DEF c2
<1>5. Sending(i, w, c2)
  <2>1. IsFiniteSet(c2.retx)
    <3>1. c2.retx \in SUBSET Unacked /\ IsFiniteSet(c.retx)
      BY <1>1 DEF ConnOK, Connection, Sending, c2
    <3> QED BY <1>3, <3>1, ThinsFinite
  <2>2. c.state \notin FinOut /\ c2.state \notin FinOut
    BY <1>3 DEF FinOut, FinPending
  <2>3. ConnOK(c2) /\ ~c2.keepalive_enabled
    BY <1>1, <1>3 DEF Sending, c2
  <2> QED BY <1>1, <1>3, <2>1, <2>2, <2>3 DEF Sending
<1>6. Wire(w, c2) = S /\ NxtPos(i, c2) = N
  BY <1>3, <1>4 DEF Wire, NxtPos
<1> HIDE DEF S, N
<1>7. Grows(S, N, S, N)
  BY <1>2 DEF Grows
<1>8. RcvPos(j, c2) = 1 /\ RcvPos(j, c) = 0 /\ Knows(c2)
  BY <1>3, <1>4 DEF RcvPos, Knows, c2
<1>9. ASSUME NEW p, IsAck(c2, now, p) PROVE Genuine(i, S, N, p) /\ Acked(j, RcvPos(j, c2), p)
  <2>1. Genuine(i, S, N, p)
    BY <1>2, <1>6, <1>9, AckGenuine
  <2>2. p.ack = c2.rcv_nxt /\ wrapping_sub(c2.rcv_nxt, j) = 1
    BY <1>8, <1>9 DEF IsAck, RcvPos
  <2> QED BY <1>8, <2>1, <2>2 DEF Acked
<1>10. \A p \in Q2 \cup Pkts(c2.retx) :
         \/ p \in Q \cup Pkts(c.retx)
         \/ Genuine(i, S, N, p) /\ Acked(j, RcvPos(j, c2), p)
  <2>1. Pkts(c2.retx) \subseteq Pkts(c.retx)
    BY <1>3, ThinsPkts
  <2> QED BY <1>3, <1>9, <2>1
<1>11. wrapping_sub(c2.una, i) <= RcvPos(i, d)
  BY <1>3 DEF Acked, AcksNxt
<1>12. c2.state \notin Done
  BY <1>3 DEF Done
<1> QED BY <1>1, <1>4, <1>5, <1>6, <1>7, <1>8, <1>10, <1>11, <1>12, SenderStep DEF S, N, c2

\* The sender keeps what it has.
LEMMA SenderIdles ==
    ASSUME NEW i \in SeqNum, NEW j \in SeqNum, NEW w \in Nat, NEW c, NEW c2, NEW d, NEW Q, NEW Q2,
           NEW rcvd, Len(rcvd) \in Nat, Direction(i, j, w, c, d, Q, rcvd), c # NoConn, ConnOK(c2),
           c2.nxt = c.nxt, c2.una = c.una, c2.send_buf = c.send_buf, c2.retx = c.retx, c2.state = c.state,
           c2.keepalive_enabled = c.keepalive_enabled, c2.rcv_nxt = c.rcv_nxt,
           RcvPos(j, c) \in Nat, Q2 \subseteq Q
    PROVE  Direction(i, j, w, c2, d, Q2, rcvd)
<1> DEFINE S == Wire(w, c)
           N == NxtPos(i, c)
<1>1. /\ Sending(i, w, c) /\ wrapping_sub(c.una, i) <= RcvPos(i, d)
      /\ c.state \in Done => RcvPos(i, d) = N
  BY DEF Direction
<1>2. S \in Nat /\ N \in Nat
  BY <1>1, SendingNumbers DEF Wire, NxtPos
<1>3. c2 # NoConn
  BY ConnIsNot
<1>4. Sending(i, w, c2)
  BY <1>1 DEF Sending
<1>5. Wire(w, c2) = S /\ NxtPos(i, c2) = N /\ RcvPos(j, c2) = RcvPos(j, c)
  BY <1>3 DEF Wire, NxtPos, RcvPos, Knows
<1> HIDE DEF S, N
<1>6. Grows(S, N, S, N) /\ RcvPos(j, c) <= RcvPos(j, c2)
  BY <1>2, <1>5 DEF Grows
<1>7. \A p \in Q2 \cup Pkts(c2.retx) : p \in Q \cup Pkts(c.retx)
  OBVIOUS
<1> QED BY <1>1, <1>3, <1>4, <1>5, <1>6, <1>7, SenderStep DEF S, N

\* The application writes the next n bytes of the stream.
LEMMA WriteDirection ==
    ASSUME NEW i \in SeqNum, NEW j \in SeqNum, NEW w \in Nat, NEW c, NEW d, NEW Q,
           NEW rcvd, Len(rcvd) \in Nat, Direction(i, j, w, c, d, Q, rcvd), c # NoConn,
           NEW n \in Nat, NEW b \in Seq(Byte), Len(b) = n, \A k \in 1 .. n : b[k] = w + k, ConnOK(write(c, b)),
           RcvPos(j, c) \in Nat
    PROVE  /\ Direction(i, j, w + n, write(c, b), d, Q, rcvd)
           /\ SameReceiver(c, write(c, b)) /\ (Knows(c) <=> Knows(write(c, b)))
           /\ Wire(w + n, write(c, b)) = Wire(w, c) /\ write(c, b).state = c.state
<1> DEFINE c2 == write(c, b)
           S == Wire(w, c)
           N == NxtPos(i, c)
           L == Len(c.send_buf)
<1>1. /\ Sending(i, w, c) /\ wrapping_sub(c.una, i) <= RcvPos(i, d)
      /\ c.state \in Done => RcvPos(i, d) = N
  BY DEF Direction
<1>2. S \in Nat /\ N \in Nat /\ L \in Nat /\ S = w - L /\ c.send_buf \in Seq(Byte) /\ L <= w
  BY <1>1, SendingNumbers DEF Wire, NxtPos
<1>3. c2 # NoConn
  BY ConnIsNot
<1>4. /\ c2.nxt = c.nxt /\ c2.una = c.una /\ c2.send_buf = c.send_buf \o b /\ c2.retx = c.retx
      /\ c2.state = c.state /\ c2.keepalive_enabled = c.keepalive_enabled
      /\ SameReceiver(c, c2)
  BY <1>1 DEF write, Sending, ConnOK, Connection, SameReceiver
<1>5. ConnOK(c2)
  OBVIOUS
<1> HIDE DEF c2
<1>6. b \in Seq(Byte) /\ Len(b) = n
  OBVIOUS
<1>7. Len(c2.send_buf) = L + n
  <2>1. Len(c.send_buf \o b) = Len(c.send_buf) + Len(b)
    BY <1>2, <1>6, ConcatProperties
  <2> QED BY <1>4, <1>6, <2>1
<1>8. ASSUME NEW k \in 1 .. L + n PROVE c2.send_buf[k] = S + k
  <2>1. \A m \in 1 .. L : c.send_buf[m] = w - L + m
    BY <1>1 DEF Sending
  <2>2. c2.send_buf[k] = IF k <= L THEN c.send_buf[k] ELSE b[k - L]
    BY <1>2, <1>4, <1>6, ConcatProperties
  <2> HIDE DEF S, N, L
  <2>3. CASE k <= L
    BY <1>2, <2>1, <2>2, <2>3
  <2>4. CASE k > L
    <3>1. k - L \in 1 .. n /\ ~(k <= L)
      BY <1>2, <2>4
    <3>2. c2.send_buf[k] = w + (k - L)
      BY <2>2, <3>1
    <3> QED BY <1>2, <3>2
  <2> QED BY <1>2, <2>3, <2>4
<1>9. Wire(w + n, c2) = S /\ NxtPos(i, c2) = N
  <2>1. Wire(w + n, c2) = (w + n) - Len(c2.send_buf)
    BY <1>3 DEF Wire
  <2>2. NxtPos(i, c2) = N
    BY <1>4 DEF NxtPos
  <2> HIDE DEF S, N, L
  <2> QED BY <1>2, <1>7, <2>1, <2>2
<1>10. Sending(i, w + n, c2)
  <2>1. (w + n) - Len(c2.send_buf) = S /\ Len(c2.send_buf) <= w + n
    <3> HIDE DEF S, N, L
    <3> QED BY <1>2, <1>7
  <2>2. \A k \in 1 .. Len(c2.send_buf) : c2.send_buf[k] = S + k
    BY <1>7, <1>8
  <2>3. /\ IsFiniteSet(c.retx) /\ ~c.keepalive_enabled
        /\ N = S + 1 \/ N = S + 2
        /\ c.state \notin FinOut => N = S + 1
        /\ c.state \in FinOut \ {"Closed"} => N = S + 2
    BY <1>1, <1>2 DEF Sending, NxtPos
  <2>4. wrapping_sub(c2.nxt, i) = N
    BY <1>4 DEF NxtPos
  <2> HIDE DEF S, N
  <2> DEFINE v == w + n
             T == v - Len(c2.send_buf)
             M == wrapping_sub(c2.nxt, i)
  <2>5. T = S /\ M = N
    BY <2>1, <2>4
  <2> HIDE DEF T, M
  <2>6. \A k \in 1 .. Len(c2.send_buf) : c2.send_buf[k] = T + k
    BY <2>2, <2>5
  <2>7. IsFiniteSet(c2.retx) /\ ~c2.keepalive_enabled /\ Len(c2.send_buf) <= v
    BY <1>4, <2>1, <2>3
  <2>8. M = T + 1 \/ M = T + 2
    BY <2>3, <2>5
  <2>9. (c2.state \notin FinOut => M = T + 1) /\ (c2.state \in FinOut \ {"Closed"} => M = T + 2)
    BY <1>4, <2>3, <2>5
  <2> HIDE DEF v
  <2>10. Sending(i, v, c2)
    BY <1>5, <2>6, <2>7, <2>8, <2>9 DEF Sending, T, M
  <2> QED BY <2>10 DEF v
<1>11. RcvPos(j, c2) = RcvPos(j, c) /\ (Knows(c) <=> Knows(c2))
  BY <1>3, <1>4 DEF RcvPos, Knows, SameReceiver
<1> HIDE DEF S, N, L
<1>12. Grows(S, N, S, N) /\ RcvPos(j, c) <= RcvPos(j, c2)
  BY <1>2, <1>11 DEF Grows
<1>13. \A p \in Q \cup Pkts(c2.retx) : p \in Q \cup Pkts(c.retx)
  BY <1>4
<1>14. w + n \in Nat
  OBVIOUS
<1>15. Direction(i, j, w + n, c2, d, Q, rcvd)
  BY <1>1, <1>3, <1>4, <1>9, <1>10, <1>11, <1>12, <1>13, <1>14, SenderStep DEF S, N
<1> QED BY <1>4, <1>9, <1>11, <1>15 DEF c2, S

-----------------------------------------------------------------------------
(* The pair *)

\* Both streams are shorter than half the sequence space, with the SYN and the FIN.
ShortStreams == \A s \in Scenario, e \in Endpoint : Scenarios[s].written[e] + 3 < Half

\* The types of the variables.
PairTypes ==
    /\ scenario \in Scenario
    /\ conn \in [Endpoint -> Connection \cup {NoConn}]
    /\ net \in [Endpoint -> Seq(Segment)]
    /\ received \in [Endpoint -> Seq(Nat)]
    /\ written \in [Endpoint -> Nat] /\ \A e \in Endpoint : written[e] <= MaxWritten[e]
    /\ clock \in [Endpoint -> 0 .. Half - 1]

\* The stream that e sends.
Way(e) ==
    Direction(Iss[e], Iss[Peer(e)], written[e], conn[e], conn[Peer(e)], InNet(net[Peer(e)]), received[Peer(e)])

\* The inductive invariant.
PairInv == PairTypes /\ \A e \in Endpoint : Way(e)

\* The two endpoints.
LEMMA Two ==
    ASSUME NEW e \in Endpoint
    PROVE  /\ Peer(e) \in Endpoint /\ Peer(e) # e /\ Peer(Peer(e)) = e
           /\ \A x \in Endpoint : x = e \/ x = Peer(e)
BY DEF Endpoint, Peer

\* The types of a scenario.
LEMMA ScenarioIs ==
    ASSUME NEW s \in Scenario
    PROVE  /\ Scenarios[s].cwnds \subseteq Nat /\ Scenarios[s].chunk \in Nat
           /\ Scenarios[s].written \in [Endpoint -> Nat]
           /\ Scenarios[s].clock \in [Endpoint -> 0 .. Half - 1]
           /\ Scenarios[s].listened \in 0 .. Scenarios[s].clock["server"]
<1> DEFINE b == Scenarios[s]
<1>1. b \in {Scenarios[t] : t \in Scenario}
  OBVIOUS
<1> HIDE DEF b
<1>2. /\ b.cwnds \subseteq Nat /\ b.chunk \in Nat /\ b.written \in [Endpoint -> Nat]
      /\ b.clock \in [Endpoint -> 0 .. Half - 1] /\ b.listened \in 0 .. b.clock["server"]
  BY <1>1, PairAssumption
<1> QED BY <1>2 DEF b

\* Clocks are 32-bit values.
LEMMA Clocks == ASSUME NEW n \in 0 .. Half - 1 PROVE n \in SeqNum
BY CircleIs

\* What the invariant says of one side.
LEMMA SideFacts ==
    ASSUME ShortStreams, PairInv, NEW e \in Endpoint
    PROVE  /\ Iss[e] \in SeqNum /\ written[e] \in Nat /\ written[e] + 3 < Half
           /\ received[e] \in Seq(Nat) /\ Len(received[e]) \in Nat
           /\ clock[e] \in 0 .. Half - 1 /\ clock[e] \in SeqNum /\ Way(e)
           /\ Live(e) => /\ Sending(Iss[e], written[e], conn[e]) /\ ConnOK(conn[e])
                         /\ \A p \in Pkts(conn[e].retx) : p \in Segment
                         /\ Len(conn[e].send_buf) < Half /\ ~conn[e].keepalive_enabled
           /\ RcvPos(Iss[Peer(e)], conn[e]) \in Nat
           /\ Knows(conn[e]) => RcvPos(Iss[Peer(e)], conn[e]) >= 1
<1>1. /\ Peer(e) \in Endpoint /\ Peer(Peer(e)) = e
  BY Two
<1>2. \A x \in Endpoint : Iss[x] \in SeqNum
  BY PairAssumption
<1>3. \A x \in Endpoint : written[x] \in Nat /\ written[x] + 3 < Half
  <2> TAKE x \in Endpoint
  <2>1. written[x] \in Nat /\ written[x] <= Scenarios[scenario].written[x] /\ scenario \in Scenario
    BY DEF PairInv, PairTypes, MaxWritten
  <2>2. Scenarios[scenario].written[x] + 3 < Half /\ Scenarios[scenario].written[x] \in Nat
    BY <2>1, ScenarioIs DEF ShortStreams
  <2> QED BY <2>1, <2>2, CircleIs
<1>4. \A x \in Endpoint : received[x] \in Seq(Nat) /\ Len(received[x]) \in Nat
  BY LenProperties DEF PairInv, PairTypes
<1>5. clock[e] \in 0 .. Half - 1 /\ clock[e] \in SeqNum
  BY Clocks DEF PairInv, PairTypes
<1>6. Way(e) /\ Way(Peer(e))
  BY <1>1 DEF PairInv
<1>7. ASSUME Live(e)
      PROVE  /\ Sending(Iss[e], written[e], conn[e]) /\ ConnOK(conn[e])
             /\ \A p \in Pkts(conn[e].retx) : p \in Segment
             /\ Len(conn[e].send_buf) < Half /\ ~conn[e].keepalive_enabled
  <2>1. Sending(Iss[e], written[e], conn[e]) /\ \A p \in Pkts(conn[e].retx) : p \in Segment
    BY <1>6, <1>7 DEF Way, Direction, Live, Packets, Genuine
  <2>2. Len(conn[e].send_buf) \in Nat /\ Len(conn[e].send_buf) <= written[e]
    BY <1>2, <1>3, <2>1, SendingNumbers
  <2>3. Len(conn[e].send_buf) < Half
    BY <1>3, <2>2, CircleIs
  <2> QED BY <2>1, <2>3 DEF Sending
<1>8. /\ RcvPos(Iss[Peer(e)], conn[e]) \in Nat
      /\ Knows(conn[e]) => RcvPos(Iss[Peer(e)], conn[e]) >= 1
  <2>1. Direction(Iss[Peer(e)], Iss[e], written[Peer(e)], conn[Peer(e)], conn[e], InNet(net[e]), received[e])
    BY <1>1, <1>6 DEF Way
  <2>2. Iss[Peer(e)] \in SeqNum /\ Iss[e] \in SeqNum /\ written[Peer(e)] \in Nat /\ Len(received[e]) \in Nat
    BY <1>1, <1>2, <1>3, <1>4
  <2> HIDE DEF PairInv, ShortStreams, Way
  <2> QED BY <2>1, <2>2, KnowsPos
<1> QED BY <1>2, <1>3, <1>4, <1>5, <1>6, <1>7, <1>8

\* What is left after one datagram is gone.
LEMMA WithoutIs ==
    ASSUME NEW q \in Seq(Segment), NEW i \in DOMAIN q
    PROVE  /\ Without(q, i) \in Seq(Segment) /\ InNet(Without(q, i)) \subseteq InNet(q)
           /\ q[i] \in Segment /\ q[i] \in InNet(q)
<1> DEFINE n == Len(q)
           a == SubSeq(q, 1, i - 1)
           b == SubSeq(q, i + 1, n)
<1>1. n \in Nat /\ DOMAIN q = 1 .. n /\ \A k \in 1 .. n : q[k] \in Segment
  BY LenProperties, ElementOfSeq
<1>2. i \in 1 .. n
  BY <1>1
<1>3. q[i] \in Segment /\ \A k \in 1 .. n : q[k] \in InNet(q)
  BY <1>1, <1>2 DEF InNet
<1> HIDE DEF n
<1>4. /\ a \in Seq(Segment) /\ Len(a) \in Nat
      /\ \A k \in 1 .. Len(a) : a[k] \in InNet(q)
  <2>1. \A k \in 1 .. i - 1 : q[k] \in Segment
    BY <1>1, <1>2
  <2>2. /\ a \in Seq(Segment)
        /\ Len(a) = IF 1 <= i - 1 THEN (i - 1) - 1 + 1 ELSE 0
        /\ \A k \in 1 .. (i - 1) - 1 + 1 : a[k] = q[1 + k - 1]
    BY <1>1, <1>2, <2>1, SubSeqProperties
  <2> HIDE DEF a
  <2>3. Len(a) = i - 1
    BY <1>2, <2>2
  <2>4. ASSUME NEW k \in 1 .. Len(a) PROVE a[k] \in InNet(q)
    <3>1. k \in 1 .. (i - 1) - 1 + 1 /\ 1 + k - 1 = k /\ k \in 1 .. n
      BY <1>1, <1>2, <2>3
    <3>2. a[k] = q[k]
      BY <2>2, <3>1
    <3> QED BY <1>3, <3>1, <3>2
  <2> QED BY <1>2, <2>2, <2>3, <2>4
<1>5. /\ b \in Seq(Segment) /\ Len(b) \in Nat
      /\ \A k \in 1 .. Len(b) : b[k] \in InNet(q)
  <2>1. \A k \in i + 1 .. n : q[k] \in Segment
    BY <1>1, <1>2
  <2>2. /\ b \in Seq(Segment)
        /\ Len(b) = IF i + 1 <= n THEN n - (i + 1) + 1 ELSE 0
        /\ \A k \in 1 .. n - (i + 1) + 1 : b[k] = q[(i + 1) + k - 1]
    BY <1>1, <1>2, <2>1, SubSeqProperties
  <2> HIDE DEF b
  <2>3. Len(b) = n - i
    BY <1>1, <1>2, <2>2
  <2>4. ASSUME NEW k \in 1 .. Len(b) PROVE b[k] \in InNet(q)
    <3>1. k \in 1 .. n - (i + 1) + 1 /\ (i + 1) + k - 1 = i + k /\ i + k \in 1 .. n
      BY <1>1, <1>2, <2>3
    <3>2. b[k] = q[i + k]
      BY <2>2, <3>1
    <3> QED BY <1>3, <3>1, <3>2
  <2> QED BY <1>1, <1>2, <2>2, <2>3, <2>4
<1> HIDE DEF a, b
<1>6. a \o b \in Seq(Segment) /\ InNet(a \o b) \subseteq InNet(q)
  <2>1. /\ a \o b \in Seq(Segment) /\ Len(a \o b) = Len(a) + Len(b)
        /\ \A k \in 1 .. Len(a) + Len(b) : (a \o b)[k] = IF k <= Len(a) THEN a[k] ELSE b[k - Len(a)]
    BY <1>4, <1>5, ConcatProperties
  <2>2. DOMAIN (a \o b) = 1 .. Len(a) + Len(b)
    BY <2>1, LenProperties
  <2>3. ASSUME NEW k \in 1 .. Len(a) + Len(b) PROVE (a \o b)[k] \in InNet(q)
    <3>1. CASE k <= Len(a)
      <4>1. k \in 1 .. Len(a)
        BY <1>4, <1>5, <3>1
      <4> QED BY <1>4, <2>1, <3>1, <4>1
    <3>2. CASE ~(k <= Len(a))
      <4>1. k - Len(a) \in 1 .. Len(b)
        BY <1>4, <1>5, <3>2
      <4> QED BY <1>5, <2>1, <3>2, <4>1
    <3> QED BY <3>1, <3>2
  <2>4. InNet(a \o b) = {(a \o b)[k] : k \in 1 .. Len(a) + Len(b)}
    BY <2>2 DEF InNet
  <2> QED BY <2>1, <2>3, <2>4
<1>7. Without(q, i) = a \o b
  BY DEF Without, a, b, n
<1> QED BY <1>2, <1>3, <1>6, <1>7

\* A datagram is taken, and perhaps stays behind.
LEMMA LeftIs ==
    ASSUME NEW e \in Endpoint, net \in [Endpoint -> Seq(Segment)], NEW i \in DOMAIN net[e], NEW dup \in BOOLEAN
    PROVE  /\ Left(e, i, dup) \in [Endpoint -> Seq(Segment)]
           /\ Left(e, i, dup)[Peer(e)] = net[Peer(e)]
           /\ InNet(Left(e, i, dup)[e]) \subseteq InNet(net[e])
           /\ net[e][i] \in Segment /\ net[e][i] \in InNet(net[e])
<1>1. net[e] \in Seq(Segment) /\ Peer(e) \in Endpoint /\ Peer(e) # e
  BY Two
<1>2. /\ Without(net[e], i) \in Seq(Segment) /\ InNet(Without(net[e], i)) \subseteq InNet(net[e])
      /\ net[e][i] \in Segment /\ net[e][i] \in InNet(net[e])
  BY <1>1, WithoutIs
<1> QED BY <1>1, <1>2 DEF Left

\* Datagrams are handed to the network.
LEMMA SendsIs ==
    ASSUME NEW e \in Endpoint, NEW q \in [Endpoint -> Seq(Segment)], NEW out, IsFiniteSet(out),
           out \subseteq Segment, Sends(e, out, q)
    PROVE  /\ net' \in [Endpoint -> Seq(Segment)] /\ net'[e] = q[e]
           /\ InNet(net'[Peer(e)]) \subseteq InNet(q[Peer(e)]) \cup out
<1> DEFINE f == Peer(e)
           a == q[f]
           D == out \ InNet(a)
           n == Cardinality(D)
<1>1. f \in Endpoint /\ f # e /\ a \in Seq(Segment) /\ Len(a) \in Nat
  BY Two, LenProperties
<1>2. n \in Nat
  <2>1. IsFiniteSet(D)
    BY FS_Subset
  <2> QED BY <2>1, FS_CardinalityType
<1>3. PICK b \in Orderings(D) : net' = [q EXCEPT ![f] = a \o b]
  BY DEF Sends
<1> HIDE DEF f, a
<1>4. b \in [1 .. n -> D]
  BY <1>3 DEF Orderings
<1> HIDE DEF n
<1>5. b \in Seq(Segment) /\ DOMAIN b = 1 .. n /\ \A k \in 1 .. n : b[k] \in out
  <2>1. b \in [1 .. n -> Segment]
    BY <1>4
  <2> QED BY <1>2, <1>4, <2>1, SeqDef
<1>6. Len(b) = n
  BY <1>2, <1>5, LenProperties
<1>7. /\ a \o b \in Seq(Segment) /\ Len(a \o b) = Len(a) + n
      /\ \A k \in 1 .. Len(a) + n : (a \o b)[k] = IF k <= Len(a) THEN a[k] ELSE b[k - Len(a)]
  BY <1>1, <1>5, <1>6, ConcatProperties
<1>8. DOMAIN (a \o b) = 1 .. Len(a) + n /\ DOMAIN a = 1 .. Len(a)
  BY <1>1, <1>7, LenProperties
<1>9. ASSUME NEW k \in 1 .. Len(a) + n PROVE (a \o b)[k] \in InNet(a) \cup out
  <2>1. CASE k <= Len(a)
    <3>1. k \in DOMAIN a
      BY <1>1, <1>2, <1>8, <2>1
    <3>2. (a \o b)[k] = a[k]
      BY <1>7, <2>1
    <3> QED BY <3>1, <3>2 DEF InNet
  <2>2. CASE ~(k <= Len(a))
    <3>1. k - Len(a) \in 1 .. n
      BY <1>1, <1>2, <2>2
    <3> QED BY <1>5, <1>7, <2>2, <3>1
  <2> QED BY <2>1, <2>2
<1>10. InNet(a \o b) = {(a \o b)[k] : k \in 1 .. Len(a) + n}
  BY <1>8 DEF InNet
<1>11. InNet(a \o b) \subseteq InNet(a) \cup out
  BY <1>9, <1>10
<1>12. net'[f] = a \o b /\ net'[e] = q[e] /\ net' \in [Endpoint -> Seq(Segment)]
  BY <1>1, <1>3, <1>7
<1> QED BY <1>11, <1>12 DEF f, a

\* The distance of two numbers is that of their positions.
LEMMA PosDiff ==
    ASSUME NEW i \in SeqNum, NEW x \in SeqNum, NEW y \in SeqNum
    PROVE  wrapping_sub(x, y) = IF wrapping_sub(y, i) <= wrapping_sub(x, i)
                                THEN wrapping_sub(x, i) - wrapping_sub(y, i)
                                ELSE (wrapping_sub(x, i) - wrapping_sub(y, i)) + SeqMod
<1>1. /\ wrapping_sub(x, y) = IF y <= x THEN x - y ELSE (x - y) + SeqMod
      /\ wrapping_sub(x, i) = IF i <= x THEN x - i ELSE (x - i) + SeqMod
      /\ wrapping_sub(y, i) = IF i <= y THEN y - i ELSE (y - i) + SeqMod
  BY SubIs
<1>2. i \in Int /\ x \in Int /\ y \in Int /\ SeqMod \in Nat /\ 0 <= i /\ 0 <= x /\ 0 <= y /\ i < SeqMod /\ x < SeqMod /\ y < SeqMod
  BY CircleIs
<1> QED BY <1>1, <1>2

\* What is in flight, with what is still to be sent, is less than half the circle.
LEMMA FlightShort ==
    ASSUME ShortStreams, PairInv, NEW e \in Endpoint, Live(e)
    PROVE  /\ flight_size(conn[e]) \in Nat /\ Len(conn[e].send_buf) \in Nat
           /\ flight_size(conn[e]) + Len(conn[e].send_buf) + 1 < Half
<1> DEFINE c == conn[e]
           i == Iss[e]
           w == written[e]
           u == wrapping_sub(c.una, i)
           n == wrapping_sub(c.nxt, i)
           l == Len(c.send_buf)
<1>1. /\ i \in SeqNum /\ w \in Nat /\ w + 3 < Half /\ Way(e) /\ Sending(i, w, c)
  BY SideFacts
<1>2. Iss[Peer(e)] \in SeqNum /\ Len(received[Peer(e)]) \in Nat
  BY Two, SideFacts
<1>3. /\ c.una \in SeqNum /\ c.nxt \in SeqNum /\ l \in Nat /\ l <= w /\ n \in Nat /\ u \in Nat
      /\ n <= w - l + 2
  BY <1>1, SendingNumbers
<1>4. Direction(i, Iss[Peer(e)], w, c, conn[Peer(e)], InNet(net[Peer(e)]), received[Peer(e)]) /\ c # NoConn
  BY <1>1 DEF Way, Live
<1>5. u <= n
  <2> DEFINE R == RcvPos(i, conn[Peer(e)])
  <2>1. R \in Nat /\ R <= NxtPos(i, c)
    BY <1>1, <1>2, <1>4, KnowsPos
  <2>2. u <= R /\ NxtPos(i, c) = n
    BY <1>4 DEF Direction, NxtPos
  <2> HIDE DEF R, u, n
  <2> QED BY <1>3, <2>1, <2>2
<1>6. flight_size(c) = n - u
  BY <1>1, <1>3, <1>5, PosDiff DEF flight_size
<1> HIDE DEF u, n, l, w
<1> QED BY <1>1, <1>3, <1>5, <1>6, CircleIs DEF l

\* Both directions again.
LEMMA Assemble ==
    ASSUME NEW e \in Endpoint, PairTypes', Way(e)', Way(Peer(e))'
    PROVE  PairInv'
<1>1. \A x \in Endpoint : x = e \/ x = Peer(e)
  BY Two
<1>2. \A x \in Endpoint : Way(x)'
  BY <1>1
<1> QED BY <1>2 DEF PairInv

\* One connection is replaced.
LEMMA ConnChanges ==
    ASSUME PairTypes, NEW e \in Endpoint, NEW c, ConnOK(c), conn' = [conn EXCEPT ![e] = c]
    PROVE  /\ conn'[e] = c /\ conn'[Peer(e)] = conn[Peer(e)]
           /\ conn' \in [Endpoint -> Connection \cup {NoConn}]
BY Two DEF PairTypes, ConnOK

\* e sends r of its own accord: poll's first and third phases, and close.
OwnStep(e, r, now) ==
    /\ Live(e) /\ ConnOK(r.tcb) /\ now \in SeqNum
    /\ Emits(conn[e], r, now) \/ EmitsFin(conn[e], r, now)
    /\ Queued(conn[e]) => Queued(r.tcb)
    /\ conn' = [conn EXCEPT ![e] = r.tcb] /\ Sends(e, r.out, net)
    /\ UNCHANGED << scenario, received, written >> /\ clock' \in [Endpoint -> 0 .. Half - 1]
    /\ clock[e] <= now /\ clock'[e] = now /\ clock'[Peer(e)] = clock[Peer(e)]

\* Both directions survive it.
LEMMA EmitsStep ==
    ASSUME ShortStreams, PairInv, NEW e \in Endpoint, NEW r, NEW now, OwnStep(e, r, now)
    PROVE  PairInv'
<1>0. /\ Live(e) /\ ConnOK(r.tcb) /\ now \in SeqNum
      /\ Emits(conn[e], r, now) \/ EmitsFin(conn[e], r, now)
      /\ conn' = [conn EXCEPT ![e] = r.tcb] /\ Sends(e, r.out, net)
      /\ UNCHANGED << scenario, received, written >> /\ clock' \in [Endpoint -> 0 .. Half - 1]
  BY DEF OwnStep
<1> USE <1>0
<1> DEFINE f == Peer(e)
<1>1. f \in Endpoint /\ f # e /\ Peer(f) = e
  BY Two
<1>2. /\ Iss[e] \in SeqNum /\ written[e] \in Nat /\ written[e] + 3 < Half
      /\ Sending(Iss[e], written[e], conn[e]) /\ \A p \in Pkts(conn[e].retx) : p \in Segment
      /\ RcvPos(Iss[f], conn[e]) \in Nat /\ (Knows(conn[e]) => RcvPos(Iss[f], conn[e]) >= 1)
      /\ Way(e)
  BY SideFacts
<1>3. Iss[f] \in SeqNum /\ written[f] \in Nat /\ Len(received[f]) \in Nat /\ Way(f)
  BY <1>1, SideFacts
<1>4. /\ IsFiniteSet(r.out) /\ r.out \subseteq Segment
      /\ SameReceiver(conn[e], r.tcb) /\ (Knows(conn[e]) <=> Knows(r.tcb))
  BY <1>2, EmitsOut
<1>5. net \in [Endpoint -> Seq(Segment)] /\ PairTypes
  BY DEF PairInv, PairTypes
<1>6. /\ net' \in [Endpoint -> Seq(Segment)] /\ net'[e] = net[e]
      /\ InNet(net'[f]) \subseteq InNet(net[f]) \cup r.out
  BY <1>4, <1>5, SendsIs
<1>7. /\ conn'[e] = r.tcb /\ conn'[f] = conn[f]
      /\ conn' \in [Endpoint -> Connection \cup {NoConn}]
  BY <1>5, ConnChanges
<1>8. PairTypes'
  BY <1>5, <1>6, <1>7 DEF PairTypes, MaxWritten
<1>9. Way(e)'
  <2>1. Direction(Iss[e], Iss[f], written[e], conn[e], conn[f], InNet(net[f]), received[f])
    BY <1>2 DEF Way
  <2>2. conn[e] # NoConn
    BY DEF Live
  <2> HIDE DEF f
  <2>3. Direction(Iss[e], Iss[f], written[e], r.tcb, conn[f], InNet(net'[f]), received[f])
    BY <1>2, <1>3, <1>6, <2>1, <2>2, EmitsDirection
  <2>4. Direction(Iss[e], Iss[f], written'[e], conn'[e], conn'[f], InNet(net'[f]), received'[f])
    BY <1>7, <2>3
  <2> QED BY <2>4 DEF Way, f
<1>10. Way(f)'
  <2>1. Direction(Iss[f], Iss[e], written[f], conn[f], conn[e], InNet(net[e]), received[e])
    BY <1>1, <1>3 DEF Way
  <2>2. conn[e] # NoConn /\ r.tcb # NoConn
    BY ConnIsNot DEF Live
  <2> HIDE DEF f
  <2>3. Direction(Iss[f], Iss[e], written[f], conn[f], r.tcb, InNet(net[e]), received[e])
    BY <1>4, <2>1, <2>2, ReceiverIdles
  <2>4. Direction(Iss[f], Iss[e], written'[f], conn'[f], conn'[e], InNet(net'[e]), received'[e])
    BY <1>6, <1>7, <2>3
  <2> QED BY <1>1, <2>4 DEF Way
<1> QED BY <1>8, <1>9, <1>10, Assemble

\* on_tick.
LEMMA PollBeginIs ==
    ASSUME ShortStreams, PairInv, NEW e \in Endpoint, Live(e), NEW R \in SUBSET Holes(conn[e].retx), PollBegin(e, R)
    PROVE  \E r, now : OwnStep(e, r, now)
<1>1. PICK expired \in BOOLEAN, rto \in BOOLEAN, n \in {clock[e], clock[e] + 1} :
         /\ n <= MaxClock[e]
         /\ \E r \in {on_tick(conn[e], [expired |-> expired, resend |-> R, rto |-> rto,
                                        persist |-> TRUE, keepalive |-> TRUE], n)} :
               conn' = [conn EXCEPT ![e] = r.tcb] /\ Sends(e, r.out, net)
         /\ clock' = [clock EXCEPT ![e] = n]
  BY DEF PollBegin
<1> DEFINE t == [expired |-> expired, resend |-> R, rto |-> rto, persist |-> TRUE, keepalive |-> TRUE]
           r == on_tick(conn[e], t, n)
<1>2. conn' = [conn EXCEPT ![e] = r.tcb] /\ Sends(e, r.out, net)
  BY <1>1
<1>3. /\ ConnOK(conn[e]) /\ ~conn[e].keepalive_enabled /\ clock[e] \in 0 .. Half - 1
      /\ written[e] \in Nat /\ written[e] + 3 < Half
  BY SideFacts
<1>4. 1 < Half
  BY <1>3, CircleIs
<1>5. scenario \in Scenario /\ clock \in [Endpoint -> 0 .. Half - 1]
  BY DEF PairInv, PairTypes
<1>6. n \in 0 .. Half - 1
  <2>1. MaxClock[e] \in 0 .. Half - 1
    BY <1>5, ScenarioIs DEF MaxClock
  <2>2. clock[e] \in Nat /\ n \in Nat
    BY <1>1, <1>3
  <2>3. n <= MaxClock[e]
    BY <1>1
  <2> HIDE DEF MaxClock
  <2> QED BY <2>1, <2>2, <2>3, CircleIs
<1>7. n \in SeqNum
  BY <1>6, Clocks
<1>8. t.resend \in SUBSET conn[e].retx /\ t.rto \in BOOLEAN
  BY DEF Holes
<1> HIDE DEF t
<1>9. ConnOK(r.tcb)
  BY <1>3, <1>7, <1>8, OnTickType
<1>10. Emits(conn[e], r, n)
  BY <1>3, <1>4, <1>7, <1>8, OnTickEmits
<1>11. clock' \in [Endpoint -> 0 .. Half - 1]
  BY <1>1, <1>5, <1>6
<1>12. UNCHANGED << scenario, received, written >>
  BY DEF PollBegin
<1>13. flight_size(conn[e]) + 1 < Half
  <2>1. /\ flight_size(conn[e]) \in Nat /\ Len(conn[e].send_buf) \in Nat
        /\ flight_size(conn[e]) + Len(conn[e].send_buf) + 1 < Half
    BY FlightShort
  <2> QED BY <2>1, CircleIs
<1>14. Queued(conn[e]) => Queued(r.tcb)
  BY <1>3, <1>7, <1>8, <1>13, OnTickQueued
<1> HIDE DEF r
<1>15. clock[e] <= n /\ clock'[e] = n /\ clock'[Peer(e)] = clock[Peer(e)]
  <2>1. Peer(e) \in Endpoint /\ Peer(e) # e
    BY Two
  <2> QED BY <1>1, <1>3, <1>5, <2>1
<1>20. OwnStep(e, r, n)
  BY <1>14, <1>15, <1>2, <1>7, <1>9, <1>10, <1>11, <1>12 DEF OwnStep
<1> QED BY <1>20

\* poll_transmit.
LEMMA PollEndIs ==
    ASSUME ShortStreams, PairInv, NEW e \in Endpoint, PollEnd(e)
    PROVE  \E r, now : OwnStep(e, r, now)
<1>1. Live(e)
  BY DEF PollEnd
<1>2. PICK cwnd \in Cwnds : \E r \in {poll_transmit(conn[e], cwnd, clock[e])} :
          conn' = [conn EXCEPT ![e] = r.tcb] /\ Sends(e, r.out, net)
  BY DEF PollEnd
<1> DEFINE r == poll_transmit(conn[e], cwnd, clock[e])
<1>3. conn' = [conn EXCEPT ![e] = r.tcb] /\ Sends(e, r.out, net)
  BY <1>2
<1>4. ConnOK(conn[e]) /\ clock[e] \in SeqNum /\ Len(conn[e].send_buf) < Half
  BY <1>1, SideFacts
<1>5. cwnd \in Nat
  BY ScenarioIs DEF Cwnds, PairInv, PairTypes
<1>6. ConnOK(r.tcb)
  BY <1>4, <1>5, PollTransmitType
<1>7. Emits(conn[e], r, clock[e])
  BY <1>4, <1>5, PollTransmitEmits
<1>8. UNCHANGED << scenario, received, written >> /\ clock' \in [Endpoint -> 0 .. Half - 1]
  BY DEF PollEnd, PairInv, PairTypes
<1>9. flight_size(conn[e]) + Len(conn[e].send_buf) < Half
  <2>1. /\ flight_size(conn[e]) \in Nat /\ Len(conn[e].send_buf) \in Nat
        /\ flight_size(conn[e]) + Len(conn[e].send_buf) + 1 < Half
    BY <1>1, FlightShort
  <2> QED BY <2>1, CircleIs
<1>10. Queued(conn[e]) => Queued(r.tcb)
  BY <1>4, <1>5, <1>9, PollTransmitQueued
<1> HIDE DEF r
<1>11. clock' = clock /\ clock[e] <= clock[e]
  BY <1>4, CircleIs DEF PollEnd
<1>20. OwnStep(e, r, clock[e])
  BY <1>10, <1>11, <1>1, <1>3, <1>4, <1>6, <1>7, <1>8 DEF OwnStep
<1> QED BY <1>20

\* close.
LEMMA CloseIs ==
    ASSUME ShortStreams, PairInv, NEW e \in Endpoint, Close(e)
    PROVE  \E r, now : OwnStep(e, r, now)
<1>1. Live(e)
  BY DEF Close
<1> DEFINE r == close(conn[e], clock[e])
<1>2. conn' = [conn EXCEPT ![e] = r.tcb] /\ Sends(e, r.out, net)
  BY DEF Close
<1>3. ConnOK(conn[e]) /\ clock[e] \in SeqNum
  BY <1>1, SideFacts
<1>4. ConnOK(r.tcb)
  BY <1>3, CloseType
<1>5. Emits(conn[e], r, clock[e]) \/ EmitsFin(conn[e], r, clock[e])
  BY <1>3, CloseEmits
<1>6. UNCHANGED << scenario, received, written >> /\ clock' \in [Endpoint -> 0 .. Half - 1]
  BY DEF Close, PairInv, PairTypes
<1>7. flight_size(conn[e]) + 1 < Half
  <2>1. /\ flight_size(conn[e]) \in Nat /\ Len(conn[e].send_buf) \in Nat
        /\ flight_size(conn[e]) + Len(conn[e].send_buf) + 1 < Half
    BY <1>1, FlightShort
  <2> QED BY <2>1, CircleIs
<1>8. Queued(conn[e]) => Queued(r.tcb)
  BY <1>3, <1>7, CloseQueued
<1> HIDE DEF r
<1>9. clock' = clock /\ clock[e] <= clock[e]
  BY <1>3, CircleIs DEF Close
<1>20. OwnStep(e, r, clock[e])
  BY <1>8, <1>9, <1>1, <1>2, <1>3, <1>4, <1>5, <1>6 DEF OwnStep
<1> QED BY <1>20

\* write extends the stream.
LEMMA FeedInv ==
    ASSUME ShortStreams, PairInv, NEW e \in Endpoint, NEW n \in Nat, Feed(e, n)
    PROVE  PairInv'
<1> DEFINE f == Peer(e)
           b == [i \in 1 .. n |-> written[e] + i]
           c == write(conn[e], b)
<1>1. f \in Endpoint /\ f # e /\ Peer(f) = e
  BY Two
<1>2. /\ conn' = [conn EXCEPT ![e] = c] /\ written' = [written EXCEPT ![e] = @ + n]
      /\ written[e] + n <= MaxWritten[e] /\ Live(e)
      /\ UNCHANGED << scenario, received, clock, net >>
  <2>1. e \in DOMAIN conn
    BY DEF PairInv, PairTypes
  <2> QED BY <2>1 DEF Feed
<1>3. /\ Iss[e] \in SeqNum /\ written[e] \in Nat /\ ConnOK(conn[e])
      /\ RcvPos(Iss[f], conn[e]) \in Nat /\ Way(e)
  BY <1>2, SideFacts
<1>4. Iss[f] \in SeqNum /\ written[f] \in Nat /\ Len(received[f]) \in Nat /\ Way(f)
  BY <1>1, SideFacts
<1>5. b \in Seq(Byte) /\ Len(b) = n /\ \A k \in 1 .. n : b[k] = written[e] + k
  <2>1. \A k \in 1 .. n : written[e] + k \in Byte
    BY <1>3 DEF Byte
  <2>2. b \in [1 .. n -> Byte]
    BY <2>1
  <2>3. b \in Seq(Byte)
    BY <2>2, SeqDef
  <2>4. DOMAIN b = 1 .. n /\ DOMAIN b = 1 .. Len(b) /\ Len(b) \in Nat
    BY <2>2, <2>3, LenProperties
  <2> QED BY <2>3, <2>4
<1> HIDE DEF b
<1>6. ConnOK(c)
  BY <1>3, <1>5, WriteType
<1>7. PairTypes /\ conn[e] # NoConn
  BY <1>2 DEF PairInv, Live
<1>8. Direction(Iss[e], Iss[f], written[e], conn[e], conn[f], InNet(net[f]), received[f])
  BY <1>3 DEF Way
<1>9. Direction(Iss[f], Iss[e], written[f], conn[f], conn[e], InNet(net[e]), received[e])
  BY <1>1, <1>4 DEF Way
<1>10. /\ Direction(Iss[e], Iss[f], written[e] + n, c, conn[f], InNet(net[f]), received[f])
       /\ SameReceiver(conn[e], c) /\ (Knows(conn[e]) <=> Knows(c))
  <2> HIDE DEF f
  <2> QED BY <1>3, <1>4, <1>5, <1>6, <1>7, <1>8, WriteDirection
<1> HIDE DEF c
<1>11. Direction(Iss[f], Iss[e], written[f], conn[f], c, InNet(net[e]), received[e])
  <2>1. c # NoConn
    BY <1>6, ConnIsNot
  <2> HIDE DEF f
  <2> QED BY <1>6, <1>7, <1>9, <1>10, <2>1, ReceiverIdles
<1>12. /\ conn'[e] = c /\ conn'[f] = conn[f]
       /\ conn' \in [Endpoint -> Connection \cup {NoConn}]
  BY <1>2, <1>6, <1>7, ConnChanges
<1>13. written'[e] = written[e] + n /\ written'[f] = written[f] /\ written' \in [Endpoint -> Nat]
  BY <1>1, <1>2, <1>3, <1>7 DEF PairTypes
<1>14. PairTypes'
  <2>1. \A x \in Endpoint : written'[x] <= MaxWritten'[x]
    <3>1. MaxWritten' = MaxWritten
      BY <1>2 DEF MaxWritten
    <3>2. \A x \in Endpoint : x = e \/ x = f
      BY Two
    <3> QED BY <1>1, <1>2, <1>7, <1>13, <3>1, <3>2 DEF PairTypes
  <2> QED BY <1>2, <1>7, <1>12, <1>13, <2>1 DEF PairTypes
<1>15. Way(e)'
  BY <1>2, <1>10, <1>12, <1>13 DEF Way
<1>16. Way(f)'
  BY <1>1, <1>2, <1>11, <1>12, <1>13 DEF Way
<1> QED BY <1>14, <1>15, <1>16, Assemble

\* A datagram is lost.
LEMMA LoseInv ==
    ASSUME PairInv, NEW e \in Endpoint, NEW i \in DOMAIN net[e], Lose(e, i)
    PROVE  PairInv'
<1> DEFINE f == Peer(e)
<1>1. f \in Endpoint /\ f # e /\ Peer(f) = e
  BY Two
<1>2. /\ net' = [net EXCEPT ![e] = Without(net[e], i)]
      /\ UNCHANGED << scenario, conn, received, written, clock >>
  BY DEF Lose
<1>3. PairTypes /\ Way(e) /\ Way(f)
  BY <1>1 DEF PairInv
<1>4. net \in [Endpoint -> Seq(Segment)]
  BY <1>3 DEF PairTypes
<1>5. Without(net[e], i) \in Seq(Segment) /\ InNet(Without(net[e], i)) \subseteq InNet(net[e])
  BY <1>4, WithoutIs
<1>6. net' \in [Endpoint -> Seq(Segment)] /\ net'[f] = net[f] /\ InNet(net'[e]) \subseteq InNet(net[e])
  BY <1>1, <1>2, <1>4, <1>5
<1>7. PairTypes'
  BY <1>2, <1>3, <1>6 DEF PairTypes, MaxWritten
<1>8. Way(e)'
  BY <1>2, <1>3, <1>6 DEF Way
<1>9. Way(f)'
  <2>1. Direction(Iss[f], Iss[e], written[f], conn[f], conn[e], InNet(net[e]), received[e])
    BY <1>1, <1>3 DEF Way
  <2>2. Direction(Iss[f], Iss[e], written[f], conn[f], conn[e], InNet(net'[e]), received[e])
    BY <1>6, <2>1, ChannelShrinks
  <2> QED BY <1>1, <1>2, <2>2 DEF Way
<1> QED BY <1>7, <1>8, <1>9, Assemble

\* A connection takes a datagram and may answer.
LEMMA TakesStep ==
    ASSUME PairInv, NEW e \in Endpoint, NEW i \in DOMAIN net[e], NEW dup \in BOOLEAN,
           NEW c, ConnOK(c), NEW out, IsFiniteSet(out), out \subseteq Segment, NEW rcvd \in Seq(Nat),
           conn' = [conn EXCEPT ![e] = c], received' = [received EXCEPT ![e] = rcvd],
           Sends(e, out, Left(e, i, dup)),
           UNCHANGED << scenario, written >>, clock' \in [Endpoint -> 0 .. Half - 1],
           \A Q : Q \subseteq InNet(net[Peer(e)]) \cup out =>
                     Direction(Iss[e], Iss[Peer(e)], written[e], c, conn[Peer(e)], Q, received[Peer(e)]),
           Direction(Iss[Peer(e)], Iss[e], written[Peer(e)], conn[Peer(e)], c, InNet(net[e]), rcvd)
    PROVE  PairInv'
<1> DEFINE f == Peer(e)
           q == Left(e, i, dup)
<1>1. f \in Endpoint /\ f # e /\ Peer(f) = e
  BY Two
<1>2. PairTypes /\ net \in [Endpoint -> Seq(Segment)]
  BY DEF PairInv, PairTypes
<1>3. /\ q \in [Endpoint -> Seq(Segment)] /\ q[f] = net[f] /\ InNet(q[e]) \subseteq InNet(net[e])
  BY <1>2, LeftIs
<1>4. /\ net' \in [Endpoint -> Seq(Segment)] /\ net'[e] = q[e]
      /\ InNet(net'[f]) \subseteq InNet(q[f]) \cup out
  <2> HIDE DEF q
  <2>1. Sends(e, out, q)
    BY DEF q
  <2> QED BY <1>3, <2>1, SendsIs
<1> HIDE DEF q
<1>5. /\ conn'[e] = c /\ conn'[f] = conn[f]
      /\ conn' \in [Endpoint -> Connection \cup {NoConn}]
  BY <1>2, ConnChanges
<1>6. received'[e] = rcvd /\ received'[f] = received[f] /\ received' \in [Endpoint -> Seq(Nat)]
  BY <1>1, <1>2 DEF PairTypes
<1>7. PairTypes'
  BY <1>2, <1>4, <1>5, <1>6 DEF PairTypes, MaxWritten
<1>8. Way(e)'
  <2>1. InNet(net'[f]) \subseteq InNet(net[f]) \cup out
    BY <1>3, <1>4
  <2>2. Direction(Iss[e], Iss[f], written[e], c, conn[f], InNet(net'[f]), received[f])
    BY <2>1
  <2> QED BY <1>5, <1>6, <2>2 DEF Way
<1>9. Way(f)'
  <2>1. InNet(net'[e]) \subseteq InNet(net[e])
    BY <1>3, <1>4
  <2>2. Direction(Iss[f], Iss[e], written[f], conn[f], c, InNet(net'[e]), rcvd)
    BY <2>1, ChannelShrinks
  <2> QED BY <1>1, <1>5, <1>6, <2>2 DEF Way
<1> QED BY <1>7, <1>8, <1>9, Assemble

\* The datagram that arrives is one of the stream.
LEMMA ArrivesGenuine ==
    ASSUME ShortStreams, PairInv, NEW e \in Endpoint, NEW i \in DOMAIN net[e]
    PROVE  /\ net[e][i] \in Segment /\ net[e][i] \in InNet(net[e]) /\ "RST" \notin net[e][i].flags
           /\ conn[Peer(e)] # NoConn
           /\ Genuine(Iss[Peer(e)], Wire(written[Peer(e)], conn[Peer(e)]), NxtPos(Iss[Peer(e)], conn[Peer(e)]), net[e][i])
           /\ Acked(Iss[e], RcvPos(Iss[e], conn[Peer(e)]), net[e][i])
           /\ Direction(Iss[Peer(e)], Iss[e], written[Peer(e)], conn[Peer(e)], conn[e], InNet(net[e]), received[e])
           /\ Direction(Iss[e], Iss[Peer(e)], written[e], conn[e], conn[Peer(e)], InNet(net[Peer(e)]), received[Peer(e)])
<1> DEFINE f == Peer(e)
           s == net[e][i]
<1>1. f \in Endpoint /\ Peer(f) = e
  BY Two
<1>2. net \in [Endpoint -> Seq(Segment)] /\ Way(e) /\ Way(f)
  BY <1>1 DEF PairInv, PairTypes
<1>3. s \in Segment /\ s \in InNet(net[e])
  BY <1>2, WithoutIs
<1>4. /\ Direction(Iss[f], Iss[e], written[f], conn[f], conn[e], InNet(net[e]), received[e])
      /\ Direction(Iss[e], Iss[f], written[e], conn[e], conn[f], InNet(net[f]), received[f])
  BY <1>1, <1>2 DEF Way
<1> HIDE DEF s, f
<1>5. /\ Genuine(Iss[f], Wire(written[f], conn[f]), NxtPos(Iss[f], conn[f]), s)
      /\ Acked(Iss[e], RcvPos(Iss[e], conn[f]), s) /\ conn[f] # NoConn
  BY <1>3, <1>4 DEF Direction
<1>6. "RST" \notin s.flags
  BY <1>5 DEF Genuine
<1> QED BY <1>3, <1>4, <1>5, <1>6 DEF s, f

\* What is sent in answer is finite.
LEMMA RepliesFinite ==
    ASSUME NEW c, NEW d, NEW out, NEW now, Replies(c, d, out, now), IsFiniteSet(c.retx),
           \A p \in Pkts(c.retx) : p \in Segment
    PROVE  IsFiniteSet(out) /\ out \subseteq Segment
<1>1. CASE out \subseteq Pkts(c.retx)
  BY <1>1, PktsFinite, FS_Subset
<1>2. CASE \E p : out = {p} /\ IsAck(d, now, p)
  BY <1>2, FS_Singleton DEF IsAck
<1> QED BY <1>1, <1>2 DEF Replies

\* r is what e makes of the datagram s.
Taken(e, s, r, now) ==
    \/ conn[e].state = "SynSent" /\ (Idles(conn[e], r) \/ Completes(conn[e], s, r, now))
    \/ conn[e].state # "SynSent" /\ Ingests(conn[e], s, r, now)

\* e takes the i-th datagram, in poll's second phase.
TakeStep(e, i, dup, r) ==
    /\ Live(e) /\ ConnOK(r.tcb) /\ Moves(conn[e], r.tcb) /\ Taken(e, net[e][i], r, clock[e])
    /\ Queued(conn[e]) => Queued(r.tcb)
    /\ conn' = [conn EXCEPT ![e] = r.tcb]
    /\ received' = [received EXCEPT ![e] = received[e] \o r.data]
    /\ Sends(e, r.out, Left(e, i, dup)) /\ UNCHANGED << scenario, written, clock >>

\* That is what on_segment does.
LEMMA IngestIs ==
    ASSUME ShortStreams, PairInv, NEW e \in Endpoint, NEW i \in DOMAIN net[e], NEW dup \in BOOLEAN, Ingest(e, i, dup)
    PROVE  \E r : TakeStep(e, i, dup, r)
<1> DEFINE s == net[e][i]
           c == conn[e]
<1>1. Live(e) /\ UNCHANGED << scenario, written, clock >>
  BY DEF Ingest, Ready
<1>2. PICK throttled \in Throttled :
         \E r \in {on_segment(c, s, throttled, clock[e])} :
            /\ conn' = [conn EXCEPT ![e] = r.tcb]
            /\ received' = [received EXCEPT ![e] = @ \o r.data]
            /\ Sends(e, r.out, Left(e, i, dup))
  BY DEF Ingest
<1> DEFINE r == on_segment(c, s, throttled, clock[e])
<1>3. /\ conn' = [conn EXCEPT ![e] = r.tcb] /\ received' = [received EXCEPT ![e] = received[e] \o r.data]
      /\ Sends(e, r.out, Left(e, i, dup))
  <2>1. e \in DOMAIN received
    BY DEF PairInv, PairTypes
  <2> QED BY <1>2, <2>1
<1>4. ConnOK(c) /\ clock[e] \in SeqNum
  BY <1>1, SideFacts
<1>5. s \in Segment /\ "RST" \notin s.flags
  BY ArrivesGenuine
<1> HIDE DEF s, c
<1>6. ConnOK(r.tcb) /\ Moves(c, r.tcb)
  BY <1>4, <1>5, OnSegmentType, OnSegmentEffect DEF Effect
<1>7. c.state = "SynSent" => Idles(c, r) \/ Completes(c, s, r, clock[e])
  BY <1>4, <1>5, OnSynSentCompletes
<1>8. c.state # "SynSent" => Ingests(c, s, r, clock[e])
  BY <1>4, <1>5, OnSegmentIngests
<1>11. flight_size(c) < Half
  <2>1. /\ flight_size(c) \in Nat /\ Len(c.send_buf) \in Nat /\ flight_size(c) + Len(c.send_buf) + 1 < Half
    BY <1>1, FlightShort DEF c
  <2> QED BY <2>1, CircleIs
<1>12. Queued(c) => Queued(r.tcb)
  BY <1>4, <1>5, <1>11, OnSegmentQueued
<1> HIDE DEF r
<1>9. Taken(e, s, r, clock[e])
  BY <1>7, <1>8 DEF Taken, c
<1>10. TakeStep(e, i, dup, r)
  BY <1>12, <1>1, <1>3, <1>6, <1>9 DEF c, s, TakeStep
<1> QED BY <1>10

\* on_segment.
LEMMA IngestInv ==
    ASSUME ShortStreams, PairInv, NEW e \in Endpoint, NEW i \in DOMAIN net[e], NEW dup \in BOOLEAN, Ingest(e, i, dup)
    PROVE  PairInv'
<1> DEFINE f == Peer(e)
           s == net[e][i]
           c == conn[e]
           d == conn[f]
<1>1. f \in Endpoint /\ f # e /\ Peer(f) = e
  BY Two
<1>2. PICK r : TakeStep(e, i, dup, r)
  BY IngestIs
<1> DEFINE o == received[e] \o r.data
<1>3. /\ Live(e) /\ ConnOK(r.tcb) /\ Taken(e, s, r, clock[e]) /\ UNCHANGED << scenario, written, clock >>
      /\ conn' = [conn EXCEPT ![e] = r.tcb] /\ received' = [received EXCEPT ![e] = o]
      /\ Sends(e, r.out, Left(e, i, dup))
  BY <1>2 DEF TakeStep
<1>4. ConnOK(r.tcb) /\ Moves(c, r.tcb)
  BY <1>2 DEF TakeStep
<1>5. /\ Iss[e] \in SeqNum /\ written[e] \in Nat /\ written[e] + 3 < Half /\ received[e] \in Seq(Nat)
      /\ Sending(Iss[e], written[e], c) /\ ConnOK(c) /\ IsFiniteSet(c.retx)
      /\ \A p \in Pkts(c.retx) : p \in Segment
      /\ RcvPos(Iss[f], c) \in Nat /\ (Knows(c) => RcvPos(Iss[f], c) >= 1)
      /\ clock[e] \in SeqNum /\ Len(received[e]) \in Nat
  BY <1>3, SideFacts DEF Sending
<1>6. /\ Iss[f] \in SeqNum /\ written[f] \in Nat /\ written[f] + 3 < Half /\ Len(received[f]) \in Nat
  BY <1>1, SideFacts
<1>7. /\ s \in Segment /\ s \in InNet(net[e]) /\ "RST" \notin s.flags /\ d # NoConn
      /\ Genuine(Iss[f], Wire(written[f], d), NxtPos(Iss[f], d), s)
      /\ Acked(Iss[e], RcvPos(Iss[e], d), s)
      /\ Direction(Iss[f], Iss[e], written[f], d, c, InNet(net[e]), received[e])
      /\ Direction(Iss[e], Iss[f], written[e], c, d, InNet(net[f]), received[f])
  BY ArrivesGenuine
<1>8. c # NoConn /\ clock' \in [Endpoint -> 0 .. Half - 1]
  BY <1>3 DEF Live, PairInv, PairTypes
<1>9. \/ c.state = "SynSent" /\ (Idles(c, r) \/ Completes(c, s, r, clock[e]))
      \/ c.state # "SynSent" /\ Ingests(c, s, r, clock[e])
  BY <1>3 DEF Taken
<1> HIDE DEF c, d, s, f
<1>10. CASE c.state = "SynSent" /\ Idles(c, r)
  <2>1. /\ SameRest(c, r.tcb) /\ SameSender(c, r.tcb) /\ r.tcb.state = c.state /\ r.tcb.retx = c.retx
        /\ r.data = << >> /\ r.out = {}
    BY <1>10 DEF Idles
  <2>2. o = received[e]
    BY <1>5, <2>1, ConcatEmptySeq
  <2>3. r.tcb # NoConn /\ (Knows(c) <=> Knows(r.tcb))
    BY <1>4, <1>8, <2>1, ConnIsNot DEF Knows
  <2>4. ASSUME NEW Q, Q \subseteq InNet(net[f]) \cup r.out
        PROVE  Direction(Iss[e], Iss[f], written[e], r.tcb, d, Q, received[f])
    <3>1. Q \subseteq InNet(net[f])
      BY <2>1, <2>4
    <3> QED BY <1>5, <1>6, <1>7, <1>4, <1>8, <2>1, <3>1, SenderIdles DEF SameRest, SameSender, SameReceiver
  <2>5. Direction(Iss[f], Iss[e], written[f], d, r.tcb, InNet(net[e]), o)
    BY <1>7, <1>4, <1>8, <2>1, <2>2, <2>3, ReceiverIdles DEF SameRest
  <2>6. IsFiniteSet(r.out) /\ r.out \subseteq Segment
    BY <2>1, FS_EmptySet
  <2> HIDE DEF o
  <2> QED BY <1>3, <1>5, <1>8, <2>2, <2>4, <2>5, <2>6, TakesStep DEF f, d
<1>11. CASE c.state = "SynSent" /\ Completes(c, s, r, clock[e])
  <2>1. /\ "SYN" \in s.flags /\ r.tcb.state = "Established" /\ r.tcb.rcv_nxt = wrapping_add(s.seq, 1)
        /\ r.tcb.reasm = NewReassembler(r.tcb.rcv_nxt)
        /\ r.tcb.peer_fin = c.peer_fin /\ r.tcb.pending_fin = c.pending_fin
        /\ r.data = << >> /\ \E p : r.out = {p} /\ IsAck(r.tcb, clock[e], p)
    BY <1>11 DEF Completes
  <2>2. o = received[e]
    BY <1>5, <2>1, ConcatEmptySeq
  <2>3. ~Knows(c) /\ ~r.tcb.peer_fin /\ r.tcb.pending_fin = NoFin
    BY <1>7, <1>8, <1>11, <2>1 DEF Knows, Direction
  <2>4. /\ Direction(Iss[f], Iss[e], written[f], d, r.tcb, InNet(net[e]), o)
        /\ RcvPos(Iss[f], r.tcb) = 1
    <3>1. Begun(r.tcb, s)
      BY <1>3, <2>1, <2>3 DEF Begun
    <3>2. "SYN" \in s.flags /\ s \in InNet(net[e]) /\ ~Knows(c)
      BY <1>7, <2>1, <2>3
    <3>3. Direction(Iss[f], Iss[e], written[f], d, r.tcb, InNet(net[e]), received[e])
      BY <1>5, <1>6, <1>7, <3>1, <3>2, BeginsDirection
    <3>4. AtStart(Iss[f], r.tcb)
      BY <1>5, <1>6, <1>7, <3>1, <3>2, BeginsDirection
    <3> QED BY <2>2, <3>3, <3>4 DEF AtStart
  <2>5. \A Q : Q \subseteq InNet(net[f]) \cup r.out => Direction(Iss[e], Iss[f], written[e], r.tcb, d, Q, received[f])
    BY <1>5, <1>6, <1>7, <1>4, <1>8, <1>11, <2>4, CompletesDirection
  <2>6. IsFiniteSet(r.out) /\ r.out \subseteq Segment
    <3>1. PICK p : r.out = {p} /\ IsAck(r.tcb, clock[e], p)
      BY <2>1
    <3>2. IsFiniteSet({p}) /\ p \in Segment
      BY <3>1, FS_Singleton DEF IsAck
    <3> QED BY <3>1, <3>2
  <2> HIDE DEF o
  <2> QED BY <1>3, <1>5, <1>8, <2>2, <2>4, <2>5, <2>6, TakesStep DEF f, d
<1>12. CASE c.state # "SynSent" /\ Ingests(c, s, r, clock[e])
  <2>1. Ingests(c, s, r, clock[e]) /\ Knows(c)
    BY <1>8, <1>12 DEF Knows
  <2>2. /\ Receives(c, s, r.tcb, r.data) /\ Replies(c, r.tcb, r.out, clock[e]) /\ r.tcb.state # "SynSent"
    BY <2>1 DEF Ingests, MovesBy
  <2>3. Knows(r.tcb)
    BY <1>3, <2>2, ConnIsNot DEF Knows
  <2> DEFINE S == Wire(written[f], d)
             N == NxtPos(Iss[f], d)
  <2>4. S \in Nat /\ N \in Nat /\ S + 3 < Half
    <3>1. Sending(Iss[f], written[f], d)
      BY <1>7 DEF Direction
    <3>2. S \in Nat /\ N \in Nat /\ S = written[f] - Len(d.send_buf) /\ Len(d.send_buf) \in Nat
      BY <1>6, <1>7, <3>1, SendingNumbers DEF Wire, NxtPos
    <3> HIDE DEF S, N
    <3> QED BY <1>6, <3>2, CircleIs
  <2>5. Receiving(Iss[f], S, N, c, received[e])
    BY <1>7, <2>1 DEF Direction
  <2>6. Genuine(Iss[f], S, N, s)
    BY <1>7
  <2> HIDE DEF S, N
  <2>7. /\ Receiving(Iss[f], S, N, r.tcb, o) /\ o \in Seq(Nat)
        /\ wrapping_sub(c.rcv_nxt, Iss[f]) <= wrapping_sub(r.tcb.rcv_nxt, Iss[f])
    BY <1>5, <1>6, <2>2, <2>4, <2>5, <2>6, ReceivesReceiving
  <2> HIDE DEF o
  <2>8. RcvPos(Iss[f], r.tcb) \in Nat /\ RcvPos(Iss[f], c) <= RcvPos(Iss[f], r.tcb)
    <3>1. wrapping_sub(r.tcb.rcv_nxt, Iss[f]) \in Nat
      BY <1>4, <1>6, PosNat DEF ConnOK, Connection
    <3> QED BY <2>1, <2>3, <2>7, <3>1 DEF RcvPos
  <2>9. Direction(Iss[f], Iss[e], written[f], d, r.tcb, InNet(net[e]), o)
    <3>1. Len(o) \in Nat
      BY <2>7, LenProperties
    <3> QED BY <1>5, <1>6, <1>4, <1>7, <2>3, <2>7, <2>8, <3>1, ReceiverStep DEF S, N
  <2>10. RcvPos(Iss[f], c) >= 1
    BY <1>5, <2>1
  <2>11. \A Q : Q \subseteq InNet(net[f]) \cup r.out => Direction(Iss[e], Iss[f], written[e], r.tcb, d, Q, received[f])
    BY <1>4, <1>5, <1>6, <1>7, <2>1, <2>8, <2>10, IngestsDirection
  <2>12. IsFiniteSet(r.out) /\ r.out \subseteq Segment
    BY <1>5, <2>2, RepliesFinite
  <2> QED BY <1>3, <1>8, <2>7, <2>9, <2>11, <2>12, TakesStep DEF f, d
<1> QED BY <1>9, <1>10, <1>11, <1>12

\* TcpListener::poll_accept.
LEMMA PollAcceptInv ==
    ASSUME ShortStreams, PairInv, NEW e \in Endpoint, NEW i \in DOMAIN net[e], NEW dup \in BOOLEAN, PollAccept(e, i, dup)
    PROVE  PairInv'
<1> DEFINE f == Peer(e)
           s == net[e][i]
           d == conn[f]
<1>1. f \in Endpoint /\ f # e /\ Peer(f) = e
  BY Two
<1>2. /\ ~Live(e) /\ conn[e] = NoConn /\ UNCHANGED << scenario, written, received >> /\ PairTypes
      /\ net \in [Endpoint -> Seq(Segment)] /\ clock \in [Endpoint -> 0 .. Half - 1]
  BY DEF PollAccept, Ready, Live, PairInv, PairTypes
<1>3. /\ s \in Segment /\ s \in InNet(net[e]) /\ "RST" \notin s.flags /\ d # NoConn
      /\ Direction(Iss[f], Iss[e], written[f], d, conn[e], InNet(net[e]), received[e])
      /\ Direction(Iss[e], Iss[f], written[e], conn[e], d, InNet(net[f]), received[f])
  BY ArrivesGenuine
<1>4. CASE "SYN" \notin s.flags
  <2>1. net' = Left(e, i, dup) /\ UNCHANGED << conn, clock >>
    BY <1>4 DEF PollAccept
  <2>2. net' \in [Endpoint -> Seq(Segment)] /\ net'[f] = net[f] /\ InNet(net'[e]) \subseteq InNet(net[e])
    BY <1>2, <2>1, LeftIs
  <2>3. PairTypes'
    BY <1>2, <2>1, <2>2 DEF PairTypes, MaxWritten
  <2>4. Way(e)'
    BY <1>2, <1>3, <2>1, <2>2 DEF Way
  <2>5. Way(f)'
    <3>1. Direction(Iss[f], Iss[e], written[f], conn[f], conn[e], InNet(net'[e]), received[e])
      BY <1>3, <2>2, ChannelShrinks
    <3> QED BY <1>1, <1>2, <2>1, <3>1 DEF Way
  <2> QED BY <2>3, <2>4, <2>5, Assemble
<1>5. CASE "SYN" \in s.flags
  <2> DEFINE r == accept(s, Iss[e], clock[e])
  <2>1. /\ conn' = [conn EXCEPT ![e] = r.tcb] /\ clock' = [clock EXCEPT ![e] = 0]
        /\ Sends(e, r.out, Left(e, i, dup))
    BY <1>5 DEF PollAccept
  <2>2. /\ Iss[e] \in SeqNum /\ written[e] = 0 /\ clock[e] \in SeqNum /\ received[e] \in Seq(Nat)
    BY <1>2, <1>3, SideFacts DEF Direction
  <2>3. /\ Iss[f] \in SeqNum /\ written[f] \in Nat /\ written[f] + 3 < Half
    BY <1>1, SideFacts
  <2>4. PICK p : /\ Opened(r.tcb, Iss[e], p) /\ r.out = {p} /\ r.tcb.state = "SynRcvd"
                 /\ p.flags = {"SYN", "ACK"} /\ p.ack = r.tcb.rcv_nxt
                 /\ r.tcb.rcv_nxt = wrapping_add(s.seq, 1) /\ r.tcb.reasm = NewReassembler(r.tcb.rcv_nxt)
    <3> HIDE DEF s
    <3>1. s \in Segment
      BY <1>3
    <3>2. Accepted(s, Iss[e], clock[e], r)
      BY <2>2, <3>1, AcceptOpens
    <3> QED BY <3>2 DEF Accepted
  <2> HIDE DEF r
  <2>5. /\ ConnOK(r.tcb) /\ ~r.tcb.peer_fin /\ r.tcb.pending_fin = NoFin /\ p \in Segment
    BY <2>4 DEF Opened
  <2>6. ~Knows(conn[e]) /\ r.tcb.state # "SynSent" /\ r.tcb.state \in Opening
    BY <1>2, <2>4 DEF Knows, Opening
  <2> HIDE DEF s, d, f
  <2>7. /\ Direction(Iss[f], Iss[e], written[f], d, r.tcb, InNet(net[e]), received[e])
        /\ Knows(r.tcb) /\ RcvPos(Iss[f], r.tcb) = 1
    <3>1. Begun(r.tcb, s)
      BY <2>4, <2>5, <2>6 DEF Begun
    <3>2. Direction(Iss[f], Iss[e], written[f], d, r.tcb, InNet(net[e]), received[e])
      BY <1>3, <1>5, <2>2, <2>3, <2>6, <3>1, BeginsDirection
    <3>3. AtStart(Iss[f], r.tcb)
      BY <1>3, <1>5, <2>2, <2>3, <2>6, <3>1, BeginsDirection
    <3> QED BY <3>2, <3>3 DEF AtStart
  <2>8. Acked(Iss[f], RcvPos(Iss[f], r.tcb), p)
    BY <2>4, <2>7 DEF Acked, RcvPos
  <2>9. /\ InNet(net[f]) = {} /\ ~Knows(d) /\ received[f] = << >> /\ ~d.peer_fin /\ d.pending_fin = NoFin
    BY <1>2, <1>3 DEF Direction
  <2>10. ASSUME NEW Q, Q \subseteq InNet(net[f]) \cup r.out
         PROVE  Direction(Iss[e], Iss[f], written[e], r.tcb, d, Q, received[f])
    <3>1. Q \subseteq {p}
      BY <2>4, <2>9, <2>10
    <3>2. "SYN" \in p.flags /\ "FIN" \notin p.flags /\ "RST" \notin p.flags
      BY <2>4
    <3> QED BY <2>2, <2>3, <2>4, <2>6, <2>8, <2>9, <3>1, <3>2, OpensDirection
  <2>11. IsFiniteSet(r.out) /\ r.out \subseteq Segment
    <3>1. IsFiniteSet({p})
      BY FS_Singleton
    <3> QED BY <2>4, <2>5, <3>1
  <2>12. received' = [received EXCEPT ![e] = received[e]] /\ clock' \in [Endpoint -> 0 .. Half - 1]
    <3>1. 0 \in 0 .. Half - 1
      BY CircleIs
    <3> QED BY <1>2, <2>1, <3>1 DEF PairTypes
  <2> QED BY <1>2, <2>1, <2>2, <2>5, <2>7, <2>10, <2>11, <2>12, TakesStep DEF f, d
<1> QED BY <1>4, <1>5

\* The invariant holds initially.
LEMMA PairInit == ASSUME Init PROVE PairInv
<1> DEFINE cl == "client"
           sv == "server"
           r == connect(Iss[cl], 0)
<1>1. cl \in Endpoint /\ sv \in Endpoint /\ Peer(cl) = sv /\ Peer(sv) = cl /\ Endpoint = {cl, sv} /\ cl # sv
  BY DEF Endpoint, Peer
<1>2. Iss[cl] \in SeqNum /\ Iss[sv] \in SeqNum /\ 0 \in SeqNum
  BY <1>1, PairAssumption, CircleIs
<1>3. PICK p : /\ Opened(r.tcb, Iss[cl], p) /\ r.out = {p} /\ r.tcb.state = "SynSent" /\ p.flags = {"SYN"}
  <2>1. Connecting(Iss[cl], 0, r)
    BY <1>2, ConnectOpens
  <2> QED BY <2>1 DEF Connecting
<1>4. (CHOOSE x \in r.out : TRUE) = p
  BY <1>3
<1>5. /\ conn[cl] = r.tcb /\ conn[sv] = NoConn /\ net[sv] = << p >> /\ net[cl] = << >>
      /\ received[cl] = << >> /\ received[sv] = << >> /\ written[cl] = 0 /\ written[sv] = 0
  BY <1>1, <1>4 DEF Init
<1> HIDE DEF r
<1>6. ConnOK(r.tcb) /\ p \in Segment /\ ~r.tcb.peer_fin /\ r.tcb.pending_fin = NoFin
  BY <1>3 DEF Opened
<1>7. PairTypes
  <2>1. scenario \in Scenario
    BY DEF Init
  <2>2. conn \in [Endpoint -> Connection \cup {NoConn}]
    <3>1. conn = [e \in Endpoint |-> IF e = cl THEN r.tcb ELSE NoConn]
      BY DEF Init, r, Endpoint
    <3> QED BY <1>6, <3>1 DEF ConnOK
  <2>3. net \in [Endpoint -> Seq(Segment)]
    <3>1. << p >> \in Seq(Segment)
      BY <1>6
    <3>3. << >> \in Seq(Segment)
      BY EmptySeq
    <3>2. net = [e \in Endpoint |-> net[e]]
      BY DEF Init
    <3>4. \A e \in Endpoint : net[e] \in Seq(Segment)
      BY <1>1, <1>5, <3>1, <3>3
    <3> QED BY <3>2, <3>4
  <2>4. received \in [Endpoint -> Seq(Nat)]
    BY EmptySeq DEF Init
  <2>5. written \in [Endpoint -> Nat] /\ \A e \in Endpoint : written[e] = 0
    BY DEF Init
  <2>6. \A e \in Endpoint : written[e] <= MaxWritten[e]
    BY <2>1, <2>5, ScenarioIs DEF MaxWritten
  <2>7. clock \in [Endpoint -> 0 .. Half - 1]
    <3>1. Listened \in 0 .. Half - 1
      <4>1. /\ Listened \in 0 .. Scenarios[scenario].clock[sv]
            /\ Scenarios[scenario].clock \in [Endpoint -> 0 .. Half - 1]
        BY <2>1, ScenarioIs DEF Listened
      <4>2. Scenarios[scenario].clock[sv] \in 0 .. Half - 1
        BY <1>1, <4>1
      <4> QED BY <4>1, <4>2, CircleIs
    <3>2. 0 \in 0 .. Half - 1
      BY CircleIs
    <3> QED BY <3>1, <3>2 DEF Init
  <2> QED BY <2>1, <2>2, <2>3, <2>4, <2>5, <2>6, <2>7 DEF PairTypes
<1>8. InNet(net[sv]) = {p} /\ InNet(net[cl]) = {}
  BY <1>5 DEF InNet
<1>9. Way(cl)
  <2>1. ~Knows(conn[sv]) /\ conn[sv] = NoConn
    BY <1>5 DEF Knows
  <2>2. "SYN" \in p.flags /\ "FIN" \notin p.flags /\ "RST" \notin p.flags /\ "ACK" \notin p.flags
    BY <1>3
  <2>3. r.tcb.state \in Opening
    BY <1>3 DEF Opening
  <2>4. Acked(Iss[sv], RcvPos(Iss[sv], r.tcb), p)
    BY <2>2 DEF Acked
  <2>5. Direction(Iss[cl], Iss[sv], 0, r.tcb, conn[sv], {p}, received[sv])
    BY <1>2, <1>3, <1>5, <2>1, <2>2, <2>3, <2>4, OpensDirection
  <2> QED BY <1>1, <1>5, <1>8, <2>5 DEF Way
<1>10. Way(sv)
  <2>1. ~Knows(conn[cl]) /\ conn[sv] = NoConn
    BY <1>3, <1>5 DEF Knows
  <2>2. Direction(Iss[sv], Iss[cl], 0, conn[sv], conn[cl], {}, << >>)
    BY <1>5, <1>6, <2>1 DEF Direction, Packets
  <2> QED BY <1>1, <1>5, <1>8, <2>2 DEF Way
<1> QED BY <1>1, <1>7, <1>9, <1>10 DEF PairInv

\* It is about the variables only.
LEMMA PairStutters == ASSUME PairInv, UNCHANGED vars PROVE PairInv'
<1>1. PairTypes'
  BY DEF PairInv, PairTypes, MaxWritten, vars
<1>2. \A e \in Endpoint : Way(e)'
  BY DEF PairInv, Way, vars
<1> QED BY <1>1, <1>2 DEF PairInv

\* The steps of the pair, one disjunct each.
LEMMA NextIs ==
    ASSUME Next
    PROVE  \E e \in Endpoint :
              \/ \E i \in DOMAIN net[e] : Lose(e, i)
              \/ \E i \in DOMAIN net[e], dup \in BOOLEAN : PollAccept(e, i, dup)
              \/ \E i \in DOMAIN net[e], dup \in BOOLEAN : Ingest(e, i, dup)
              \/ Live(e) /\ \E R \in SUBSET Holes(conn[e].retx) : PollBegin(e, R)
              \/ PollEnd(e) \/ Feed(e, ChunkSize) \/ Close(e)
BY DEF Next

\* Every step preserves it.
LEMMA PairNext == ASSUME ShortStreams, PairInv, [Next]_vars PROVE PairInv'
<1>1. CASE UNCHANGED vars
  BY <1>1, PairStutters
<1>2. CASE Next
  <2>1. PICK e \in Endpoint :
              \/ \E i \in DOMAIN net[e] : Lose(e, i)
              \/ \E i \in DOMAIN net[e], dup \in BOOLEAN : PollAccept(e, i, dup)
              \/ \E i \in DOMAIN net[e], dup \in BOOLEAN : Ingest(e, i, dup)
              \/ Live(e) /\ \E R \in SUBSET Holes(conn[e].retx) : PollBegin(e, R)
              \/ PollEnd(e) \/ Feed(e, ChunkSize) \/ Close(e)
    BY <1>2, NextIs
  <2>2. ChunkSize \in Nat
    BY ScenarioIs DEF ChunkSize, PairInv, PairTypes
  <2>3. CASE \E i \in DOMAIN net[e] : Lose(e, i)
    BY <2>3, LoseInv
  <2>4. CASE \E i \in DOMAIN net[e], dup \in BOOLEAN : PollAccept(e, i, dup)
    BY <2>4, PollAcceptInv
  <2>5. CASE \E i \in DOMAIN net[e], dup \in BOOLEAN : Ingest(e, i, dup)
    BY <2>5, IngestInv
  <2>6. CASE Live(e) /\ \E R \in SUBSET Holes(conn[e].retx) : PollBegin(e, R)
    BY <2>6, PollBeginIs, EmitsStep
  <2>7. CASE PollEnd(e)
    BY <2>7, PollEndIs, EmitsStep
  <2>8. CASE Feed(e, ChunkSize)
    BY <2>2, <2>8, FeedInv
  <2>9. CASE Close(e)
    BY <2>9, CloseIs, EmitsStep
  <2> QED BY <2>1, <2>3, <2>4, <2>5, <2>6, <2>7, <2>8, <2>9
<1> QED BY <1>1, <1>2

-----------------------------------------------------------------------------
(* What the invariant gives *)

\* TcpPair's names for these numbers.
LEMMA WireIs == \A e \in Endpoint : OnWire(e) = Wire(written[e], conn[e]) /\ (Synced(e) <=> Knows(conn[e]))
BY DEF OnWire, Wire, Live, Synced, Knows

\* The numbers of the stream that e sends.
LEMMA StreamFacts ==
    ASSUME ShortStreams, PairInv, NEW e \in Endpoint
    PROVE  /\ OnWire(e) \in Nat
           /\ Len(received[Peer(e)]) <= OnWire(e)
           /\ \A k \in 1 .. Len(received[Peer(e)]) : received[Peer(e)][k] = k
           /\ Live(Peer(e)) /\ conn[Peer(e)].peer_fin =>
                 /\ Live(e) /\ conn[e].state \in FinOut
                 /\ Len(received[Peer(e)]) = OnWire(e)
           /\ Live(e) /\ conn[e].state \in Done => Live(Peer(e)) /\ conn[Peer(e)].peer_fin
<1> DEFINE f == Peer(e)
           c == conn[e]
           d == conn[f]
           S == Wire(written[e], c)
           N == NxtPos(Iss[e], c)
           rcvd == received[f]
<1>1. f \in Endpoint
  BY Two
<1>2. Iss[e] \in SeqNum /\ Iss[f] \in SeqNum /\ written[e] \in Nat /\ Len(rcvd) \in Nat /\ rcvd \in Seq(Nat)
  BY <1>1, SideFacts
<1>3. Direction(Iss[e], Iss[f], written[e], c, d, InNet(net[f]), rcvd)
  BY SideFacts DEF Way
<1>4. OnWire(e) = S /\ (Live(e) <=> c # NoConn) /\ (Live(f) <=> d # NoConn)
  BY <1>1, WireIs DEF Live
<1> HIDE DEF c, d, f, rcvd
<1>5. c # NoConn => Sending(Iss[e], written[e], c)
  BY <1>3 DEF Direction
<1>6. S \in Nat /\ (c # NoConn => N \in Nat)
  <2>1. CASE c = NoConn
    BY <2>1 DEF Wire
  <2>2. CASE c # NoConn
    BY <1>2, <1>5, <2>2, SendingNumbers DEF Wire, NxtPos
  <2> QED BY <2>1, <2>2
<1>7. c # NoConn => /\ c.state \notin FinOut => N = S + 1
                    /\ c.state \in FinOut \ {"Closed"} => N = S + 2
  BY <1>5 DEF Sending, Wire, NxtPos
<1>8. Knows(d) => /\ c # NoConn /\ Receiving(Iss[e], S, N, d, rcvd) /\ ConnOK(d)
  BY <1>3 DEF Direction
<1>9. ~Knows(d) => rcvd = << >> /\ (d # NoConn => ~d.peer_fin)
  BY <1>3 DEF Direction
<1>10. c # NoConn /\ c.state \in Done => RcvPos(Iss[e], d) = N
  BY <1>3 DEF Direction
<1> HIDE DEF S, N
<1>11. Len(rcvd) <= S /\ \A k \in 1 .. Len(rcvd) : rcvd[k] = k
  <2>1. CASE Knows(d)
    BY <1>8, <2>1 DEF Receiving
  <2>2. CASE ~Knows(d)
    <3>1. Len(rcvd) = 0
      BY <1>9, <2>2, LenProperties, EmptySeq
    <3> QED BY <1>6, <3>1
  <2> QED BY <2>1, <2>2
<1>12. ASSUME d # NoConn, d.peer_fin PROVE c # NoConn /\ c.state \in FinOut /\ Len(rcvd) = S
  <2>1. Knows(d) /\ N = S + 2 /\ Len(rcvd) = S /\ c # NoConn
    BY <1>8, <1>9, <1>12 DEF Receiving
  <2> QED BY <1>6, <1>7, <2>1
<1>13. ASSUME c # NoConn, c.state \in Done PROVE d # NoConn /\ d.peer_fin
  <2>1. N = S + 2 /\ RcvPos(Iss[e], d) = N
    BY <1>7, <1>10, <1>13 DEF Done, FinOut
  <2>2. Knows(d)
    BY <1>6, <2>1 DEF RcvPos
  <2>3. wrapping_sub(d.rcv_nxt, Iss[e]) = S + 2
    BY <2>1, <2>2 DEF RcvPos
  <2>4. wrapping_sub(d.rcv_nxt, Iss[e]) = 1 + Len(rcvd) + (IF d.peer_fin THEN 1 ELSE 0)
    BY <1>8, <2>2 DEF Receiving
  <2>5. d.peer_fin
    BY <1>2, <1>6, <1>11, <2>3, <2>4
  <2> QED BY <2>2, <2>5 DEF Knows
<1> QED BY <1>4, <1>6, <1>11, <1>12, <1>13 DEF f, c, d, rcvd

(***************************************************************************)
(* What one application reads is an exact prefix of what the other wrote,  *)
(* for streams shorter than half the sequence space and any network.       *)
(***************************************************************************)
THEOREM StreamIntegrityHolds == ASSUME ShortStreams PROVE Spec => []StreamIntegrity
<1>1. ASSUME PairInv PROVE StreamIntegrity
  <2> SUFFICES ASSUME NEW e \in Endpoint
               PROVE  /\ Len(received[e]) <= OnWire(Peer(e))
                      /\ \A i \in DOMAIN received[e] : received[e][i] = i
    BY DEF StreamIntegrity
  <2>1. Peer(e) \in Endpoint /\ Peer(Peer(e)) = e
    BY Two
  <2>2. DOMAIN received[e] = 1 .. Len(received[e])
    BY <1>1, LenProperties DEF PairInv, PairTypes
  <2>3. Len(received[e]) <= OnWire(Peer(e)) /\ \A k \in 1 .. Len(received[e]) : received[e][k] = k
    BY <1>1, <2>1, StreamFacts
  <2> QED BY <2>2, <2>3
<1>2. Init => PairInv
  BY PairInit
<1>3. PairInv /\ [Next]_vars => PairInv'
  BY PairNext
<1> QED BY <1>1, <1>2, <1>3, PTL DEF Spec

(***************************************************************************)
(* SND.UNA of one side never passes RCV.NXT of the other, which never      *)
(* passes SND.NXT.                                                         *)
(***************************************************************************)
THEOREM SequenceAgreementHolds == ASSUME ShortStreams PROVE Spec => []SequenceAgreement
<1>1. ASSUME PairInv PROVE SequenceAgreement
  <2> SUFFICES ASSUME NEW e \in Endpoint, Synced(Peer(e))
               PROVE  /\ Pos(e, conn[e].una) <= Pos(e, conn[Peer(e)].rcv_nxt)
                      /\ Pos(e, conn[Peer(e)].rcv_nxt) <= Pos(e, conn[e].nxt)
    BY DEF SequenceAgreement
  <2> DEFINE f == Peer(e)
             c == conn[e]
             d == conn[f]
  <2>1. f \in Endpoint /\ Knows(d)
    BY Two, WireIs
  <2>2. Iss[e] \in SeqNum /\ Iss[f] \in SeqNum /\ written[e] \in Nat /\ Len(received[f]) \in Nat
    BY <1>1, <2>1, SideFacts
  <2>3. Direction(Iss[e], Iss[f], written[e], c, d, InNet(net[f]), received[f])
    BY <1>1, SideFacts DEF Way
  <2> HIDE DEF c, d, f
  <2>4. RcvPos(Iss[e], d) <= NxtPos(Iss[e], c)
    BY <2>1, <2>2, <2>3, KnowsPos
  <2>5. wrapping_sub(c.una, Iss[e]) <= RcvPos(Iss[e], d)
    BY <2>1, <2>3 DEF Direction
  <2> QED BY <2>1, <2>4, <2>5 DEF RcvPos, NxtPos, Pos, c, d, f
<1>2. Init => PairInv
  BY PairInit
<1>3. PairInv /\ [Next]_vars => PairInv'
  BY PairNext
<1> QED BY <1>1, <1>2, <1>3, PTL DEF Spec

\* A side whose FIN is out is half closed.
LEMMA FinOutIs == ASSUME NEW e \in Endpoint, conn[e].state \in FinOut PROVE HalfClosed(e)
BY DEF FinOut, FinPending, HalfClosed

\* What the invariant says of the end of the stream.
LEMMA PairEof == ASSUME ShortStreams, PairInv PROVE EofIsComplete
<1> SUFFICES ASSUME NEW e \in Endpoint, Live(e)
             PROVE  /\ conn[e].peer_fin => HalfClosed(Peer(e)) /\ Len(received[e]) = OnWire(Peer(e))
                    /\ conn[e].state \in {"FinWait2", "TimeWait"} => conn[Peer(e)].peer_fin
  BY DEF EofIsComplete
<1>1. Peer(e) \in Endpoint /\ Peer(Peer(e)) = e
  BY Two
<1>2. conn[e].peer_fin => conn[Peer(e)].state \in FinOut /\ Len(received[e]) = OnWire(Peer(e))
  BY <1>1, StreamFacts
<1>3. conn[e].state \in Done => conn[Peer(e)].peer_fin
  BY StreamFacts
<1> QED BY <1>1, <1>2, <1>3, FinOutIs DEF Done

(***************************************************************************)
(* The end of the stream is seen only when all of it has been received,    *)
(* and our FIN counts as acknowledged only once the peer has seen it.      *)
(***************************************************************************)
THEOREM EofIsCompleteHolds == ASSUME ShortStreams PROVE Spec => []EofIsComplete
<1>1. Init => PairInv
  BY PairInit
<1>2. PairInv /\ [Next]_vars => PairInv'
  BY PairNext
<1>3. PairInv => EofIsComplete
  BY PairEof
<1> QED BY <1>1, <1>2, <1>3, PTL DEF Spec

-----------------------------------------------------------------------------
(* The pair implements a byte stream each way *)

\* What ByteStream sees of e, besides how much e has sent and received.
Ended(e) == Live(e) /\ HalfClosed(e)

\* e has seen the end of the stream.
Eof(e) == Live(e) /\ conn[e].peer_fin

\* ByteStream sees no change at e.
Calm(e) ==
    /\ OnWire(e)' = OnWire(e) /\ Len(received'[e]) = Len(received[e])
    /\ (Ended(e)' <=> Ended(e)) /\ (Eof(e)' <=> Eof(e))

\* e sends, or ends its stream, or neither.
Outward(e) ==
    /\ OnWire(e) \in Nat /\ OnWire(e)' \in Nat /\ OnWire(e) <= OnWire(e)'
    /\ Ended(e) => Ended(e)'
    /\ OnWire(e) < OnWire(e)' => ~Ended(e)'
    /\ Len(received'[e]) = Len(received[e]) /\ (Eof(e)' <=> Eof(e))

\* e receives, perhaps to the end, or nothing.
Inward(e) ==
    /\ OnWire(e)' = OnWire(e) /\ (Ended(e)' <=> Ended(e))
    /\ Len(received[e]) \in Nat /\ Len(received'[e]) \in Nat /\ OnWire(Peer(e)) \in Nat
    /\ Len(received[e]) <= Len(received'[e]) /\ Len(received'[e]) <= OnWire(Peer(e))
    /\ Eof(e) => Eof(e)'
    /\ Eof(e)' => Ended(Peer(e)) /\ Len(received'[e]) = OnWire(Peer(e))

\* The two sides of ByteStream are the endpoints.
LEMMA OtherIs == ASSUME NEW e \in Endpoint PROVE BS!Other(e) = Peer(e)
<1>1. \E x \in Endpoint : x # e
  BY Two
<1>2. BS!Other(e) \in Endpoint /\ BS!Other(e) # e
  BY <1>1 DEF BS!Other
<1> QED BY <1>2, Two

\* No change at either side is no change.
LEMMA CalmStutters == ASSUME NEW e \in Endpoint, Calm(e), Calm(Peer(e)) PROVE UNCHANGED BS!vars
<1>1. \A x \in Endpoint : Calm(x)
  BY Two
<1>2. [x \in Endpoint |-> OnWire(x)]' = [x \in Endpoint |-> OnWire(x)]
  BY <1>1 DEF Calm
<1>3. [x \in Endpoint |-> Len(received[x])]' = [x \in Endpoint |-> Len(received[x])]
  BY <1>1 DEF Calm
<1>4. [x \in Endpoint |-> Live(x) /\ HalfClosed(x)]' = [x \in Endpoint |-> Live(x) /\ HalfClosed(x)]
  <2>1. \A x \in Endpoint : (Live(x) /\ HalfClosed(x))' <=> (Live(x) /\ HalfClosed(x))
    BY <1>1 DEF Calm, Ended
  <2> QED BY <2>1
<1>5. [x \in Endpoint |-> Live(x) /\ conn[x].peer_fin]' = [x \in Endpoint |-> Live(x) /\ conn[x].peer_fin]
  <2>1. \A x \in Endpoint : (Live(x) /\ conn[x].peer_fin)' <=> (Live(x) /\ conn[x].peer_fin)
    BY <1>1 DEF Calm, Eof
  <2> QED BY <2>1
<1> QED BY <1>2, <1>3, <1>4, <1>5 DEF BS!vars

\* A step outward sends or ends.
LEMMA OutwardSteps == ASSUME NEW e \in Endpoint, Outward(e), Calm(Peer(e)) PROVE [BS!Next]_(BS!vars)
<1> DEFINE f == Peer(e)
<1>1. f \in Endpoint /\ f # e /\ \A x \in Endpoint : x = e \/ x = f
  BY Two
<1> DEFINE S == [x \in Endpoint |-> OnWire(x)]
           R == [x \in Endpoint |-> Len(received[x])]
           U == [x \in Endpoint |-> Live(x) /\ HalfClosed(x)]
           V == [x \in Endpoint |-> Live(x) /\ conn[x].peer_fin]
<1>2. R' = R
  <2>1. \A x \in Endpoint : Len(received'[x]) = Len(received[x])
    BY <1>1 DEF Outward, Calm
  <2> QED BY <2>1
<1>3. V' = V
  <2>1. \A x \in Endpoint : (Live(x) /\ conn[x].peer_fin)' <=> (Live(x) /\ conn[x].peer_fin)
    BY <1>1 DEF Outward, Calm, Eof
  <2> QED BY <2>1
<1>4. CASE OnWire(e)' = OnWire(e) /\ (Ended(e)' <=> Ended(e))
  BY <1>4, CalmStutters DEF Outward, Calm
<1>5. CASE OnWire(e) < OnWire(e)'
  <2>1. ~Ended(e) /\ ~Ended(e)' /\ (Ended(f)' <=> Ended(f)) /\ OnWire(f)' = OnWire(f)
    BY <1>5 DEF Outward, Calm
  <2>2. U' = U
    <3>1. \A x \in Endpoint : (Live(x) /\ HalfClosed(x))' <=> (Live(x) /\ HalfClosed(x))
      BY <1>1, <2>1 DEF Ended
    <3> QED BY <3>1
  <2>3. ~U[e]
    BY <2>1 DEF Ended
  <2>4. S'[e] > S[e]
    <3>1. S'[e] = OnWire(e)' /\ S[e] = OnWire(e)
      OBVIOUS
    <3> HIDE DEF S
    <3> QED BY <1>5, <3>1 DEF Outward
  <2>5. S' = [S EXCEPT ![e] = S'[e]]
    <3>1. \A x \in Endpoint : x # e => OnWire(x)' = OnWire(x)
      BY <1>1, <2>1
    <3> QED BY <3>1
  <2>6. BS!Send(e)
    BY <1>2, <1>3, <2>2, <2>3, <2>4, <2>5 DEF BS!Send
  <2> QED BY <2>6 DEF BS!Next
<1>6. CASE OnWire(e)' = OnWire(e) /\ ~Ended(e) /\ Ended(e)'
  <2>1. (Ended(f)' <=> Ended(f)) /\ OnWire(f)' = OnWire(f)
    BY DEF Calm
  <2>2. S' = S
    <3>1. \A x \in Endpoint : OnWire(x)' = OnWire(x)
      BY <1>1, <1>6, <2>1
    <3> QED BY <3>1
  <2>3. ~U[e]
    BY <1>6 DEF Ended
  <2>4. U' = [U EXCEPT ![e] = TRUE]
    <3>1. (Live(e) /\ HalfClosed(e))'
      BY <1>6 DEF Ended
    <3>2. \A x \in Endpoint : x # e => ((Live(x) /\ HalfClosed(x))' <=> (Live(x) /\ HalfClosed(x)))
      BY <1>1, <2>1 DEF Ended
    <3> QED BY <3>1, <3>2
  <2>5. BS!End(e)
    BY <1>2, <1>3, <2>2, <2>3, <2>4 DEF BS!End
  <2> QED BY <2>5 DEF BS!Next
<1>7. OnWire(e)' = OnWire(e) \/ OnWire(e) < OnWire(e)'
  BY DEF Outward
<1>8. Ended(e) => Ended(e)'
  BY DEF Outward
<1> QED BY <1>4, <1>5, <1>6, <1>7, <1>8

\* A step inward receives.
LEMMA InwardSteps == ASSUME NEW e \in Endpoint, Inward(e), Calm(Peer(e)) PROVE [BS!Next]_(BS!vars)
<1> DEFINE f == Peer(e)
<1>1. f \in Endpoint /\ f # e /\ \A x \in Endpoint : x = e \/ x = f
  BY Two
<1> DEFINE S == [x \in Endpoint |-> OnWire(x)]
           R == [x \in Endpoint |-> Len(received[x])]
           U == [x \in Endpoint |-> Live(x) /\ HalfClosed(x)]
           V == [x \in Endpoint |-> Live(x) /\ conn[x].peer_fin]
<1>2. S' = S
  <2>1. \A x \in Endpoint : OnWire(x)' = OnWire(x)
    BY <1>1 DEF Inward, Calm
  <2> QED BY <2>1
<1>3. U' = U
  <2>1. \A x \in Endpoint : (Live(x) /\ HalfClosed(x))' <=> (Live(x) /\ HalfClosed(x))
    BY <1>1 DEF Inward, Calm, Ended
  <2> QED BY <2>1
<1>4. BS!Other(e) = f
  BY OtherIs
<1>5. /\ R[e] = Len(received[e]) /\ S[f] = OnWire(f) /\ R'[e] = Len(received'[e])
      /\ U[f] = (Live(f) /\ HalfClosed(f))
  BY <1>1
<1>6. \E n \in R[e] .. S[f] : R' = [R EXCEPT ![e] = n]
  <2>1. Len(received'[e]) \in R[e] .. S[f]
    <3> HIDE DEF R, S
    <3> QED BY <1>5 DEF Inward
  <2>2. R' = [R EXCEPT ![e] = Len(received'[e])]
    <3>1. \A x \in Endpoint : x # e => Len(received'[x]) = Len(received[x])
      BY <1>1 DEF Calm
    <3> QED BY <3>1
  <2> QED BY <2>1, <2>2
<1>7. Eof(f)' <=> Eof(f)
  BY DEF Calm
<1>8. V' = V \/ (U[f] /\ R'[e] = S[f] /\ V' = [V EXCEPT ![e] = TRUE])
  <2>1. CASE Eof(e)'
    <3>1. Ended(f) /\ Len(received'[e]) = OnWire(f)
      BY <2>1 DEF Inward
    <3>2. U[f] /\ R'[e] = S[f]
      BY <1>5, <3>1 DEF Ended
    <3>3. V' = [V EXCEPT ![e] = TRUE]
      <4>1. (Live(e) /\ conn[e].peer_fin)'
        BY <2>1 DEF Eof
      <4>2. \A x \in Endpoint : x # e => ((Live(x) /\ conn[x].peer_fin)' <=> (Live(x) /\ conn[x].peer_fin))
        BY <1>1, <1>7 DEF Eof
      <4> QED BY <4>1, <4>2
    <3> QED BY <3>2, <3>3
  <2>2. CASE ~Eof(e)'
    <3>1. ~Eof(e)
      BY <2>2 DEF Inward
    <3>2. \A x \in Endpoint : (Live(x) /\ conn[x].peer_fin)' <=> (Live(x) /\ conn[x].peer_fin)
      BY <1>1, <1>7, <2>2, <3>1 DEF Eof
    <3> QED BY <3>2
  <2> QED BY <2>1, <2>2
<1>9. BS!Receive(e)
  BY <1>2, <1>3, <1>4, <1>6, <1>8 DEF BS!Receive
<1> QED BY <1>9 DEF BS!Next

\* A side nothing happens to is calm.
LEMMA UntouchedCalm ==
    ASSUME NEW f \in Endpoint, conn'[f] = conn[f], received'[f] = received[f], written'[f] = written[f]
    PROVE  Calm(f)
BY DEF Calm, OnWire, Live, Ended, Eof, HalfClosed

\* The state says whether the stream has ended.
LEMMA EndedIs ==
    ASSUME NEW c, ConnOK(c)
    PROVE  c.state \in FinOut <=> c.state \notin {"SynSent", "SynRcvd", "Established", "CloseWait"}
<1>1. c.state \in State
  BY DEF ConnOK, Connection
<1> QED BY <1>1 DEF FinOut, FinPending, State

\* What ByteStream sees of a side whose connection is replaced.
LEMMA SideIs ==
    ASSUME NEW e \in Endpoint, NEW c, conn'[e] = c, ConnOK(c)
    PROVE  /\ OnWire(e)' = written'[e] - Len(c.send_buf)
           /\ Ended(e)' <=> c.state \in FinOut
           /\ Eof(e)' <=> c.peer_fin
<1>1. c # NoConn
  BY ConnIsNot
<1>2. Live(e)'
  BY <1>1 DEF Live
<1>3. c.state \in FinOut <=> c.state \notin {"SynSent", "SynRcvd", "Established", "CloseWait"}
  BY EndedIs
<1> QED BY <1>2, <1>3 DEF OnWire, Ended, Eof, HalfClosed

\* The same of a connection as it is.
LEMMA SideWas ==
    ASSUME NEW e \in Endpoint, Live(e), ConnOK(conn[e])
    PROVE  /\ OnWire(e) = written[e] - Len(conn[e].send_buf)
           /\ Ended(e) <=> conn[e].state \in FinOut
           /\ Eof(e) <=> conn[e].peer_fin
BY EndedIs DEF OnWire, Ended, Eof, HalfClosed

\* What a connection sends of its own accord is a step outward.
LEMMA OwnOutward ==
    ASSUME ShortStreams, PairInv, NEW e \in Endpoint, NEW r, NEW now, OwnStep(e, r, now)
    PROVE  Outward(e) /\ Calm(Peer(e))
<1> DEFINE f == Peer(e)
           c == conn[e]
           d == r.tcb
           w == written[e]
<1>1. f \in Endpoint /\ f # e
  BY Two
<1>2. /\ Live(e) /\ ConnOK(d) /\ now \in SeqNum
      /\ Emits(c, r, now) \/ EmitsFin(c, r, now)
      /\ conn' = [conn EXCEPT ![e] = d]
      /\ UNCHANGED << received, written >>
  BY DEF OwnStep
<1>3. conn'[e] = d /\ conn'[f] = conn[f]
  BY <1>2, ConnChanges DEF PairInv
<1>4. Calm(f)
  BY <1>1, <1>2, <1>3, UntouchedCalm
<1>5. Iss[e] \in SeqNum /\ w \in Nat /\ w + 3 < Half /\ Sending(Iss[e], w, c) /\ ConnOK(c)
  BY <1>2, SideFacts
<1>6. OnWire(e)' = w - Len(d.send_buf) /\ (Ended(e)' <=> d.state \in FinOut) /\ (Eof(e)' <=> d.peer_fin)
  BY <1>2, <1>3, SideIs
<1>7. OnWire(e) = w - Len(c.send_buf) /\ (Ended(e) <=> c.state \in FinOut) /\ (Eof(e) <=> c.peer_fin)
  BY <1>2, <1>5, SideWas
<1>8. Len(received'[e]) = Len(received[e])
  BY <1>2
<1>9. Len(c.send_buf) \in Nat /\ Len(c.send_buf) <= w
  BY <1>5, SendingNumbers
<1> HIDE DEF c, d, w
<1>10. SendOpen \cap FinOut = {} /\ "Closed" \in FinOut
  BY DEF SendOpen, FinOut, FinPending
<1>11. CASE Emits(c, r, now)
  <2>1. PICK n \in 0 .. Len(c.send_buf) : \E E : EmitsBy(c, r, n, E, now)
    BY <1>11 DEF Emits
  <2>2. PICK E : EmitsBy(c, r, n, E, now)
    BY <2>1
  <2>3. /\ d.peer_fin = c.peer_fin /\ (c.state \in SendOpen \/ n = 0)
        /\ d.state = c.state \/ (n = 0 /\ d.state = "Closed")
    BY <2>2 DEF EmitsBy, SameRest, SameReceiver, d
  <2>4. EmitsTo(Iss[e], w, c, d, n, E)
    BY <1>2, <1>5, <2>2, EmitsSending DEF d
  <2>5. w - Len(d.send_buf) = (w - Len(c.send_buf)) + n
    BY <2>4 DEF EmitsTo
  <2>6. n \in Nat
    BY <1>9
  <2> DEFINE S == w - Len(c.send_buf)
  <2>7. S \in Nat
    BY <1>5, <1>9
  <2> HIDE DEF S
  <2>8. OnWire(e) = S /\ OnWire(e)' = S + n
    BY <1>6, <1>7, <2>5 DEF S
  <2>9. OnWire(e) \in Nat /\ OnWire(e)' \in Nat /\ OnWire(e) <= OnWire(e)'
    BY <2>6, <2>7, <2>8
  <2>10. OnWire(e) < OnWire(e)' => ~Ended(e)'
    <3>1. OnWire(e) < OnWire(e)' => n # 0
      BY <2>6, <2>7, <2>8
    <3> QED BY <1>6, <1>10, <2>3, <3>1
  <2>11. Ended(e) => Ended(e)'
    BY <1>6, <1>7, <1>10, <2>3
  <2>12. Eof(e)' <=> Eof(e)
    BY <1>6, <1>7, <2>3
  <2> QED BY <1>4, <1>8, <2>9, <2>10, <2>11, <2>12 DEF Outward
<1>12. CASE EmitsFin(c, r, now)
  <2>1. d.peer_fin = c.peer_fin /\ d.send_buf = c.send_buf /\ c.state \in SendOpen
    BY <1>12 DEF EmitsFin, SameRest, SameReceiver, d
  <2> DEFINE S == w - Len(c.send_buf)
  <2>2. S \in Nat
    BY <1>5, <1>9
  <2> HIDE DEF S
  <2>3. OnWire(e) = S /\ OnWire(e)' = S
    BY <1>6, <1>7, <2>1 DEF S
  <2>4. OnWire(e) \in Nat /\ OnWire(e)' \in Nat /\ OnWire(e) <= OnWire(e)' /\ ~(OnWire(e) < OnWire(e)')
    BY <2>2, <2>3
  <2>5. ~Ended(e) /\ (Eof(e)' <=> Eof(e))
    BY <1>6, <1>7, <1>10, <2>1
  <2> QED BY <1>4, <1>8, <2>4, <2>5 DEF Outward
<1> QED BY <1>2, <1>4, <1>11, <1>12 DEF c

\* Losing a datagram and writing to the buffer show nothing.
LEMMA LoseCalm ==
    ASSUME NEW e \in Endpoint, NEW i, Lose(e, i)
    PROVE  Calm(e) /\ Calm(Peer(e))
<1>1. Peer(e) \in Endpoint
  BY Two
<1>2. UNCHANGED << conn, received, written >>
  BY DEF Lose
<1> QED BY <1>1, <1>2, UntouchedCalm

\* write moves no byte out of the buffer.
LEMMA FeedCalm ==
    ASSUME ShortStreams, PairInv, NEW e \in Endpoint, NEW n \in Nat, Feed(e, n)
    PROVE  Calm(e) /\ Calm(Peer(e))
<1> DEFINE f == Peer(e)
           b == [i \in 1 .. n |-> written[e] + i]
           c == conn[e]
           d == write(c, b)
<1>1. f \in Endpoint /\ f # e
  BY Two
<1>2. /\ conn' = [conn EXCEPT ![e] = d] /\ written' = [written EXCEPT ![e] = @ + n]
      /\ Live(e) /\ UNCHANGED received
  <2>1. e \in DOMAIN conn
    BY DEF PairInv, PairTypes
  <2> QED BY <2>1 DEF Feed
<1>3. /\ Iss[e] \in SeqNum /\ Sending(Iss[e], written[e], c) /\ ConnOK(c) /\ c.send_buf \in Seq(Byte)
      /\ Len(c.send_buf) \in Nat
  BY <1>2, SideFacts, SendingNumbers
<1>4. b \in Seq(Byte) /\ Len(b) = n
  <2>1. \A k \in 1 .. n : written[e] + k \in Byte
    BY SideFacts DEF Byte
  <2>2. b \in [1 .. n -> Byte]
    BY <2>1
  <2>3. b \in Seq(Byte)
    BY <2>2, SeqDef
  <2>4. DOMAIN b = 1 .. n /\ DOMAIN b = 1 .. Len(b) /\ Len(b) \in Nat
    BY <2>2, <2>3, LenProperties
  <2> QED BY <2>3, <2>4
<1> HIDE DEF b
<1>5. ConnOK(d)
  BY <1>3, <1>4, WriteType
<1>6. d.state = c.state /\ d.peer_fin = c.peer_fin /\ Len(d.send_buf) = Len(c.send_buf) + n
  <2>1. d.state = c.state /\ d.peer_fin = c.peer_fin /\ d.send_buf = c.send_buf \o b
    BY <1>3 DEF write, ConnOK, Connection
  <2> QED BY <1>3, <1>4, <2>1, ConcatProperties
<1>7. conn'[e] = d /\ conn'[f] = conn[f] /\ written'[e] = written[e] + n /\ written'[f] = written[f]
  <2>1. conn'[e] = d /\ conn'[f] = conn[f]
    BY <1>2, <1>5, ConnChanges DEF PairInv
  <2>2. e \in DOMAIN written /\ f \in DOMAIN written
    BY <1>1 DEF PairInv, PairTypes
  <2> QED BY <1>1, <1>2, <2>1, <2>2
<1>8. Calm(f)
  BY <1>1, <1>2, <1>7, UntouchedCalm
<1> HIDE DEF c, d
<1>9. /\ OnWire(e)' = (written[e] + n) - Len(d.send_buf)
      /\ (Ended(e)' <=> d.state \in FinOut) /\ (Eof(e)' <=> d.peer_fin)
  BY <1>5, <1>7, SideIs
<1>10. /\ OnWire(e) = written[e] - Len(c.send_buf)
       /\ (Ended(e) <=> c.state \in FinOut) /\ (Eof(e) <=> c.peer_fin)
  BY <1>2, <1>3, SideWas DEF c
<1>11. OnWire(e)' = OnWire(e)
  <2>1. written[e] \in Nat
    BY SideFacts
  <2> QED BY <1>3, <1>6, <1>9, <1>10, <2>1
<1>12. Calm(e)
  BY <1>2, <1>6, <1>9, <1>10, <1>11 DEF Calm
<1> QED BY <1>8, <1>12

\* Neither does the passive open.
LEMMA PollAcceptCalm ==
    ASSUME ShortStreams, PairInv, NEW e \in Endpoint, NEW i \in DOMAIN net[e], NEW dup \in BOOLEAN, PollAccept(e, i, dup)
    PROVE  Calm(e) /\ Calm(Peer(e))
<1> DEFINE f == Peer(e)
           s == net[e][i]
<1>1. f \in Endpoint /\ f # e
  BY Two
<1>2. /\ ~Live(e) /\ conn[e] = NoConn /\ UNCHANGED << written, received >> /\ PairTypes
  BY DEF PollAccept, Live, PairInv
<1>3. CASE "SYN" \notin s.flags
  <2>1. UNCHANGED conn
    BY <1>3 DEF PollAccept
  <2> QED BY <1>1, <1>2, <2>1, UntouchedCalm
<1>4. CASE "SYN" \in s.flags
  <2> DEFINE r == accept(s, Iss[e], clock[e])
             d == r.tcb
  <2>1. conn' = [conn EXCEPT ![e] = d]
    BY <1>4 DEF PollAccept
  <2>2. Iss[e] \in SeqNum /\ clock[e] \in SeqNum
    BY SideFacts
  <2>3. s \in Segment
    BY ArrivesGenuine
  <2>4. Direction(Iss[e], Iss[f], written[e], conn[e], conn[f], InNet(net[f]), received[f])
    BY SideFacts DEF Way
  <2>5. written[e] = 0
    BY <1>2, <2>4 DEF Direction
  <2> HIDE DEF s
  <2>6. Accepted(s, Iss[e], clock[e], r)
    BY <2>2, <2>3, AcceptOpens
  <2>7. PICK p : Opened(d, Iss[e], p) /\ d.state = "SynRcvd"
    BY <2>6 DEF Accepted
  <2> HIDE DEF r, d
  <2>8. ConnOK(d) /\ d.send_buf = << >> /\ ~d.peer_fin /\ d.state \notin FinOut
    BY <2>7 DEF Opened, FinOut, FinPending
  <2>9. conn'[e] = d /\ conn'[f] = conn[f]
    BY <1>2, <2>1, <2>8, ConnChanges
  <2>10. OnWire(e)' = written'[e] - Len(d.send_buf) /\ ~Ended(e)' /\ ~Eof(e)'
    BY <2>8, <2>9, SideIs
  <2>11. Len(d.send_buf) = 0
    BY <2>8, LenProperties, EmptySeq
  <2>12. OnWire(e)' = 0 /\ OnWire(e) = 0 /\ ~Ended(e) /\ ~Eof(e)
    BY <1>2, <2>5, <2>10, <2>11 DEF OnWire, Ended, Eof
  <2>13. Calm(e)
    BY <1>2, <2>10, <2>12 DEF Calm
  <2> QED BY <1>1, <1>2, <2>9, <2>13, UntouchedCalm
<1> QED BY <1>3, <1>4

\* What is delivered is appended.
LEMMA DeliversMore ==
    ASSUME ShortStreams, PairInv, NEW e \in Endpoint, NEW i \in DOMAIN net[e], Live(e),
           NEW r, Taken(e, net[e][i], r, clock[e])
    PROVE  /\ Len(received[e]) \in Nat /\ Len(received[e] \o r.data) \in Nat
           /\ Len(received[e]) <= Len(received[e] \o r.data)
           /\ conn[e].peer_fin => r.tcb.peer_fin
           /\ r.tcb.send_buf = conn[e].send_buf
           /\ r.tcb.state \in FinOut <=> conn[e].state \in FinOut
<1> DEFINE f == Peer(e)
           s == net[e][i]
           c == conn[e]
           d == conn[f]
           rcvd == received[e]
<1>1. f \in Endpoint /\ Peer(f) = e
  BY Two
<1>2. rcvd \in Seq(Nat) /\ Len(rcvd) \in Nat /\ Iss[e] \in SeqNum /\ ConnOK(c) /\ c # NoConn
  BY SideFacts DEF Live
<1>3. Iss[f] \in SeqNum /\ written[f] \in Nat /\ written[f] + 3 < Half
  BY <1>1, SideFacts
<1>4. /\ s \in Segment /\ d # NoConn /\ Genuine(Iss[f], Wire(written[f], d), NxtPos(Iss[f], d), s)
      /\ Direction(Iss[f], Iss[e], written[f], d, c, InNet(net[e]), rcvd)
  BY ArrivesGenuine
<1>5. CASE c.state = "SynSent" /\ (Idles(c, r) \/ Completes(c, s, r, clock[e]))
  <2>1. r.data = << >> /\ r.tcb.peer_fin = c.peer_fin /\ r.tcb.send_buf = c.send_buf
    BY <1>5 DEF Idles, Completes, SameRest, SameReceiver, SameSender
  <2>2. rcvd \o r.data = rcvd
    BY <1>2, <2>1, ConcatEmptySeq
  <2>3. r.tcb.state \notin FinOut /\ c.state \notin FinOut
    BY <1>5 DEF Idles, Completes, FinOut, FinPending
  <2> HIDE DEF c, rcvd
  <2> QED BY <1>2, <2>1, <2>2, <2>3 DEF c, rcvd
<1>6. CASE c.state # "SynSent" /\ Ingests(c, s, r, clock[e])
  <2>1. /\ Receives(c, s, r.tcb, r.data) /\ r.tcb.send_buf = c.send_buf
        /\ r.tcb.state \in FinOut <=> c.state \in FinOut
    BY <1>6 DEF Ingests, SameSender, MovesBy
  <2>2. CASE SameReceiver(c, r.tcb) /\ r.data = << >>
    <3>1. rcvd \o r.data = rcvd
      BY <1>2, <2>2, ConcatEmptySeq
    <3>2. r.tcb.peer_fin = c.peer_fin
      BY <2>2 DEF SameReceiver
    <3> HIDE DEF c, rcvd
    <3> QED BY <1>2, <2>1, <3>1, <3>2 DEF c, rcvd
  <2>3. CASE Takes(c, s, r.tcb, r.data)
    <3> DEFINE v == recv(c.reasm, s.seq, s.data, c.rcv_nxt)
               S == Wire(written[f], d)
               N == NxtPos(Iss[f], d)
    <3>1. r.data = v.out /\ (c.peer_fin => r.tcb.peer_fin)
      BY <2>3 DEF Takes
    <3>2. S \in Nat /\ N \in Nat /\ S + 3 < Half
      <4>1. Sending(Iss[f], written[f], d)
        BY <1>4 DEF Direction
      <4>2. S \in Nat /\ N \in Nat /\ S = written[f] - Len(d.send_buf) /\ Len(d.send_buf) \in Nat
        BY <1>3, <1>4, <4>1, SendingNumbers DEF Wire, NxtPos
      <4> HIDE DEF S, N
      <4> QED BY <1>3, <4>2, CircleIs, SMTT(40)
    <3>3. Receiving(Iss[f], S, N, c, rcvd)
      BY <1>2, <1>4, <1>6 DEF Direction, Knows
    <3>4. Genuine(Iss[f], S, N, s)
      BY <1>4
    <3> HIDE DEF S, N, c, rcvd, s, f
    <3>5. Len(v.out) \in Nat /\ Len(rcvd \o v.out) = Len(rcvd) + Len(v.out)
      BY <1>2, <1>3, <3>2, <3>3, <3>4, GenuineRecv
    <3> HIDE DEF v
    <3>6. Len(rcvd \o r.data) \in Nat /\ Len(rcvd) <= Len(rcvd \o r.data)
      BY <1>2, <3>1, <3>5
    <3> QED BY <1>2, <2>1, <3>1, <3>6 DEF c, rcvd
  <2> QED BY <2>1, <2>2, <2>3 DEF Receives
<1> QED BY <1>5, <1>6 DEF Taken

\* A segment taken is a step inward.
LEMMA IngestInward ==
    ASSUME ShortStreams, PairInv, StreamIntegrity', EofIsComplete', NEW e \in Endpoint, NEW i \in DOMAIN net[e], NEW dup \in BOOLEAN, Ingest(e, i, dup)
    PROVE  Inward(e) /\ Calm(Peer(e))
<1> DEFINE f == Peer(e)
<1>1. f \in Endpoint /\ f # e /\ Peer(f) = e
  BY Two
<1>0. PICK r : TakeStep(e, i, dup, r)
  BY IngestIs
<1>2. /\ Live(e) /\ ConnOK(r.tcb) /\ Taken(e, net[e][i], r, clock[e])
      /\ conn' = [conn EXCEPT ![e] = r.tcb]
      /\ received' = [received EXCEPT ![e] = received[e] \o r.data]
      /\ UNCHANGED << scenario, written, clock >>
  BY <1>0 DEF TakeStep
<1>3. PairTypes /\ conn'[e] = r.tcb /\ conn'[f] = conn[f]
  BY <1>2, ConnChanges DEF PairInv
<1>4. received'[e] = received[e] \o r.data /\ received'[f] = received[f]
  BY <1>1, <1>2, <1>3 DEF PairTypes
<1>5. Calm(f)
  BY <1>1, <1>2, <1>3, <1>4, UntouchedCalm
<1>6. /\ Len(received[e]) \in Nat /\ Len(received'[e]) \in Nat
      /\ Len(received[e]) <= Len(received'[e])
      /\ conn[e].peer_fin => r.tcb.peer_fin
      /\ r.tcb.send_buf = conn[e].send_buf
      /\ r.tcb.state \in FinOut <=> conn[e].state \in FinOut
  BY <1>2, <1>4, DeliversMore
<1>7. ConnOK(conn[e])
  BY <1>2, SideFacts
<1>8. /\ OnWire(e)' = written'[e] - Len(r.tcb.send_buf)
      /\ (Ended(e)' <=> r.tcb.state \in FinOut) /\ (Eof(e)' <=> r.tcb.peer_fin)
  BY <1>2, <1>3, SideIs
<1>9. /\ OnWire(e) = written[e] - Len(conn[e].send_buf)
      /\ (Ended(e) <=> conn[e].state \in FinOut) /\ (Eof(e) <=> conn[e].peer_fin)
  BY <1>2, <1>7, SideWas
<1>10. OnWire(e)' = OnWire(e) /\ (Ended(e)' <=> Ended(e)) /\ (Eof(e) => Eof(e)')
  BY <1>2, <1>6, <1>8, <1>9
<1>11. OnWire(f) \in Nat /\ OnWire(f)' = OnWire(f) /\ (Ended(f)' <=> Ended(f))
  BY <1>1, <1>5, StreamFacts DEF Calm
<1>12. Len(received'[e]) <= OnWire(f)' /\ (Eof(e)' => Ended(f)' /\ Len(received'[e]) = OnWire(f)')
  <2>1. Len(received[e])' <= OnWire(f)'
    BY DEF StreamIntegrity
  <2>2. Eof(e)' => HalfClosed(f)' /\ Len(received[e])' = OnWire(f)'
    BY DEF EofIsComplete, Eof
  <2>3. Eof(e)' => Live(f)'
    <3>1. Live(f)
      BY ArrivesGenuine DEF Live
    <3> QED BY <1>3, <3>1 DEF Live
  <2> QED BY <2>1, <2>2, <2>3 DEF Ended
<1>13. Inward(e)
  BY <1>6, <1>10, <1>11, <1>12 DEF Inward
<1> QED BY <1>5, <1>13

\* Each step of the pair is one of ByteStream, or none.
LEMMA NextStreams ==
    ASSUME ShortStreams, PairInv, StreamIntegrity', EofIsComplete', [Next]_vars
    PROVE  [BS!Next]_(BS!vars)
<1>1. CASE UNCHANGED vars
  <2>1. \A e \in Endpoint : Calm(e)
    BY <1>1, UntouchedCalm DEF vars
  <2>2. "client" \in Endpoint
    BY DEF Endpoint
  <2> QED BY <2>1, <2>2, Two, CalmStutters
<1>2. CASE Next
  <2>1. PICK e \in Endpoint :
              \/ \E i \in DOMAIN net[e] : Lose(e, i)
              \/ \E i \in DOMAIN net[e], dup \in BOOLEAN : PollAccept(e, i, dup)
              \/ \E i \in DOMAIN net[e], dup \in BOOLEAN : Ingest(e, i, dup)
              \/ Live(e) /\ \E R \in SUBSET Holes(conn[e].retx) : PollBegin(e, R)
              \/ PollEnd(e) \/ Feed(e, ChunkSize) \/ Close(e)
    BY <1>2, NextIs
  <2>2. ChunkSize \in Nat
    BY ScenarioIs DEF ChunkSize, PairInv, PairTypes
  <2>3. CASE \E i \in DOMAIN net[e] : Lose(e, i)
    BY <2>3, LoseCalm, CalmStutters
  <2>4. CASE \E i \in DOMAIN net[e], dup \in BOOLEAN : PollAccept(e, i, dup)
    BY <2>4, PollAcceptCalm, CalmStutters
  <2>5. CASE \E i \in DOMAIN net[e], dup \in BOOLEAN : Ingest(e, i, dup)
    BY <2>5, IngestInward, InwardSteps
  <2>6. CASE Live(e) /\ \E R \in SUBSET Holes(conn[e].retx) : PollBegin(e, R)
    BY <2>6, PollBeginIs, OwnOutward, OutwardSteps
  <2>7. CASE PollEnd(e)
    BY <2>7, PollEndIs, OwnOutward, OutwardSteps
  <2>8. CASE Feed(e, ChunkSize)
    BY <2>2, <2>8, FeedCalm, CalmStutters
  <2>9. CASE Close(e)
    BY <2>9, CloseIs, OwnOutward, OutwardSteps
  <2> QED BY <2>1, <2>3, <2>4, <2>5, <2>6, <2>7, <2>8, <2>9
<1> QED BY <1>1, <1>2

\* The initial states.
LEMMA InitStreams == ASSUME ShortStreams, Init PROVE BS!Init
<1>1. PairInv
  BY PairInit
<1>2. /\ \A e \in Endpoint : received[e] = << >> /\ written[e] = 0
      /\ conn["server"] = NoConn /\ conn["client"] = connect(Iss["client"], 0).tcb
  BY DEF Init, Endpoint
<1>3. \A e \in Endpoint : Len(received[e]) = 0
  BY <1>2, LenProperties, EmptySeq
<1>4. /\ OnWire("server") = 0 /\ ~Live("server")
  BY <1>2 DEF OnWire, Live
<1>5. OnWire("client") = 0 /\ ~Ended("client") /\ ~Eof("client")
  <2> DEFINE r == connect(Iss["client"], 0)
             c == r.tcb
  <2>1. Iss["client"] \in SeqNum /\ "client" \in Endpoint
    BY PairAssumption DEF Endpoint
  <2>2. Connecting(Iss["client"], 0, r)
    <3>1. 0 \in SeqNum
      BY CircleIs
    <3> QED BY <2>1, <3>1, ConnectOpens
  <2>3. PICK p : Opened(c, Iss["client"], p) /\ c.state = "SynSent"
    BY <2>2 DEF Connecting
  <2>4. conn["client"] = c
    BY <1>2
  <2> HIDE DEF r, c
  <2>5. ConnOK(c) /\ c.send_buf = << >> /\ ~c.peer_fin /\ c.state \notin FinOut
    BY <2>3 DEF Opened, FinOut, FinPending
  <2>6. Live("client")
    BY <2>4, <2>5, ConnIsNot DEF Live
  <2>7. Len(c.send_buf) = 0
    BY <2>5, LenProperties, EmptySeq
  <2> QED BY <1>2, <2>1, <2>4, <2>5, <2>6, <2>7, SideWas
<1>6. [e \in Endpoint |-> OnWire(e)] = [e \in Endpoint |-> 0]
  BY <1>4, <1>5 DEF Endpoint
<1>7. [e \in Endpoint |-> Len(received[e])] = [e \in Endpoint |-> 0]
  BY <1>3
<1>8. [e \in Endpoint |-> Live(e) /\ HalfClosed(e)] = [e \in Endpoint |-> FALSE]
  <2>1. \A e \in Endpoint : ~(Live(e) /\ HalfClosed(e))
    BY <1>4, <1>5 DEF Endpoint, Ended
  <2> QED BY <2>1
<1>9. [e \in Endpoint |-> Live(e) /\ conn[e].peer_fin] = [e \in Endpoint |-> FALSE]
  <2>1. \A e \in Endpoint : ~(Live(e) /\ conn[e].peer_fin)
    BY <1>4, <1>5 DEF Endpoint, Eof
  <2> QED BY <2>1
<1> QED BY <1>6, <1>7, <1>8, <1>9 DEF BS!Init

(***************************************************************************)
(* The two connections and the network between them implement a reliable  *)
(* byte stream each way: the initial states map to initial states of       *)
(* ByteStream and every step of the pair to a Send, an End, a Receive or   *)
(* to no change.                                                           *)
(***************************************************************************)
THEOREM ImplementsByteStreamHolds == ASSUME ShortStreams PROVE Spec => ImplementsByteStream
<1>1. Init => BS!Init
  BY InitStreams
<1>2. PairInv /\ StreamIntegrity' /\ EofIsComplete' /\ [Next]_vars => [BS!Next]_(BS!vars)
  BY NextStreams
<1>3. Init => PairInv
  BY PairInit
<1>4. PairInv /\ [Next]_vars => PairInv'
  BY PairNext
<1>5. Spec => []StreamIntegrity
  BY StreamIntegrityHolds
<1>6. Spec => []EofIsComplete
  BY EofIsCompleteHolds
<1> QED BY <1>1, <1>2, <1>3, <1>4, <1>5, <1>6, PTL DEF Spec, ImplementsByteStream, BS!Spec

-----------------------------------------------------------------------------
(* Nothing is forgotten.  What the sender takes for held by the receiver   *)
(* is held: an entry with a SACK mark, a SACK block on its way.  Beyond    *)
(* that, the fragments and the packets never overlap in part, so that      *)
(* replacing a fragment loses nothing.                                     *)

\* d holds the number at position x, delivered or ahead of a gap.
Got(i, d, x) == Knows(d) /\ (x < RcvPos(i, d) \/ x - 1 \in Offsets(d.reasm.frags))

\* The receiver has all positions from a up to b.
GotAll(i, d, a, b) == \A x \in Nat : a <= x /\ x < b => Got(i, d, x)

\* The entry s lies in the stream, and is held if it is marked.
Entry(i, N, d, s) ==
    LET a == wrapping_sub(s.start, i)
        b == wrapping_sub(s.end, i)
    IN  a < b /\ b <= N /\ (s.sacked => GotAll(i, d, a, b))

\* What the SACK block b says is true.
Block(i, N, d, b) ==
    LET l == wrapping_sub(b.left, i)
        r == wrapping_sub(b.right, i)
    IN  Knows(d) /\ l <= N /\ r <= N /\ GotAll(i, d, l, r)

\* Two packets that start at the same byte are of the same length.
Alike(P) == \A p, q \in P : p.data # << >> /\ q.data # << >> /\ p.seq = q.seq => Len(p.data) = Len(q.data)

\* So are a packet and a fragment; and no fragment is due.
Fits(P, d) ==
    \A f \in d.reasm.frags :
        /\ f.off # wrapping_sub(d.rcv_nxt, d.reasm.base)
        /\ \A p \in P : p.data # << >> /\ f.off = wrapping_sub(p.seq, d.reasm.base) => Len(f.data) = Len(p.data)

(***************************************************************************)
(* The second invariant of a direction; B are the datagrams on their way   *)
(* back, from d to c.                                                      *)
(***************************************************************************)
Reliable(i, c, d, Q, B) ==
    /\ c # NoConn => Queued(c) /\ \A s \in c.retx : Entry(i, NxtPos(i, c), d, s)
    /\ \A p \in B \cup Packets(d) : \A b \in p.sack : Block(i, NxtPos(i, c), d, b)
    /\ Alike(Q \cup Packets(c))
    /\ Knows(d) => Fits(Q \cup Packets(c), d)

\* The receiver loses nothing.
Keeps(i, d, d2) == (Knows(d) => Knows(d2)) /\ \A x \in Nat : Got(i, d, x) => Got(i, d2, x)

\* What is held stays held.
LEMMA GotAllKeeps ==
    ASSUME NEW i, NEW d, NEW d2, Keeps(i, d, d2), NEW a, NEW b, GotAll(i, d, a, b)
    PROVE  GotAll(i, d2, a, b)
BY DEF Keeps, GotAll

\* An entry stays true when the stream grows and the receiver goes on.
LEMMA EntryKeeps ==
    ASSUME NEW i \in SeqNum, NEW N \in Nat, NEW N2 \in Nat, N <= N2, NEW d, NEW d2, Keeps(i, d, d2),
           NEW s \in Unacked, Entry(i, N, d, s)
    PROVE  Entry(i, N2, d2, s)
<1> DEFINE a == wrapping_sub(s.start, i)
           b == wrapping_sub(s.end, i)
<1>1. s.start \in SeqNum /\ s.end \in SeqNum
  BY DEF Unacked
<1>2. a \in Nat /\ b \in Nat
  BY <1>1, PosNat
<1>3. a < b /\ b <= N /\ (s.sacked => GotAll(i, d, a, b))
  BY DEF Entry
<1>4. s.sacked => GotAll(i, d2, a, b)
  BY <1>3, GotAllKeeps
<1>5. b <= N2
  <2> HIDE DEF a, b
  <2> QED BY <1>2, <1>3
<1> QED BY <1>3, <1>4, <1>5 DEF Entry

\* So does a SACK block.
LEMMA BlockKeeps ==
    ASSUME NEW i \in SeqNum, NEW N \in Nat, NEW N2 \in Nat, N <= N2, NEW d, NEW d2, Keeps(i, d, d2),
           NEW b \in SackBlock, Block(i, N, d, b)
    PROVE  Block(i, N2, d2, b)
<1> DEFINE l == wrapping_sub(b.left, i)
           r == wrapping_sub(b.right, i)
<1>1. b.left \in SeqNum /\ b.right \in SeqNum
  BY DEF SackBlock
<1>2. l \in Nat /\ r \in Nat
  BY <1>1, PosNat
<1>3. Knows(d) /\ l <= N /\ r <= N /\ GotAll(i, d, l, r)
  BY DEF Block
<1>4. GotAll(i, d2, l, r) /\ Knows(d2)
  BY <1>3, GotAllKeeps DEF Keeps
<1>5. l <= N2 /\ r <= N2
  <2> HIDE DEF l, r
  <2> QED BY <1>2, <1>3
<1> QED BY <1>4, <1>5 DEF Block

\* An entry that true blocks cover is held.
LEMMA BlockedGot ==
    ASSUME NEW i \in SeqNum, NEW N \in Nat, N < Half, NEW d, NEW s \in Unacked, Entry(i, N, d, s),
           NEW B \in SUBSET SackBlock, \A b \in B : Block(i, N, d, b), Blocked(s, B)
    PROVE  GotAll(i, d, wrapping_sub(s.start, i), wrapping_sub(s.end, i))
<1>1. PICK b \in B : ~before(s.start, b.left) /\ ~before(b.right, s.end)
  BY DEF Blocked, after
<1> DEFINE l == wrapping_sub(b.left, i)
           r == wrapping_sub(b.right, i)
           x == wrapping_sub(s.start, i)
           y == wrapping_sub(s.end, i)
<1>2. b.left \in SeqNum /\ b.right \in SeqNum /\ s.start \in SeqNum /\ s.end \in SeqNum
  BY DEF SackBlock, Unacked
<1>3. l \in Nat /\ r \in Nat /\ x \in Nat /\ y \in Nat
  BY <1>2, PosNat
<1>4. l <= N /\ r <= N /\ x < y /\ y <= N /\ GotAll(i, d, l, r)
  BY DEF Block, Entry
<1>5. l < Half /\ r < Half /\ x < Half /\ y < Half
  <2> HIDE DEF l, r, x, y
  <2> QED BY <1>3, <1>4, CircleIs
<1>6. ~(x < l) /\ ~(r < y)
  BY <1>1, <1>2, <1>5, PosBefore
<1> HIDE DEF l, r, x, y
<1>7. \A z \in Nat : x <= z /\ z < y => l <= z /\ z < r
  BY <1>3, <1>6
<1>8. GotAll(i, d, x, y)
  BY <1>4, <1>7 DEF GotAll
<1> QED BY <1>8 DEF x, y

\* A queue that thins by true blocks stays true.
LEMMA ThinsEntries ==
    ASSUME NEW i \in SeqNum, NEW N \in Nat, N < Half, NEW d, NEW q \in SUBSET Unacked, NEW q2 \in SUBSET Unacked,
           NEW B \in SUBSET SackBlock, \A b \in B : Block(i, N, d, b), Thins(q, q2, B),
           \A s \in q : Entry(i, N, d, s)
    PROVE  \A s \in q2 : Entry(i, N, d, s)
<1> SUFFICES ASSUME NEW t \in q2 PROVE Entry(i, N, d, t)
  OBVIOUS
<1>1. PICK s \in q : t.start = s.start /\ t.end = s.end /\ (t.sacked => s.sacked \/ Blocked(s, B))
  BY DEF Thins
<1>2. s \in Unacked /\ Entry(i, N, d, s)
  OBVIOUS
<1>3. Blocked(s, B) => GotAll(i, d, wrapping_sub(s.start, i), wrapping_sub(s.end, i))
  BY <1>2, BlockedGot
<1> QED BY <1>1, <1>2, <1>3 DEF Entry

\* Between the ends of a block every offset is buffered.
LEMMA SpansCovered ==
    ASSUME NEW F \in SUBSET Frag, NEW S \in Nat, S < SeqMod, \A f \in F : Right(f, S),
           NEW r, r.frags = F, NEW b \in sack_blocks(r)
    PROVE  \E f, g \in F : /\ b.left = wrapping_add(r.base, f.off)
                           /\ b.right = wrapping_add(r.base, g.off + Len(g.data))
                           /\ \A y \in Nat : f.off <= y /\ y < g.off + Len(g.data) => y \in Offsets(F)
<1> DEFINE Before(f) == {g \in F : g.off < f.off /\ \A h \in F : h.off < f.off => h.off <= g.off}
           Starts == {f \in F : \A g \in Before(f) : FragEnd(g) # f.off}
<1>1. PICK f \in Starts, g \in F :
         /\ b.left = wrapping_add(r.base, f.off) /\ b.right = wrapping_add(r.base, FragEnd(g))
         /\ ~\E s \in Starts : f.off < s.off /\ s.off <= g.off
  BY DEF sack_blocks
<1>2. \A h \in F : /\ h.off \in Nat /\ Len(h.data) \in Nat /\ FragEnd(h) = h.off + Len(h.data)
                   /\ FragOffsets(h) = h.off .. h.off + Len(h.data) - 1
  BY RightNumbers
<1>3. f \in F
  OBVIOUS
<1>4. ASSUME NEW y \in Nat, f.off <= y, y < g.off + Len(g.data), y \notin Offsets(F) PROVE FALSE
  <2>1. \A h \in F : ~(h.off <= y /\ y < h.off + Len(h.data))
    <3> SUFFICES ASSUME NEW h \in F, h.off <= y, y < h.off + Len(h.data) PROVE FALSE
      OBVIOUS
    <3>1. h.off \in Nat /\ Len(h.data) \in Nat
      BY <1>2
    <3>2. y \in h.off .. h.off + Len(h.data) - 1
      BY <3>1
    <3>3. y \in FragOffsets(h)
      BY <1>2, <3>2
    <3> QED BY <1>4, <3>3 DEF Offsets
  <2> DEFINE T == {h.off : h \in {k \in F : k.off > y}}
  <2>2. g.off > y /\ g.off \in Nat
    BY <1>2, <1>4, <2>1
  <2>3. T \in SUBSET Nat /\ g.off \in T
    BY <1>2, <2>2
  <2>4. PICK m \in T : \A n \in T : m <= n
    <3> HIDE DEF T
    <3> QED BY <2>3, LeastNumber
  <2>5. PICK h \in F : h.off > y /\ m = h.off
    OBVIOUS
  <2>6. h.off <= g.off /\ f.off < h.off
    BY <1>2, <1>3, <1>4, <2>3, <2>4, <2>5
  <2>7. h \notin Starts
    BY <1>1, <2>6
  <2>8. PICK k \in Before(h) : FragEnd(k) = h.off
    BY <2>7
  <2>9. k \in F /\ k.off < h.off
    OBVIOUS
  <2>10. k.off <= y
    <3> SUFFICES ASSUME k.off > y PROVE FALSE
      BY <1>2, <2>9
    <3>1. k.off \in T
      BY <2>9
    <3>2. h.off <= k.off
      BY <2>4, <2>5, <3>1
    <3> QED BY <1>2, <2>9, <3>2
  <2>11. y < k.off + Len(k.data)
    BY <1>2, <2>5, <2>8, <2>9
  <2> QED BY <2>1, <2>9, <2>10, <2>11
<1> QED BY <1>1, <1>2, <1>3, <1>4

\* The SACK blocks of the receiver are true.
LEMMA SackBlocksTrue ==
    ASSUME NEW i \in SeqNum, NEW S \in Nat, NEW N \in Nat, S + 3 < Half, N >= S + 1,
           NEW d, Knows(d), ConnOK(d), NEW rcvd, Len(rcvd) \in Nat, Receiving(i, S, N, d, rcvd),
           NEW b \in sack_blocks(d.reasm)
    PROVE  Block(i, N, d, b)
<1> DEFINE F == d.reasm.frags
           a == d.reasm.base
<1>1. F \in SUBSET Frag /\ a \in SeqNum /\ a = wrapping_add(i, 1) /\ \A f \in F : Right(f, S)
  BY ReceivingNumbers DEF Receiving, ConnOK, Connection, Reasm, ReasmOK
<1>2. S < SeqMod /\ S + 2 < SeqMod /\ SeqMod \in Nat
  BY CircleIs
<1>3. PICK f \in F, g \in F : /\ b.left = wrapping_add(a, f.off)
                           /\ b.right = wrapping_add(a, g.off + Len(g.data))
                           /\ \A y \in Nat : f.off <= y /\ y < g.off + Len(g.data) => y \in Offsets(F)
  BY <1>1, <1>2, SpansCovered
<1>4. /\ f.off \in Nat /\ f.off <= S /\ g.off + Len(g.data) \in Nat /\ g.off + Len(g.data) <= S
  <2>1. f.off \in Nat /\ Len(f.data) \in Nat /\ f.off + Len(f.data) <= S
    BY <1>1, <1>2, RightNumbers
  <2>2. g.off \in Nat /\ Len(g.data) \in Nat /\ g.off + Len(g.data) <= S
    BY <1>1, <1>2, RightNumbers
  <2> QED BY <2>1, <2>2
<1> DEFINE u == f.off
           v == g.off + Len(g.data)
<1>5. wrapping_sub(a, i) = 1
  <2>1. 1 \in SeqNum
    BY <1>2, CircleIs
  <2> QED BY <1>1, <2>1, RoundTrip
<1>6. wrapping_sub(b.left, i) = 1 + u /\ wrapping_sub(b.right, i) = 1 + v
  <2>1. u \in Nat /\ v \in Nat /\ wrapping_sub(a, i) + u < SeqMod /\ wrapping_sub(a, i) + v < SeqMod
    BY <1>2, <1>4, <1>5
  <2> HIDE DEF u, v, a
  <2>2. wrapping_sub(wrapping_add(a, u), i) = wrapping_sub(a, i) + u /\ wrapping_sub(wrapping_add(a, v), i) = wrapping_sub(a, i) + v
    BY <1>1, <2>1, PosAdd
  <2> QED BY <1>3, <1>5, <2>2 DEF u, v
<1>7. u \in Nat /\ v \in Nat /\ u <= S /\ v <= S /\ \A y \in Nat : u <= y /\ y < v => y \in Offsets(F)
  BY <1>3, <1>4
<1> HIDE DEF u, v
<1>8. \A x \in Nat : 1 + u <= x /\ x < 1 + v => x - 1 \in Offsets(F)
  <2> SUFFICES ASSUME NEW x \in Nat, 1 + u <= x, x < 1 + v PROVE x - 1 \in Offsets(F)
    OBVIOUS
  <2>1. x - 1 \in Nat /\ u <= x - 1 /\ x - 1 < v
    BY <1>7
  <2> QED BY <1>7, <2>1
<1>9. 1 + u <= N /\ 1 + v <= N
  BY <1>7
<1>10. GotAll(i, d, 1 + u, 1 + v)
  BY <1>8 DEF GotAll, Got
<1> QED BY <1>6, <1>9, <1>10 DEF Block

\* The payload of s is the stream from offset a on.
Spelled(S, a, s) ==
    /\ a \in Nat /\ a + Len(s.data) <= S /\ Len(s.data) \in Nat /\ Len(s.data) > 0
    /\ \A k \in 1 .. Len(s.data) : s.data[k] = a + k

\* The payload of a genuine segment, by offsets.
LEMMA GenuineOffsets ==
    ASSUME NEW i \in SeqNum, NEW S \in Nat, NEW N, NEW s, Genuine(i, S, N, s), s.data # << >>
    PROVE  /\ Spelled(S, wrapping_sub(s.seq, wrapping_add(i, 1)), s)
           /\ wrapping_sub(s.seq, i) = wrapping_sub(s.seq, wrapping_add(i, 1)) + 1
<1> DEFINE q == wrapping_sub(s.seq, i)
           a == wrapping_sub(s.seq, wrapping_add(i, 1))
<1>1. s \in Segment /\ s.seq \in SeqNum /\ s.data \in Seq(Byte) /\ Len(s.data) \in Nat /\ q \in Nat
  BY SegmentFields, LenProperties, PosNat DEF Genuine
<1>2. /\ q >= 1 /\ q + Len(s.data) <= S + 1 /\ \A k \in 1 .. Len(s.data) : s.data[k] = q + k - 1
  BY DEF Genuine
<1>3. a = q - 1
  <2>1. a = IF q >= 1 THEN q - 1 ELSE SeqMod - 1
    BY <1>1, PosOff
  <2> QED BY <1>2, <2>1
<1>4. Len(s.data) # 0
  BY <1>1, EmptySeq, LenProperties
<1> HIDE DEF q, a
<1>5. \A k \in 1 .. Len(s.data) : q + k - 1 = a + k
  BY <1>1, <1>2, <1>3
<1>6. a \in Nat /\ q = a + 1 /\ a + Len(s.data) <= S /\ Len(s.data) > 0
  BY <1>1, <1>2, <1>3, <1>4
<1> QED BY <1>1, <1>2, <1>5, <1>6 DEF Spelled, q, a

\* recv loses nothing, and what it buffers fits what is on its way.
LEMMA RecvFits ==
    ASSUME NEW i \in SeqNum, NEW S \in Nat, NEW N \in Nat, S + 3 < Half,
           NEW d, ConnOK(d), NEW rcvd \in Seq(Nat), Receiving(i, S, N, d, rcvd),
           NEW P, \A p \in P : p.seq \in SeqNum, Alike(P), Fits(P, d), NEW s \in P, Genuine(i, S, N, s)
    PROVE  LET v == recv(d.reasm, s.seq, s.data, d.rcv_nxt)
               n == wrapping_sub(d.rcv_nxt, d.reasm.base)
           IN  /\ \A y \in Nat : Reached(d.reasm.frags, n, y) => Reached(v.reasm.frags, n + Len(v.out), y)
               /\ \A f \in v.reasm.frags :
                     /\ f.off # n + Len(v.out)
                     /\ \A p \in P : p.data # << >> /\ f.off = wrapping_sub(p.seq, d.reasm.base) => Len(f.data) = Len(p.data)
<1> DEFINE r == d.reasm
           x == s.seq
           y == s.data
           z == d.rcv_nxt
           v == recv(r, x, y, z)
           n == wrapping_sub(z, r.base)
           a == wrapping_sub(x, r.base)
<1>1. /\ s \in Segment /\ x \in SeqNum /\ y \in Seq(Byte) /\ z \in SeqNum /\ ReasmOK(r) /\ S < SeqMod
      /\ \A f \in r.frags : Right(f, S)
  BY SegmentFields, CircleIs DEF Genuine, Receiving, ConnOK, Connection, ReasmOK
<1>2. r.base = wrapping_add(i, 1)
  BY DEF Receiving
<1>3. y # << >> => /\ a + Len(y) <= S /\ \A k \in 1 .. Len(y) : y[k] = a + k
  <2> SUFFICES ASSUME s.data # << >> PROVE a + Len(y) <= S /\ \A k \in 1 .. Len(y) : y[k] = a + k
    OBVIOUS
  <2>1. /\ wrapping_sub(s.seq, wrapping_add(i, 1)) + Len(s.data) <= S
        /\ \A k \in 1 .. Len(s.data) : s.data[k] = wrapping_sub(s.seq, wrapping_add(i, 1)) + k
    <3>1. Spelled(S, wrapping_sub(s.seq, wrapping_add(i, 1)), s)
      BY GenuineOffsets
    <3> QED BY <3>1 DEF Spelled
  <2> QED BY <1>2, <2>1
<1>4. \A f \in r.frags : f.off # n /\ (y # << >> /\ f.off = a => Len(f.data) = Len(y))
  BY DEF Fits
<1>5. \A p \in P : p.data # << >> /\ y # << >> /\ wrapping_sub(p.seq, r.base) = a /\ p.seq \in SeqNum => Len(p.data) = Len(y)
  <2> SUFFICES ASSUME NEW p \in P, p.data # << >>, y # << >>, wrapping_sub(p.seq, r.base) = a, p.seq \in SeqNum
               PROVE  Len(p.data) = Len(y)
    OBVIOUS
  <2>1. r.base \in SeqNum
    BY <1>1 DEF ReasmOK, Reasm
  <2>2. p.seq = x
    BY <1>1, <2>1, PosSame
  <2> QED BY <2>2 DEF Alike
<1> HIDE DEF r, x, y, z
<1>6. /\ \A f \in v.reasm.frags : f.off # n + Len(v.out)
      /\ \A f \in v.reasm.frags : f \in r.frags \/ (y # << >> /\ f.off = a /\ Len(f.data) = Len(y))
      /\ \A k \in Nat : Reached(r.frags, n, k) => Reached(v.reasm.frags, n + Len(v.out), k)
  <2>1. /\ ReasmOK(r) /\ x \in SeqNum /\ y \in Seq(Byte) /\ z \in SeqNum /\ S < SeqMod
        /\ \A f \in r.frags : Right(f, S)
        /\ y # << >> => /\ wrapping_sub(x, r.base) + Len(y) <= S
                        /\ \A k \in 1 .. Len(y) : y[k] = wrapping_sub(x, r.base) + k
    BY <1>1, <1>3
  <2>2. LET u == recv(r, x, y, z)
            m == wrapping_sub(z, r.base)
            b == wrapping_sub(x, r.base)
        IN  /\ (\A f \in r.frags : f.off # m)
                     => \A f \in u.reasm.frags : f.off # m + Len(u.out)
            /\ (\A f \in r.frags : f.off # m)
                     => \A f \in u.reasm.frags : f \in r.frags \/ (y # << >> /\ f.off = b /\ Len(f.data) = Len(y))
            /\ (\A f \in r.frags : f.off # m /\ (y # << >> /\ f.off = b => Len(f.data) = Len(y)))
                     => \A k \in Nat : Reached(r.frags, m, k) => Reached(u.reasm.frags, m + Len(u.out), k)
    BY <2>1, RecvRight
  <2>3. \A f \in r.frags : f.off # n
    BY <1>4
  <2> QED BY <1>4, <2>2, <2>3
<1> HIDE DEF v, n, a
<1>7. ASSUME NEW f \in v.reasm.frags, NEW p \in P, p.data # << >>, f.off = wrapping_sub(p.seq, r.base), p.seq \in SeqNum
      PROVE  Len(f.data) = Len(p.data)
  <2>1. CASE f \in r.frags
    BY <1>7, <2>1 DEF Fits, r
  <2>2. CASE y # << >> /\ f.off = a /\ Len(f.data) = Len(y)
    BY <1>5, <1>7, <2>2
  <2> QED BY <1>6, <2>1, <2>2
<1> QED BY <1>6, <1>7 DEF v, n, r, x, y, z

\* A genuine segment taken by the receiver: nothing is lost, and what is buffered fits.
LEMMA ReceivesKeeps ==
    ASSUME NEW i \in SeqNum, NEW S \in Nat, NEW N \in Nat, S + 3 < Half,
           NEW d, ConnOK(d), Knows(d), NEW rcvd \in Seq(Nat), Receiving(i, S, N, d, rcvd),
           NEW P, \A p \in P : p.seq \in SeqNum, Alike(P), Fits(P, d), NEW s \in P, Genuine(i, S, N, s),
           NEW d2, ConnOK(d2), Knows(d2), NEW data, Receives(d, s, d2, data)
    PROVE  Keeps(i, d, d2) /\ Fits(P, d2)
<1> DEFINE R == wrapping_sub(d.rcv_nxt, i)
           R2 == wrapping_sub(d2.rcv_nxt, i)
           n == wrapping_sub(d.rcv_nxt, d.reasm.base)
           n2 == wrapping_sub(d2.rcv_nxt, d2.reasm.base)
           rcvd2 == rcvd \o data
<1>1. Receiving(i, S, N, d2, rcvd2) /\ rcvd2 \in Seq(Nat) /\ R <= R2
  BY ReceivesReceiving
<1>2. Len(rcvd) \in Nat /\ Len(rcvd2) \in Nat
  BY <1>1, LenProperties
<1> HIDE DEF rcvd2
<1>3. /\ R \in Nat /\ R >= 1 /\ n = R - 1 /\ d.reasm.base = wrapping_add(i, 1)
  BY <1>2, ReceivingNumbers
<1>4. /\ R2 \in Nat /\ R2 >= 1 /\ n2 = R2 - 1 /\ d2.reasm.base = wrapping_add(i, 1)
      /\ R2 = IF d2.peer_fin THEN Len(rcvd2) + 2 ELSE Len(rcvd2) + 1
  BY <1>1, <1>2, ReceivingNumbers
<1>5. RcvPos(i, d) = R /\ RcvPos(i, d2) = R2
  BY DEF RcvPos
<1>6. CASE SameReceiver(d, d2)
  <2>1. d2.rcv_nxt = d.rcv_nxt /\ d2.reasm = d.reasm
    BY <1>6 DEF SameReceiver
  <2>2. Keeps(i, d, d2)
    BY <2>1 DEF Keeps, Got, RcvPos
  <2> QED BY <2>1, <2>2 DEF Fits
<1>7. CASE Takes(d, s, d2, data)
  <2> DEFINE v == recv(d.reasm, s.seq, s.data, d.rcv_nxt)
             l == Len(v.out)
  <2>1. /\ \A y \in Nat : Reached(d.reasm.frags, n, y) => Reached(v.reasm.frags, n + l, y)
        /\ \A f \in v.reasm.frags :
              /\ f.off # n + l
              /\ \A p \in P : p.data # << >> /\ f.off = wrapping_sub(p.seq, d.reasm.base) => Len(f.data) = Len(p.data)
    BY RecvFits
  <2>2. /\ l \in Nat /\ wrapping_sub(wrapping_add(d.rcv_nxt, l), i) = R + l /\ wrapping_add(d.rcv_nxt, l) \in SeqNum
    BY GenuineRecv
  <2>3. /\ d2.reasm = v.reasm
        /\ d2.rcv_nxt = wrapping_add(d.rcv_nxt, l) \/ d2.peer_fin
    BY <1>7 DEF Takes
  <2>31. d2.rcv_nxt = wrapping_add(d.rcv_nxt, l) \/ d2.rcv_nxt = wrapping_add(wrapping_add(d.rcv_nxt, l), 1)
    BY <1>7 DEF Takes
  <2> HIDE DEF v, l
  <2>4. \A f \in d2.reasm.frags : f.off # n2
    <3> SUFFICES ASSUME NEW f \in d2.reasm.frags PROVE f.off # n2
      OBVIOUS
    <3>1. CASE d2.rcv_nxt = wrapping_add(d.rcv_nxt, l)
      <4>1. R2 = R + l
        BY <2>2, <3>1
      <4>2. n2 = n + l
        <5> HIDE DEF R, R2, n, n2
        <5> QED BY <1>3, <1>4, <2>2, <4>1
      <4> QED BY <2>1, <2>3, <4>2
    <3>2. CASE d2.peer_fin
      <4>1. Len(rcvd2) = S /\ Right(f, S)
        BY <1>1, <3>2 DEF Receiving
      <4>2. n2 = S + 1
        <5> HIDE DEF R, R2, n, n2
        <5> QED BY <1>4, <3>2, <4>1
      <4>3. f \in Frag /\ S < SeqMod
        BY CircleIs DEF ConnOK, Connection, Reasm, ReasmOK
      <4>4. f.off \in Nat /\ Len(f.data) \in Nat /\ f.off + Len(f.data) <= S
        BY <4>1, <4>3, RightNumbers
      <4> HIDE DEF n2
      <4> QED BY <4>2, <4>4
    <3> QED BY <2>3, <3>1, <3>2
  <2>5. Fits(P, d2)
    BY <1>3, <1>4, <2>1, <2>3, <2>4 DEF Fits
  <2>6. R + l <= R2
    <3>1. CASE d2.rcv_nxt = wrapping_add(d.rcv_nxt, l)
      <4>1. R2 = R + l
        BY <2>2, <3>1
      <4> HIDE DEF R, R2
      <4> QED BY <1>3, <2>2, <4>1
    <3>2. CASE d2.rcv_nxt = wrapping_add(wrapping_add(d.rcv_nxt, l), 1)
      <4> DEFINE m == wrapping_add(d.rcv_nxt, l)
      <4>1. wrapping_sub(m, i) = R + l /\ m \in SeqNum
        BY <2>2
      <4>2. R + l <= S + 2
        <5>1. Len(rcvd) + l <= S
          <6>1. Len(rcvd \o v.out) = Len(rcvd) + Len(v.out) /\ Len(rcvd \o v.out) <= S
            BY GenuineRecv DEF v
          <6> QED BY <6>1 DEF l
        <5>2. R <= Len(rcvd) + 2
          <6>1. R = IF d.peer_fin THEN Len(rcvd) + 2 ELSE Len(rcvd) + 1
            BY <1>2, ReceivingNumbers
          <6> HIDE DEF R
          <6> QED BY <1>2, <6>1
        <5> HIDE DEF R
        <5> QED BY <1>2, <1>3, <2>2, <5>1, <5>2
      <4>3. wrapping_sub(m, i) + 1 < SeqMod /\ 1 \in Nat
        <5> HIDE DEF R, m
        <5> QED BY <1>3, <2>2, <4>1, <4>2, CircleIs
      <4> HIDE DEF m
      <4>4. wrapping_sub(wrapping_add(m, 1), i) = wrapping_sub(m, i) + 1
        BY <4>1, <4>3, PosAdd
      <4>5. R2 = R + l + 1
        BY <3>2, <4>1, <4>4 DEF m
      <4> HIDE DEF R, R2
      <4> QED BY <1>3, <2>2, <4>5
    <3> QED BY <2>31, <3>1, <3>2
  <2>7. ASSUME NEW x \in Nat, Got(i, d, x) PROVE Got(i, d2, x)
    <3>1. x < R \/ x - 1 \in Offsets(d.reasm.frags)
      BY <1>5, <2>7 DEF Got
    <3> HIDE DEF R, R2, n, n2
    <3>2. CASE x < R
      BY <1>1, <1>3, <1>4, <1>5, <3>2 DEF Got
    <3>3. CASE ~(x < R)
      <4>1. x - 1 \in Nat
        BY <1>3, <3>3
      <4>2. Reached(v.reasm.frags, n + l, x - 1)
        BY <2>1, <3>1, <3>3, <4>1 DEF Reached
      <4>3. x - 1 < n + l => x < R2
        BY <1>3, <1>4, <2>2, <2>6
      <4> QED BY <1>5, <2>3, <4>2, <4>3 DEF Got, Reached
    <3> QED BY <3>2, <3>3
  <2> QED BY <2>5, <2>7 DEF Keeps
<1> QED BY <1>6, <1>7 DEF Receives

\* A receiver that is left alone.
LEMMA SameKeeps ==
    ASSUME NEW i, NEW d, NEW d2, SameReceiver(d, d2), Knows(d) <=> Knows(d2), NEW P
    PROVE  Keeps(i, d, d2) /\ (Fits(P, d) <=> Fits(P, d2))
BY DEF Keeps, Got, RcvPos, Fits, SameReceiver

\* A receiver that knew nothing had nothing.
LEMMA IgnorantKeeps == ASSUME NEW i, NEW d, NEW d2, ~Knows(d) PROVE Keeps(i, d, d2)
BY DEF Keeps, Got

\* Fewer packets are alike and fit, too.
LEMMA FewerFit ==
    ASSUME NEW P, NEW P2, P2 \subseteq P
    PROVE  (Alike(P) => Alike(P2)) /\ \A d : Fits(P, d) => Fits(P2, d)
BY DEF Alike, Fits

\* The blocks of a set of packets are pairs of sequence numbers.
WellFormed(P) == \A p \in P : p.seq \in SeqNum /\ p.sack \subseteq SackBlock

\* Packets of a direction are.
LEMMA SegmentsWellFormed == ASSUME NEW P, \A p \in P : p \in Segment PROVE WellFormed(P)
BY DEF WellFormed, Segment

\* The receiver takes a step.
LEMMA ReceiverReliable ==
    ASSUME NEW i \in SeqNum, NEW c, NEW d, NEW d2, NEW Q, NEW Q2, NEW B, NEW B2, Reliable(i, c, d, Q, B),
           c # NoConn, NxtPos(i, c) \in Nat, c.retx \in SUBSET Unacked, Keeps(i, d, d2), Q2 \subseteq Q,
           Knows(d2) => Fits(Q \cup Packets(c), d2), WellFormed(B \cup Packets(d)),
           \A p \in B2 \cup Packets(d2) :
              p \in B \cup Packets(d) \/ \A b \in p.sack : Block(i, NxtPos(i, c), d2, b)
    PROVE  Reliable(i, c, d2, Q2, B2)
<1> DEFINE N == NxtPos(i, c)
<1>1. /\ Queued(c) /\ \A s \in c.retx : Entry(i, N, d, s)
      /\ \A p \in B \cup Packets(d) : \A b \in p.sack : Block(i, N, d, b)
      /\ Alike(Q \cup Packets(c))
  BY DEF Reliable
<1>2. Q2 \cup Packets(c) \subseteq Q \cup Packets(c)
  OBVIOUS
<1>3. Alike(Q2 \cup Packets(c)) /\ (Knows(d2) => Fits(Q2 \cup Packets(c), d2))
  BY <1>1, <1>2, FewerFit
<1> HIDE DEF N
<1>0. N \in Nat /\ N <= N
  BY DEF N
<1>4. \A s \in c.retx : Entry(i, N, d2, s)
  BY <1>0, <1>1, EntryKeeps
<1>5. \A p \in B \cup Packets(d) : \A b \in p.sack : Block(i, N, d2, b)
  <2> SUFFICES ASSUME NEW p \in B \cup Packets(d), NEW b \in p.sack PROVE Block(i, N, d2, b)
    OBVIOUS
  <2>1. b \in SackBlock
    BY DEF WellFormed
  <2> QED BY <1>0, <1>1, <2>1, BlockKeeps
<1>6. \A p \in B2 \cup Packets(d2) : \A b \in p.sack : Block(i, N, d2, b)
  BY <1>5 DEF N
<1> QED BY <1>1, <1>3, <1>4, <1>6 DEF Reliable, N

\* The sender takes a step.
LEMMA SenderReliable ==
    ASSUME NEW i \in SeqNum, NEW c, NEW c2, NEW d, NEW Q, NEW Q2, NEW B, NEW B2, Reliable(i, c, d, Q, B),
           NxtPos(i, c) \in Nat, NxtPos(i, c2) \in Nat, NxtPos(i, c) <= NxtPos(i, c2), Queued(c2),
           \A s \in c2.retx : Entry(i, NxtPos(i, c2), d, s),
           Alike(Q2 \cup Packets(c2)), Knows(d) => Fits(Q2 \cup Packets(c2), d),
           B2 \subseteq B, WellFormed(B \cup Packets(d))
    PROVE  Reliable(i, c2, d, Q2, B2)
<1> DEFINE N == NxtPos(i, c)
           N2 == NxtPos(i, c2)
<1>1. \A p \in B \cup Packets(d) : \A b \in p.sack : Block(i, N, d, b)
  BY DEF Reliable
<1>2. Keeps(i, d, d)
  BY DEF Keeps
<1> HIDE DEF N, N2
<1>3. N \in Nat /\ N2 \in Nat /\ N <= N2
  BY DEF N, N2
<1>4. ASSUME NEW p \in B2 \cup Packets(d), NEW b \in p.sack PROVE Block(i, N2, d, b)
  <2>1. p \in B \cup Packets(d)
    OBVIOUS
  <2>2. b \in SackBlock /\ Block(i, N, d, b)
    BY <1>1, <2>1 DEF WellFormed
  <2> QED BY <1>2, <1>3, <2>2, BlockKeeps
<1> QED BY <1>4 DEF Reliable, N2

\* Packets that have just been made, of bytes from position N on.
Fresh(i, N, P) ==
    /\ Alike(P)
    /\ \A p \in P : p.sack = {} /\ (p.data # << >> => p.seq \in SeqNum /\ wrapping_sub(p.seq, i) >= N)

\* They fit what there is.
LEMMA FreshFits ==
    ASSUME NEW i \in SeqNum, NEW S \in Nat, NEW N \in Nat, N >= S + 1, S + 3 < Half,
           NEW P, \A p \in P : Genuine(i, S, N, p), Alike(P), NEW E, Fresh(i, N, E)
    PROVE  /\ Alike(P \cup E)
           /\ \A d, rcvd : ConnOK(d) /\ Receiving(i, S, N, d, rcvd) /\ Fits(P, d) => Fits(P \cup E, d)
<1>1. ASSUME NEW p \in P, p.data # << >>
      PROVE  wrapping_sub(p.seq, i) \in Nat /\ wrapping_sub(p.seq, i) <= S
  <2> DEFINE a == wrapping_sub(p.seq, wrapping_add(i, 1))
  <2>1. Spelled(S, a, p) /\ wrapping_sub(p.seq, i) = a + 1
    BY <1>1, GenuineOffsets
  <2>2. a \in Nat /\ a + Len(p.data) <= S /\ Len(p.data) \in Nat /\ Len(p.data) > 0
    BY <2>1 DEF Spelled
  <2> HIDE DEF a
  <2> QED BY <2>1, <2>2
<1>2. ASSUME NEW p \in P, NEW q \in E, p.data # << >>, q.data # << >> PROVE p.seq # q.seq
  <2>1. wrapping_sub(q.seq, i) >= N
    BY <1>2 DEF Fresh
  <2>2. wrapping_sub(p.seq, i) \in Nat /\ wrapping_sub(p.seq, i) <= S
    BY <1>1, <1>2
  <2> QED BY <2>1, <2>2
<1>3. Alike(P \cup E)
  BY <1>2 DEF Alike, Fresh
<1>4. ASSUME NEW d, NEW rcvd, ConnOK(d), Receiving(i, S, N, d, rcvd), Fits(P, d), NEW f \in d.reasm.frags, NEW q \in E,
             q.data # << >>, f.off = wrapping_sub(q.seq, d.reasm.base)
      PROVE  FALSE
  <2>1. q.seq \in SeqNum /\ wrapping_sub(q.seq, i) >= N
    BY <1>4 DEF Fresh
  <2>2. d.reasm.base = wrapping_add(i, 1) /\ Right(f, S)
    BY <1>4 DEF Receiving
  <2>3. f \in Frag /\ S < SeqMod
    BY <1>4, CircleIs, SMTT(40) DEF ConnOK, Connection, Reasm, ReasmOK
  <2>4. f.off \in Nat /\ Len(f.data) \in Nat /\ Len(f.data) > 0 /\ f.off + Len(f.data) <= S
    BY <2>2, <2>3, RightNumbers
  <2> DEFINE x == wrapping_sub(q.seq, i)
  <2>5. x \in Nat /\ f.off = IF x >= 1 THEN x - 1 ELSE SeqMod - 1
    BY <1>4, <2>1, <2>2, PosOff, PosNat
  <2>6. x >= N
    BY <2>1
  <2> HIDE DEF x
  <2> QED BY <2>4, <2>5, <2>6
<1>5. ASSUME NEW d, NEW rcvd, ConnOK(d), Receiving(i, S, N, d, rcvd), Fits(P, d) PROVE Fits(P \cup E, d)
  BY <1>4, <1>5 DEF Fits
<1> QED BY <1>3, <1>5

\* The entry t of c is new, and starts k numbers after SND.NXT.
NewAt(i, c, t, k) ==
    /\ wrapping_sub(t.pkt.seq, i) = NxtPos(i, c) + k
    /\ wrapping_sub(t.end, i) = NxtPos(i, c) + k + Len(t.pkt.data)
    /\ k \in Nat /\ Len(t.pkt.data) \in Nat /\ Len(t.pkt.data) > 0
    /\ t.start = t.pkt.seq /\ ~t.sacked /\ t.pkt.sack = {} /\ t.pkt.seq \in SeqNum

\* The numbers of a new entry.
LEMMA CutNumbers ==
    ASSUME NEW i \in SeqNum, NEW w \in Nat, w + 3 < Half, NEW c, Sending(i, w, c),
           NxtPos(i, c) = w - Len(c.send_buf) + 1, NEW now, NEW t, NEW k, Cuts(c, now, t, k),
           NEW m \in 0 .. Len(c.send_buf), k + Len(t.pkt.data) <= m
    PROVE  NewAt(i, c, t, k)
<1>1. /\ wrapping_sub(t.pkt.seq, i) = NxtPos(i, c) + k
      /\ wrapping_sub(t.end, i) = NxtPos(i, c) + k + Len(t.pkt.data)
  <2>1. CutAt(i, c, t, k)
    BY CutGenuine
  <2> QED BY <2>1 DEF CutAt
<1>2. t \in Unacked /\ k \in Nat /\ Len(t.pkt.data) > 0 /\ t.start = t.pkt.seq /\ ~t.sacked /\ t.pkt.sack = {}
  BY DEF Cuts
<1>3. t.pkt \in Segment
  BY <1>2 DEF Unacked
<1>4. t.pkt.seq \in SeqNum /\ Len(t.pkt.data) \in Nat
  BY <1>3, SegmentFields, LenProperties
<1> QED BY <1>1, <1>2, <1>4 DEF NewAt

\* The packets and the entries of an emission.
LEMMA EmissionFresh ==
    ASSUME NEW i \in SeqNum, NEW w \in Nat, w + 3 < Half, NEW c, Sending(i, w, c),
           NxtPos(i, c) = w - Len(c.send_buf) + 1, NEW now, NEW n \in 0 .. Len(c.send_buf), NEW E, Emission(c, n, E, now)
    PROVE  Fresh(i, NxtPos(i, c), Pkts(E)) /\ \A d : \A t \in E : Entry(i, NxtPos(i, c) + n, d, t)
<1> DEFINE N == NxtPos(i, c)
<1>0. N \in Nat /\ Len(c.send_buf) \in Nat
  BY SendingNumbers DEF NxtPos
<1>2. ASSUME NEW d, NEW t \in E PROVE Entry(i, N + n, d, t) /\ t.pkt.sack = {} /\ t.pkt.seq \in SeqNum /\ wrapping_sub(t.pkt.seq, i) >= N
  <2>1. PICK k : Cuts(c, now, t, k) /\ k + Len(t.pkt.data) <= n
    BY DEF Emission
  <2>2. /\ wrapping_sub(t.pkt.seq, i) = N + k /\ wrapping_sub(t.end, i) = N + k + Len(t.pkt.data)
        /\ k \in Nat /\ Len(t.pkt.data) \in Nat /\ Len(t.pkt.data) > 0
        /\ t.start = t.pkt.seq /\ ~t.sacked /\ t.pkt.sack = {} /\ t.pkt.seq \in SeqNum
    <3>1. NewAt(i, c, t, k)
      BY <2>1, CutNumbers
    <3> QED BY <3>1 DEF NewAt
  <2> DEFINE l == Len(t.pkt.data)
             a == wrapping_sub(t.start, i)
             b == wrapping_sub(t.end, i)
  <2>3. a = N + k /\ b = N + k + l /\ l \in Nat /\ l > 0 /\ k + l <= n
    BY <2>1, <2>2
  <2> HIDE DEF N, l, a, b
  <2>4. a < b /\ b <= N + n /\ a >= N
    BY <1>0, <2>2, <2>3
  <2>5. Entry(i, N + n, d, t)
    BY <2>2, <2>4 DEF Entry, a, b
  <2> QED BY <2>2, <2>4, <2>5 DEF a
<1>3. ASSUME NEW t \in E, NEW u \in E, t.pkt.seq = u.pkt.seq PROVE t = u
  <2> SUFFICES ASSUME t # u PROVE FALSE
    OBVIOUS
  <2>1. PICK k, m : /\ Cuts(c, now, t, k) /\ Cuts(c, now, u, m)
                    /\ k + Len(t.pkt.data) <= n /\ m + Len(u.pkt.data) <= n
                    /\ k + Len(t.pkt.data) <= m \/ m + Len(u.pkt.data) <= k
    BY DEF Emission
  <2>2. wrapping_sub(t.pkt.seq, i) = N + k /\ k \in Nat /\ Len(t.pkt.data) \in Nat /\ Len(t.pkt.data) > 0
    <3>1. NewAt(i, c, t, k)
      BY <2>1, CutNumbers
    <3> QED BY <3>1 DEF NewAt
  <2>3. wrapping_sub(u.pkt.seq, i) = N + m /\ m \in Nat /\ Len(u.pkt.data) \in Nat /\ Len(u.pkt.data) > 0
    <3>1. NewAt(i, c, u, m)
      BY <2>1, CutNumbers
    <3> QED BY <3>1 DEF NewAt
  <2> HIDE DEF N
  <2>4. N + k = N + m
    BY <1>3, <2>2, <2>3
  <2> QED BY <1>0, <2>1, <2>2, <2>3, <2>4
<1>4. Alike(Pkts(E))
  BY <1>3 DEF Alike, Pkts
<1>5. \A p \in Pkts(E) : p.sack = {} /\ p.seq \in SeqNum /\ wrapping_sub(p.seq, i) >= N
  BY <1>2 DEF Pkts
<1> QED BY <1>2, <1>4, <1>5 DEF Fresh

\* The reliability of one direction survives what the sender sends of its own accord.
LEMMA EmitsReliable ==
    ASSUME NEW i \in SeqNum, NEW j \in SeqNum, NEW w \in Nat, w + 3 < Half, NEW c, NEW d, NEW Q, NEW Q2, NEW B, NEW B2,
           NEW rcvd, Direction(i, j, w, c, d, Q, rcvd), c # NoConn, Reliable(i, c, d, Q, B),
           NEW r, ConnOK(r.tcb), NEW now \in SeqNum, Emits(c, r, now) \/ EmitsFin(c, r, now), Queued(r.tcb),
           Q2 \subseteq Q \cup r.out, B2 \subseteq B, WellFormed(B \cup Packets(d))
    PROVE  Reliable(i, r.tcb, d, Q2, B2)
<1> DEFINE c2 == r.tcb
           S == w - Len(c.send_buf)
           N == NxtPos(i, c)
<1>1. /\ Sending(i, w, c) /\ c.retx \in SUBSET Unacked /\ c2 # NoConn
      /\ S = Wire(w, c) /\ S \in Nat /\ S <= w /\ N \in Nat /\ N >= S + 1 /\ Len(c.send_buf) \in Nat
  <2>1. Sending(i, w, c)
    BY DEF Direction
  <2>2. c2 # NoConn
    BY ConnIsNot
  <2>3. S = Wire(w, c)
    BY DEF Wire
  <2>4. c.retx \in SUBSET Unacked /\ S \in Nat /\ N \in Nat /\ N >= S + 1 /\ Len(c.send_buf) \in Nat
    BY <2>1, SendingNumbers DEF NxtPos
  <2>5. S <= w
    BY <2>4
  <2> QED BY <2>1, <2>2, <2>3, <2>4, <2>5
<1>2. S + 3 < Half
  <2> HIDE DEF N, S
  <2> QED BY <1>1, CircleIs
<1>3. \A p \in Q \cup Packets(c) : Genuine(i, S, N, p)
  BY <1>1 DEF Direction
<1>4. /\ \A s \in c.retx : Entry(i, N, d, s)
      /\ Alike(Q \cup Packets(c)) /\ (Knows(d) => Fits(Q \cup Packets(c), d))
  BY DEF Reliable
<1>5. Knows(d) => ConnOK(d) /\ Receiving(i, S, N, d, rcvd)
  BY <1>1 DEF Direction
<1> HIDE DEF c2, S, N
<1>6. ASSUME NEW E, Fresh(i, N, E), Q2 \cup Packets(c2) \subseteq (Q \cup Packets(c)) \cup E
      PROVE  Alike(Q2 \cup Packets(c2)) /\ (Knows(d) => Fits(Q2 \cup Packets(c2), d))
  <2> DEFINE P == Q \cup Packets(c)
  <2>1. \A p \in P : Genuine(i, S, N, p)
    BY <1>3
  <2>2. Alike(P) /\ (Knows(d) => Fits(P, d))
    BY <1>4
  <2> HIDE DEF P
  <2>3. /\ Alike(P \cup E)
        /\ \A dd, rr : ConnOK(dd) /\ Receiving(i, S, N, dd, rr) /\ Fits(P, dd) => Fits(P \cup E, dd)
    BY <1>1, <1>2, <1>6, <2>1, <2>2, FreshFits
  <2>4. Knows(d) => Fits(P \cup E, d)
    BY <1>5, <2>2, <2>3
  <2>5. Q2 \cup Packets(c2) \subseteq P \cup E
    BY <1>6 DEF P
  <2> QED BY <2>3, <2>4, <2>5, FewerFit
<1>7. Keeps(i, d, d)
  BY DEF Keeps
<1>8. CASE Emits(c, r, now)
  <2>1. PICK n \in 0 .. Len(c.send_buf) : \E E : EmitsBy(c, r, n, E, now)
    BY <1>8 DEF Emits
  <2>2. PICK E : EmitsBy(c, r, n, E, now)
    BY <2>1
  <2>3. EmitsTo(i, w, c, c2, n, E)
    BY <1>1, <2>2, EmitsSending DEF c2
  <2>4. /\ NxtPos(i, c2) = N + n /\ (n > 0 \/ E # {} => N = S + 1)
    BY <2>3 DEF EmitsTo, S, N
  <2>5. /\ Emission(c, n, E, now) /\ Thins(c.retx \cup E, c2.retx, {}) /\ r.out \subseteq Pkts(c.retx \cup E)
    BY <2>2 DEF EmitsBy, c2
  <2>6. n \in Nat /\ N + n \in Nat /\ N <= N + n
    BY <1>1
  <2>7. Fresh(i, N, Pkts(E)) /\ \A t \in E : Entry(i, N + n, d, t)
    <3>1. CASE E = {}
      BY <3>1 DEF Fresh, Pkts, Alike
    <3>2. CASE E # {}
      <4>1. NxtPos(i, c) = w - Len(c.send_buf) + 1
        BY <2>4, <3>2 DEF N, S
      <4> QED BY <1>1, <2>5, <4>1, EmissionFresh DEF N
    <3> QED BY <3>1, <3>2
  <2>8. \A t \in c2.retx : Entry(i, N + n, d, t)
    <3> SUFFICES ASSUME NEW t \in c2.retx PROVE Entry(i, N + n, d, t)
      OBVIOUS
    <3>1. PICK s \in c.retx \cup E : t.start = s.start /\ t.end = s.end /\ (t.sacked => s.sacked \/ Blocked(s, {}))
      BY <2>5 DEF Thins
    <3>2. ~Blocked(s, {})
      BY DEF Blocked
    <3>3. Entry(i, N + n, d, s)
      <4>1. CASE s \in c.retx
        BY <1>1, <1>4, <1>7, <2>6, <4>1, EntryKeeps
      <4> QED BY <2>7, <4>1
    <3> QED BY <3>1, <3>2, <3>3 DEF Entry
  <2>9. Q2 \cup Packets(c2) \subseteq (Q \cup Packets(c)) \cup Pkts(E)
    <3>1. Pkts(c2.retx) \subseteq Pkts(c.retx \cup E)
      BY <2>5, ThinsPkts
    <3>2. Pkts(c.retx \cup E) = Pkts(c.retx) \cup Pkts(E)
      BY DEF Pkts
    <3> QED BY <1>1, <2>5, <3>1, <3>2 DEF Packets
  <2>10. Alike(Q2 \cup Packets(c2)) /\ (Knows(d) => Fits(Q2 \cup Packets(c2), d))
    BY <1>6, <2>7, <2>9
  <2> QED BY <1>1, <2>4, <2>6, <2>8, <2>10, SenderReliable DEF N, c2
<1>9. CASE EmitsFin(c, r, now)
  <2>1. NxtPos(i, c2) = N + 1 /\ c2.retx = c.retx \cup {FinEntry(c, now)} /\ r.out = {Fin(c, now)}
    <3>1. c.nxt \in SeqNum /\ N <= S + 2
      BY <1>1, SendingNumbers DEF NxtPos, N, S
    <3>2. N + 1 < SeqMod
      BY <1>1, <1>2, <3>1, CircleIs
    <3>3. c2.nxt = wrapping_add(c.nxt, 1) /\ c2.retx = c.retx \cup {FinEntry(c, now)} /\ r.out = {Fin(c, now)}
      BY <1>9 DEF EmitsFin, c2
    <3>4. wrapping_sub(wrapping_add(c.nxt, 1), i) = wrapping_sub(c.nxt, i) + 1
      BY <3>1, <3>2, PosAdd DEF NxtPos, N
    <3> QED BY <3>3, <3>4 DEF NxtPos, N
  <2> DEFINE p == Fin(c, now)
             t == FinEntry(c, now)
  <2>2. p.data = << >> /\ p.sack = {}
    BY DEF Fin, segment
  <2>3. t.start = c.nxt /\ t.end = wrapping_add(c.nxt, 1) /\ ~t.sacked /\ t.pkt = p
    BY DEF FinEntry
  <2>4. wrapping_sub(t.start, i) = N /\ wrapping_sub(t.end, i) = N + 1
    <3>1. c2.nxt = wrapping_add(c.nxt, 1)
      BY <1>9 DEF EmitsFin, c2
    <3> QED BY <2>1, <2>3, <3>1 DEF NxtPos, N
  <2>5. N + 1 \in Nat /\ N < N + 1 /\ N + 1 <= N + 1 /\ N <= N + 1
    BY <1>1
  <2>6. Entry(i, N + 1, d, t)
    BY <2>3, <2>4, <2>5 DEF Entry
  <2> HIDE DEF p, t
  <2>7. \A s \in c.retx : Entry(i, N + 1, d, s)
    BY <1>1, <1>4, <1>7, <2>5, EntryKeeps
  <2>8. \A s \in c2.retx : Entry(i, N + 1, d, s)
    BY <2>1, <2>6, <2>7 DEF t
  <2>9. Fresh(i, N, {p})
    BY <2>2 DEF Fresh, Alike
  <2>10. Q2 \cup Packets(c2) \subseteq (Q \cup Packets(c)) \cup {p}
    <3>1. Pkts(c2.retx) = Pkts(c.retx) \cup {p}
      BY <2>1, <2>3 DEF Pkts, t
    <3> QED BY <1>1, <2>1, <3>1 DEF Packets, p
  <2>11. Alike(Q2 \cup Packets(c2)) /\ (Knows(d) => Fits(Q2 \cup Packets(c2), d))
    BY <1>6, <2>9, <2>10
  <2>12. /\ NxtPos(i, c) \in Nat /\ NxtPos(i, c2) \in Nat /\ NxtPos(i, c) <= NxtPos(i, c2) /\ Queued(c2)
         /\ \A s \in c2.retx : Entry(i, NxtPos(i, c2), d, s)
    BY <1>1, <2>1, <2>5, <2>8 DEF N, c2
  <2>13. Reliable(i, c2, d, Q2, B2)
    BY <2>11, <2>12, SenderReliable
  <2> QED BY <2>13 DEF c2
<1> QED BY <1>8, <1>9

\* What goes out of its own accord carries no new SACK block.
LEMMA EmitsPlain ==
    ASSUME NEW i \in SeqNum, NEW w \in Nat, w + 3 < Half, NEW c, Sending(i, w, c), NEW r, ConnOK(r.tcb),
           NEW now \in SeqNum, Emits(c, r, now) \/ EmitsFin(c, r, now)
    PROVE  \A p \in r.out \cup Pkts(r.tcb.retx) : p \in Pkts(c.retx) \/ p.sack = {}
<1>1. CASE Emits(c, r, now)
  <2>1. PICK n \in 0 .. Len(c.send_buf) : \E E : EmitsBy(c, r, n, E, now)
    BY <1>1 DEF Emits
  <2>2. PICK E : EmitsBy(c, r, n, E, now)
    BY <2>1
  <2>3. /\ Emission(c, n, E, now) /\ Thins(c.retx \cup E, r.tcb.retx, {}) /\ r.out \subseteq Pkts(c.retx \cup E)
    BY <2>2 DEF EmitsBy
  <2>4. Pkts(r.tcb.retx) \subseteq Pkts(c.retx \cup E)
    BY <2>3, ThinsPkts
  <2>5. \A t \in E : t.pkt.sack = {}
    BY <2>3 DEF Emission, Cuts
  <2> QED BY <2>3, <2>4, <2>5 DEF Pkts
<1>2. CASE EmitsFin(c, r, now)
  <2>1. r.tcb.retx = c.retx \cup {FinEntry(c, now)} /\ r.out = {Fin(c, now)}
    BY <1>2 DEF EmitsFin
  <2>2. Fin(c, now).sack = {} /\ FinEntry(c, now).pkt = Fin(c, now)
    BY DEF Fin, FinEntry, segment
  <2> HIDE DEF Fin, FinEntry
  <2> QED BY <2>1, <2>2 DEF Pkts
<1> QED BY <1>1, <1>2

\* The numbers of a direction.
LEMMA WayNumbers ==
    ASSUME NEW i \in SeqNum, NEW j \in SeqNum, NEW w \in Nat, w + 3 < Half, NEW c, NEW d, NEW Q, NEW rcvd,
           Direction(i, j, w, c, d, Q, rcvd), c # NoConn
    PROVE  /\ Wire(w, c) \in Nat /\ Wire(w, c) + 3 < Half /\ NxtPos(i, c) \in Nat /\ NxtPos(i, c) >= Wire(w, c) + 1
           /\ NxtPos(i, c) < Half /\ c.retx \in SUBSET Unacked
           /\ \A p \in Q \cup Packets(c) : p \in Segment /\ Genuine(i, Wire(w, c), NxtPos(i, c), p)
           /\ Knows(d) => ConnOK(d) /\ Receiving(i, Wire(w, c), NxtPos(i, c), d, rcvd)
<1>1. Sending(i, w, c)
  BY DEF Direction
<1> DEFINE S == Wire(w, c)
           N == NxtPos(i, c)
           l == Len(c.send_buf)
<1>2. S = w - l
  BY DEF Wire
<1>3. /\ l \in Nat /\ l <= w /\ N \in Nat /\ c.retx \in SUBSET Unacked /\ N <= w - l + 2 /\ N >= w - l + 1
  BY <1>1, SendingNumbers DEF NxtPos
<1>4. \A p \in Q \cup Packets(c) : p \in Segment /\ Genuine(i, S, N, p)
  BY DEF Direction, Genuine
<1>5. Knows(d) => ConnOK(d) /\ Receiving(i, S, N, d, rcvd)
  BY DEF Direction
<1> HIDE DEF S, N, l
<1>6. S \in Nat /\ S + 3 < Half /\ N >= S + 1 /\ N < Half
  BY <1>2, <1>3, CircleIs
<1> QED BY <1>3, <1>4, <1>5, <1>6 DEF S, N

\* The sender's queue thins, by true blocks.
LEMMA ThinsReliable ==
    ASSUME NEW i \in SeqNum, NEW j \in SeqNum, NEW w \in Nat, w + 3 < Half, NEW c, NEW d, NEW Q, NEW Q2, NEW B, NEW B2,
           NEW rcvd, Direction(i, j, w, c, d, Q, rcvd), c # NoConn, Reliable(i, c, d, Q, B),
           NEW c2, ConnOK(c2), Queued(c2), c2.nxt = c.nxt,
           NEW K \in SUBSET SackBlock, \A b \in K : Block(i, NxtPos(i, c), d, b), Thins(c.retx, c2.retx, K),
           NEW O, Q2 \subseteq Q \cup O, \A p \in O : p \in Pkts(c.retx) \/ p.data = << >>,
           B2 \subseteq B, WellFormed(B \cup Packets(d))
    PROVE  Reliable(i, c2, d, Q2, B2)
<1> DEFINE N == NxtPos(i, c)
           P == Q \cup Packets(c)
           P2 == Q2 \cup Packets(c2)
<1>1. N \in Nat /\ N < Half /\ c.retx \in SUBSET Unacked
  BY WayNumbers
<1>2. c2 # NoConn /\ NxtPos(i, c2) = N /\ c2.retx \in SUBSET Unacked
  BY ConnIsNot DEF NxtPos, ConnOK, Connection
<1>3. /\ \A s \in c.retx : Entry(i, N, d, s)
      /\ Alike(P) /\ (Knows(d) => Fits(P, d))
  BY DEF Reliable
<1>4. \A s \in c2.retx : Entry(i, N, d, s)
  <2> HIDE DEF N
  <2>1. \A b \in K : Block(i, N, d, b)
    BY DEF N
  <2> QED BY <1>1, <1>2, <1>3, <2>1, ThinsEntries
<1>5. Packets(c2) \subseteq Packets(c)
  BY <1>2, ThinsPkts DEF Packets
<1>6. \A p \in P2 : p \in P \/ p.data = << >>
  BY <1>5 DEF Packets
<1> HIDE DEF P, P2
<1>7. Alike(P2)
  BY <1>3, <1>6 DEF Alike
<1>8. Knows(d) => Fits(P2, d)
  BY <1>3, <1>6 DEF Fits
<1>9. N <= N
  <2> HIDE DEF N
  <2> QED BY <1>1
<1>10. /\ NxtPos(i, c) \in Nat /\ NxtPos(i, c2) \in Nat /\ NxtPos(i, c) <= NxtPos(i, c2)
       /\ \A s \in c2.retx : Entry(i, NxtPos(i, c2), d, s)
  BY <1>1, <1>2, <1>4, <1>9
<1>11. Alike(Q2 \cup Packets(c2)) /\ (Knows(d) => Fits(Q2 \cup Packets(c2), d))
  BY <1>7, <1>8 DEF P2
<1> QED BY <1>10, <1>11, SenderReliable

\* The sender has no connection yet, and the receiver, who waits for it, has sent no block.
LEMMA NobodyReliable ==
    ASSUME NEW i, NEW d, NEW d2, ~Knows(d2), NEW B, NEW B2, NEW Q, Reliable(i, NoConn, d, Q, B), ~Knows(d),
           NEW Q2, Q2 \subseteq Q,
           \A p \in B2 \cup Packets(d2) : p \in B \cup Packets(d) \/ p.sack = {}
    PROVE  Reliable(i, NoConn, d2, Q2, B2)
<1>1. \A p \in B \cup Packets(d) : p.sack = {}
  BY DEF Reliable, Block
<1>2. \A p \in B2 \cup Packets(d2) : p.sack = {}
  BY <1>1
<1>3. Alike(Q2 \cup Packets(NoConn))
  BY DEF Reliable, Alike
<1> QED BY <1>2, <1>3 DEF Reliable

\* The sender opens.
LEMMA OpensReliable ==
    ASSUME NEW i \in SeqNum, NEW c, NEW d, ~Knows(d), NEW p, Opened(c, i, p), Queued(c), NEW Q2, Q2 \subseteq {p},
           NEW B2, \A q \in B2 \cup Packets(d) : q.sack = {}
    PROVE  Reliable(i, c, d, Q2, B2)
<1> DEFINE t == SynEntry(i, p)
<1>1. c # NoConn /\ c.retx = {t} /\ p.data = << >> /\ c.nxt = wrapping_add(i, 1)
  BY ConnIsNot DEF Opened
<1>2. t.start = i /\ t.end = wrapping_add(i, 1) /\ t.pkt = p /\ ~t.sacked
  BY DEF SynEntry
<1>3. wrapping_sub(i, i) = 0 /\ wrapping_sub(wrapping_add(i, 1), i) = 1
  <2>1. wrapping_sub(i, i) = 0
    BY SubIs, CircleIs
  <2>2. 1 < SeqMod
    BY CircleIs
  <2> QED BY <2>1, <2>2, PosAdd
<1> HIDE DEF t
<1>4. Entry(i, NxtPos(i, c), d, t)
  BY <1>1, <1>2, <1>3 DEF Entry, NxtPos
<1>5. Q2 \cup Packets(c) \subseteq {p}
  BY <1>1, <1>2 DEF Packets, Pkts
<1>6. Alike(Q2 \cup Packets(c))
  BY <1>1, <1>5 DEF Alike
<1> QED BY <1>1, <1>4, <1>6 DEF Reliable

\* The channels shrink, and nothing happens otherwise.
LEMMA ShrinkReliable ==
    ASSUME NEW i, NEW c, NEW d, NEW Q, NEW Q2, NEW B, NEW B2, Reliable(i, c, d, Q, B), Q2 \subseteq Q, B2 \subseteq B
    PROVE  Reliable(i, c, d, Q2, B2)
<1>1. Q2 \cup Packets(c) \subseteq Q \cup Packets(c)
  OBVIOUS
<1>2. Alike(Q2 \cup Packets(c)) /\ (Knows(d) => Fits(Q2 \cup Packets(c), d))
  BY <1>1, FewerFit DEF Reliable
<1>3. \A p \in B2 \cup Packets(d) : p \in B \cup Packets(d)
  OBVIOUS
<1> QED BY <1>2, <1>3 DEF Reliable

\* The receiver takes a segment and answers.
LEMMA IngestsReliable ==
    ASSUME NEW i \in SeqNum, NEW j \in SeqNum, NEW w \in Nat, w + 3 < Half, NEW c, NEW d, NEW Q, NEW Q2, NEW B, NEW B2,
           NEW rcvd \in Seq(Nat), Direction(i, j, w, c, d, Q, rcvd), c # NoConn, Reliable(i, c, d, Q, B), Knows(d),
           NEW s \in Q, NEW r, NEW now, Ingests(d, s, r, now), ConnOK(r.tcb), Knows(r.tcb),
           NEW rcvd2, Len(rcvd2) \in Nat, Receiving(i, Wire(w, c), NxtPos(i, c), r.tcb, rcvd2),
           Q2 \subseteq Q, B2 \subseteq B \cup r.out, WellFormed(B \cup Packets(d))
    PROVE  Reliable(i, c, r.tcb, Q2, B2)
<1> DEFINE S == Wire(w, c)
           N == NxtPos(i, c)
           d2 == r.tcb
           P == Q \cup Packets(c)
<1>1. /\ S \in Nat /\ S + 3 < Half /\ N \in Nat /\ N >= S + 1 /\ c.retx \in SUBSET Unacked
      /\ ConnOK(d) /\ Receiving(i, S, N, d, rcvd) /\ \A p \in P : p \in Segment /\ Genuine(i, S, N, p)
  BY WayNumbers
<1>2. Alike(P) /\ Fits(P, d)
  BY DEF Reliable
<1>3. Receives(d, s, d2, r.data) /\ Thins(d.retx, d2.retx, s.sack) /\ Replies(d, d2, r.out, now)
  BY DEF Ingests, Acks
<1>4. \A p \in P : p.seq \in SeqNum
  BY <1>1, SegmentFields
<1>5. s \in P /\ Genuine(i, S, N, s) /\ Receiving(i, S, N, d2, rcvd2) /\ ConnOK(d2) /\ Knows(d2) /\ d # NoConn
  BY <1>1 DEF Knows
<1> HIDE DEF S, N, P, d2
<1>6. Keeps(i, d, d2) /\ Fits(P, d2)
  BY <1>1, <1>2, <1>3, <1>4, <1>5, ReceivesKeeps
<1>7. Packets(d2) \subseteq Packets(d)
  BY <1>3, <1>5, ThinsPkts DEF Packets
<1>8. \A b \in sack_blocks(d2.reasm) : Block(i, N, d2, b)
  BY <1>1, <1>5, SackBlocksTrue
<1>9. \A p \in B2 \cup Packets(d2) : p \in B \cup Packets(d) \/ \A b \in p.sack : Block(i, N, d2, b)
  <2> SUFFICES ASSUME NEW p \in B2, p \notin B PROVE p \in Packets(d) \/ \A b \in p.sack : Block(i, N, d2, b)
    BY <1>7
  <2>1. p \in r.out
    OBVIOUS
  <2>2. CASE r.out \subseteq Pkts(d.retx)
    BY <1>5, <2>1, <2>2 DEF Packets
  <2>3. CASE \E q : r.out = {q} /\ IsAck(d2, now, q)
    <3>1. p.sack \subseteq sack_blocks(d2.reasm)
      BY <2>1, <2>3 DEF IsAck
    <3> QED BY <1>8, <3>1
  <2> QED BY <1>3, <2>2, <2>3 DEF Replies
<1>10. Knows(d2) => Fits(Q \cup Packets(c), d2)
  BY <1>6 DEF P
<1>11. Reliable(i, c, d2, Q2, B2)
  BY <1>1, <1>6, <1>9, <1>10, ReceiverReliable DEF N
<1> QED BY <1>11 DEF d2

\* The receiver learns the sequence space.
LEMMA BeginsReliable ==
    ASSUME NEW i \in SeqNum, NEW j \in SeqNum, NEW w \in Nat, w + 3 < Half, NEW c, NEW d, NEW Q, NEW Q2, NEW B, NEW B2,
           NEW rcvd, Direction(i, j, w, c, d, Q, rcvd), c # NoConn, Reliable(i, c, d, Q, B), ~Knows(d),
           NEW s, NEW d2, Begun(d2, s), Q2 \subseteq Q, WellFormed(B \cup Packets(d)),
           \A p \in B2 \cup Packets(d2) : p \in B \cup Packets(d) \/ p.sack \subseteq sack_blocks(d2.reasm)
    PROVE  Reliable(i, c, d2, Q2, B2)
<1>1. NxtPos(i, c) \in Nat /\ c.retx \in SUBSET Unacked
  BY WayNumbers
<1>2. Keeps(i, d, d2)
  BY IgnorantKeeps
<1>3. d2.reasm.frags = {}
  BY DEF Begun, NewReassembler
<1>4. Fits(Q \cup Packets(c), d2)
  BY <1>3 DEF Fits
<1>5. sack_blocks(d2.reasm) = {}
  BY <1>3 DEF sack_blocks
<1>6. \A p \in B2 \cup Packets(d2) : p \in B \cup Packets(d) \/ \A b \in p.sack : Block(i, NxtPos(i, c), d2, b)
  BY <1>5
<1> QED BY <1>1, <1>2, <1>4, <1>6, ReceiverReliable

\* The receiver does something else.
LEMMA IdlesReliable ==
    ASSUME NEW i \in SeqNum, NEW j \in SeqNum, NEW w \in Nat, w + 3 < Half, NEW c, NEW d, NEW Q, NEW Q2, NEW B, NEW B2,
           NEW rcvd, Direction(i, j, w, c, d, Q, rcvd), Reliable(i, c, d, Q, B),
           NEW d2, SameReceiver(d, d2), Knows(d) <=> Knows(d2), Q2 \subseteq Q, WellFormed(B \cup Packets(d)),
           \A p \in B2 \cup Packets(d2) : p \in B \cup Packets(d) \/ p.sack = {}
    PROVE  Reliable(i, c, d2, Q2, B2)
<1>1. CASE c = NoConn
  <2>1. ~Knows(d) /\ ~Knows(d2)
    BY <1>1 DEF Direction
  <2> QED BY <1>1, <2>1, NobodyReliable
<1>2. CASE c # NoConn
  <2>1. NxtPos(i, c) \in Nat /\ c.retx \in SUBSET Unacked
    BY <1>2, WayNumbers
  <2> DEFINE P == Q \cup Packets(c)
  <2>2. Keeps(i, d, d2) /\ (Fits(P, d) <=> Fits(P, d2))
    BY SameKeeps
  <2>3. Knows(d2) => Fits(P, d2)
    BY <2>2 DEF Reliable
  <2>4. \A p \in B2 \cup Packets(d2) : p \in B \cup Packets(d) \/ \A b \in p.sack : Block(i, NxtPos(i, c), d2, b)
    OBVIOUS
  <2> QED BY <1>2, <2>1, <2>2, <2>3, <2>4, ReceiverReliable
<1> QED BY <1>1, <1>2

\* The second invariant of the stream that e sends.
Trust(e) == Reliable(Iss[e], conn[e], conn[Peer(e)], InNet(net[Peer(e)]), InNet(net[e]))

\* Both directions again.
LEMMA AssembleTrust == ASSUME NEW e \in Endpoint, Trust(e)', Trust(Peer(e))' PROVE \A x \in Endpoint : Trust(x)'
<1>1. \A x \in Endpoint : x = e \/ x = Peer(e)
  BY Two
<1> QED BY <1>1

\* What comes back to e is made of segments.
LEMMA BackWellFormed ==
    ASSUME PairInv, NEW e \in Endpoint
    PROVE  WellFormed(InNet(net[e]) \cup Packets(conn[Peer(e)]))
<1> DEFINE f == Peer(e)
<1>1. f \in Endpoint /\ Peer(f) = e
  BY Two
<1>2. Direction(Iss[f], Iss[e], written[f], conn[f], conn[e], InNet(net[e]), received[e])
  BY <1>1 DEF PairInv, Way
<1> HIDE DEF f
<1>3. \A p \in InNet(net[e]) \cup Packets(conn[f]) : p \in Segment
  BY <1>2 DEF Direction, Genuine
<1>4. WellFormed(InNet(net[e]) \cup Packets(conn[f]))
  BY <1>3, SegmentsWellFormed
<1> QED BY <1>4 DEF f

\* Both directions, as formulas about the values.
LEMMA TrustFacts ==
    ASSUME ShortStreams, PairInv, \A x \in Endpoint : Trust(x), NEW e \in Endpoint, NEW f, f = Peer(e)
    PROVE  /\ f \in Endpoint /\ f # e /\ Peer(f) = e
           /\ Iss[e] \in SeqNum /\ written[e] \in Nat /\ written[e] + 3 < Half
           /\ Iss[f] \in SeqNum /\ written[f] \in Nat /\ written[f] + 3 < Half
           /\ received[e] \in Seq(Nat) /\ received[f] \in Seq(Nat) /\ clock[e] \in SeqNum
           /\ Direction(Iss[e], Iss[f], written[e], conn[e], conn[f], InNet(net[f]), received[f])
           /\ Direction(Iss[f], Iss[e], written[f], conn[f], conn[e], InNet(net[e]), received[e])
           /\ Reliable(Iss[e], conn[e], conn[f], InNet(net[f]), InNet(net[e]))
           /\ Reliable(Iss[f], conn[f], conn[e], InNet(net[e]), InNet(net[f]))
           /\ WellFormed(InNet(net[e]) \cup Packets(conn[f]))
           /\ WellFormed(InNet(net[f]) \cup Packets(conn[e]))
<1>1. f \in Endpoint /\ f # e /\ Peer(f) = e
  BY Two
<1>2. /\ Iss[e] \in SeqNum /\ written[e] \in Nat /\ written[e] + 3 < Half
      /\ Iss[f] \in SeqNum /\ written[f] \in Nat /\ written[f] + 3 < Half
      /\ received[e] \in Seq(Nat) /\ received[f] \in Seq(Nat) /\ clock[e] \in SeqNum
  BY <1>1, SideFacts
<1>3. /\ Direction(Iss[e], Iss[f], written[e], conn[e], conn[f], InNet(net[f]), received[f])
      /\ Direction(Iss[f], Iss[e], written[f], conn[f], conn[e], InNet(net[e]), received[e])
  BY <1>1 DEF PairInv, Way
<1>4. /\ Reliable(Iss[e], conn[e], conn[f], InNet(net[f]), InNet(net[e]))
      /\ Reliable(Iss[f], conn[f], conn[e], InNet(net[e]), InNet(net[f]))
  BY <1>1 DEF Trust
<1>5. /\ WellFormed(InNet(net[e]) \cup Packets(conn[f]))
      /\ WellFormed(InNet(net[f]) \cup Packets(conn[e]))
  BY <1>1, BackWellFormed
<1> QED BY <1>1, <1>2, <1>3, <1>4, <1>5

\* Trust survives what a connection sends of its own accord.
LEMMA OwnTrust ==
    ASSUME ShortStreams, PairInv, \A x \in Endpoint : Trust(x), NEW e \in Endpoint, NEW r, NEW now, OwnStep(e, r, now)
    PROVE  \A x \in Endpoint : Trust(x)'
<1> DEFINE f == Peer(e)
           c == conn[e]
           d == conn[f]
<1>1. /\ Live(e) /\ ConnOK(r.tcb) /\ now \in SeqNum
      /\ Emits(c, r, now) \/ EmitsFin(c, r, now)
      /\ Queued(c) => Queued(r.tcb)
      /\ conn' = [conn EXCEPT ![e] = r.tcb] /\ Sends(e, r.out, net)
  BY DEF OwnStep
<1>2. /\ f \in Endpoint /\ f # e /\ Peer(f) = e
      /\ Iss[e] \in SeqNum /\ written[e] \in Nat /\ written[e] + 3 < Half
      /\ Iss[f] \in SeqNum /\ written[f] \in Nat /\ written[f] + 3 < Half
      /\ Direction(Iss[e], Iss[f], written[e], c, d, InNet(net[f]), received[f])
      /\ Direction(Iss[f], Iss[e], written[f], d, c, InNet(net[e]), received[e])
      /\ Reliable(Iss[e], c, d, InNet(net[f]), InNet(net[e]))
      /\ Reliable(Iss[f], d, c, InNet(net[e]), InNet(net[f]))
      /\ WellFormed(InNet(net[e]) \cup Packets(d)) /\ WellFormed(InNet(net[f]) \cup Packets(c))
  BY TrustFacts
<1>3. c # NoConn /\ r.tcb # NoConn /\ net \in [Endpoint -> Seq(Segment)] /\ PairTypes
  BY <1>1, ConnIsNot DEF Live, PairInv, PairTypes
<1>4. Sending(Iss[e], written[e], c) /\ \A p \in Pkts(c.retx) : p \in Segment
  BY <1>1, SideFacts
<1>5. /\ IsFiniteSet(r.out) /\ r.out \subseteq Segment
      /\ SameReceiver(c, r.tcb) /\ (Knows(c) <=> Knows(r.tcb))
  <2> HIDE DEF f, c
  <2> QED BY <1>1, <1>2, <1>4, EmitsOut
<1>6. net'[e] = net[e] /\ InNet(net'[f]) \subseteq InNet(net[f]) \cup r.out
  BY <1>1, <1>3, <1>5, SendsIs
<1>7. conn'[e] = r.tcb /\ conn'[f] = d
  BY <1>1, <1>3, ConnChanges
<1> HIDE DEF f, c, d
<1>8. \A p \in r.out \cup Pkts(r.tcb.retx) : p \in Pkts(c.retx) \/ p.sack = {}
  BY <1>1, <1>2, <1>4, EmitsPlain
<1>9. Queued(r.tcb)
  BY <1>1, <1>2, <1>3 DEF Reliable
<1>10. Reliable(Iss[e], r.tcb, d, InNet(net'[f]), InNet(net'[e]))
  <2>1. InNet(net'[e]) \subseteq InNet(net[e])
    BY <1>6
  <2> QED BY <1>1, <1>2, <1>3, <1>6, <1>9, <2>1, EmitsReliable
<1>11. Reliable(Iss[f], d, r.tcb, InNet(net'[e]), InNet(net'[f]))
  <2>1. \A p \in InNet(net'[f]) \cup Packets(r.tcb) : p \in InNet(net[f]) \cup Packets(c) \/ p.sack = {}
    BY <1>3, <1>6, <1>8 DEF Packets
  <2>2. InNet(net'[e]) \subseteq InNet(net[e])
    BY <1>6
  <2> QED BY <1>2, <1>5, <2>1, <2>2, IdlesReliable
<1>12. Trust(e)'
  BY <1>7, <1>10 DEF Trust, f
<1>13. Trust(f)'
  BY <1>2, <1>7, <1>11 DEF Trust
<1> QED BY <1>12, <1>13, AssembleTrust DEF f

\* Trust survives a datagram that is taken, if both directions do.
LEMMA TakesTrust ==
    ASSUME PairInv, NEW e \in Endpoint, NEW i \in DOMAIN net[e], NEW dup \in BOOLEAN,
           NEW c, ConnOK(c), NEW out, IsFiniteSet(out), out \subseteq Segment,
           conn' = [conn EXCEPT ![e] = c], Sends(e, out, Left(e, i, dup)), NEW f, f = Peer(e),
           \A Q, B : Q \subseteq InNet(net[f]) \cup out /\ B \subseteq InNet(net[e]) => Reliable(Iss[e], c, conn[f], Q, B),
           \A Q, B : Q \subseteq InNet(net[e]) /\ B \subseteq InNet(net[f]) \cup out => Reliable(Iss[f], conn[f], c, Q, B)
    PROVE  \A x \in Endpoint : Trust(x)'
<1> DEFINE q == Left(e, i, dup)
<1>1. f \in Endpoint /\ f # e /\ Peer(f) = e
  BY Two
<1>2. PairTypes /\ net \in [Endpoint -> Seq(Segment)]
  BY DEF PairInv, PairTypes
<1>3. /\ q \in [Endpoint -> Seq(Segment)] /\ q[f] = net[f] /\ InNet(q[e]) \subseteq InNet(net[e])
  BY <1>2, LeftIs
<1>4. /\ net'[e] = q[e] /\ InNet(net'[f]) \subseteq InNet(q[f]) \cup out
  <2> HIDE DEF q
  <2>1. Sends(e, out, q)
    BY DEF q
  <2> QED BY <1>3, <2>1, SendsIs
<1> HIDE DEF q
<1>5. conn'[e] = c /\ conn'[f] = conn[f]
  BY <1>2, ConnChanges
<1>6. InNet(net'[f]) \subseteq InNet(net[f]) \cup out /\ InNet(net'[e]) \subseteq InNet(net[e])
  BY <1>3, <1>4
<1>7. Reliable(Iss[e], c, conn[f], InNet(net'[f]), InNet(net'[e]))
  BY <1>6
<1>8. Reliable(Iss[f], conn[f], c, InNet(net'[e]), InNet(net'[f]))
  BY <1>6
<1>9. Trust(e)'
  BY <1>5, <1>7 DEF Trust
<1>10. Trust(f)'
  BY <1>1, <1>5, <1>8 DEF Trust
<1> QED BY <1>9, <1>10, AssembleTrust

\* A datagram is lost.
LEMMA LoseTrust ==
    ASSUME ShortStreams, PairInv, \A x \in Endpoint : Trust(x), NEW e \in Endpoint, NEW i \in DOMAIN net[e], Lose(e, i)
    PROVE  \A x \in Endpoint : Trust(x)'
<1> DEFINE f == Peer(e)
<1>1. net' = [net EXCEPT ![e] = Without(net[e], i)] /\ conn' = conn
  BY DEF Lose
<1>2. net \in [Endpoint -> Seq(Segment)]
  BY DEF PairInv, PairTypes
<1>3. /\ f \in Endpoint /\ f # e /\ Peer(f) = e
      /\ Reliable(Iss[e], conn[e], conn[f], InNet(net[f]), InNet(net[e]))
      /\ Reliable(Iss[f], conn[f], conn[e], InNet(net[e]), InNet(net[f]))
  BY TrustFacts
<1>4. InNet(Without(net[e], i)) \subseteq InNet(net[e])
  BY <1>2, WithoutIs
<1>5. net'[f] = net[f] /\ InNet(net'[e]) \subseteq InNet(net[e])
  BY <1>1, <1>2, <1>3, <1>4
<1> HIDE DEF f
<1>6. /\ Reliable(Iss[e], conn[e], conn[f], InNet(net[f]), InNet(net'[e]))
      /\ Reliable(Iss[f], conn[f], conn[e], InNet(net'[e]), InNet(net[f]))
  BY <1>3, <1>5, ShrinkReliable
<1>7. Trust(e)'
  BY <1>1, <1>5, <1>6 DEF Trust, f
<1>8. Trust(f)'
  BY <1>1, <1>3, <1>5, <1>6 DEF Trust
<1> QED BY <1>7, <1>8, AssembleTrust DEF f

\* The sender's part of what e makes of a datagram: its queue thins, by the blocks of the datagram.
LEMMA TakenThins ==
    ASSUME NEW e \in Endpoint, ConnOK(conn[e]), NEW s \in Segment, NEW r, NEW now, Taken(e, s, r, now)
    PROVE  /\ r.tcb.nxt = conn[e].nxt
           /\ \E K : K \subseteq s.sack /\ Thins(conn[e].retx, r.tcb.retx, K)
           /\ \A p \in r.out : p \in Pkts(conn[e].retx) \/ p.data = << >>
           /\ \A p \in r.out : p \in Pkts(conn[e].retx) \/ p.sack \subseteq sack_blocks(r.tcb.reasm)
           /\ Pkts(r.tcb.retx) \subseteq Pkts(conn[e].retx)
<1> DEFINE c == conn[e]
<1>1. CASE Idles(c, r)
  <2>1. r.tcb.nxt = c.nxt /\ r.tcb.retx = c.retx /\ r.out = {}
    BY <1>1 DEF Idles, SameSender
  <2>2. Thins(c.retx, r.tcb.retx, {})
    BY <2>1, ThinsReflexive
  <2> QED BY <2>1, <2>2
<1>2. CASE Completes(c, s, r, now)
  <2>1. r.tcb.nxt = c.nxt /\ Thins(c.retx, r.tcb.retx, {}) /\ \E p : r.out = {p} /\ IsAck(r.tcb, now, p)
    BY <1>2 DEF Completes
  <2>2. \A p \in r.out : p.data = << >> /\ p.sack \subseteq sack_blocks(r.tcb.reasm)
    BY <2>1 DEF IsAck
  <2>3. Pkts(r.tcb.retx) \subseteq Pkts(c.retx)
    BY <2>1, ThinsPkts
  <2> QED BY <2>1, <2>2, <2>3
<1>3. CASE Ingests(c, s, r, now)
  <2>1. r.tcb.nxt = c.nxt /\ Thins(c.retx, r.tcb.retx, s.sack) /\ Replies(c, r.tcb, r.out, now)
    BY <1>3 DEF Ingests, SameSender, Acks
  <2>2. \A p \in r.out : p \in Pkts(c.retx) \/ (p.data = << >> /\ p.sack \subseteq sack_blocks(r.tcb.reasm))
    BY <2>1 DEF Replies, IsAck
  <2>3. Pkts(r.tcb.retx) \subseteq Pkts(c.retx)
    BY <2>1, ThinsPkts
  <2> QED BY <2>1, <2>2, <2>3
<1> QED BY <1>1, <1>2, <1>3 DEF Taken

\* on_segment.
LEMMA IngestTrust ==
    ASSUME ShortStreams, PairInv, PairInv', \A x \in Endpoint : Trust(x), NEW e \in Endpoint, NEW i \in DOMAIN net[e],
           NEW dup \in BOOLEAN, NEW r, TakeStep(e, i, dup, r)
    PROVE  \A x \in Endpoint : Trust(x)'
<1> DEFINE f == Peer(e)
           s == net[e][i]
           c == conn[e]
           d == conn[f]
<1>1. /\ Live(e) /\ ConnOK(r.tcb) /\ Taken(e, s, r, clock[e]) /\ (Queued(c) => Queued(r.tcb))
      /\ conn' = [conn EXCEPT ![e] = r.tcb] /\ Sends(e, r.out, Left(e, i, dup)) /\ UNCHANGED << scenario, written, clock >>
  BY DEF TakeStep
<1>2. /\ f \in Endpoint /\ f # e /\ Peer(f) = e
      /\ Iss[e] \in SeqNum /\ written[e] \in Nat /\ written[e] + 3 < Half
      /\ Iss[f] \in SeqNum /\ written[f] \in Nat /\ written[f] + 3 < Half /\ received[e] \in Seq(Nat)
      /\ Direction(Iss[e], Iss[f], written[e], c, d, InNet(net[f]), received[f])
      /\ Direction(Iss[f], Iss[e], written[f], d, c, InNet(net[e]), received[e])
      /\ Reliable(Iss[e], c, d, InNet(net[f]), InNet(net[e]))
      /\ Reliable(Iss[f], d, c, InNet(net[e]), InNet(net[f]))
      /\ WellFormed(InNet(net[e]) \cup Packets(d)) /\ WellFormed(InNet(net[f]) \cup Packets(c))
  BY TrustFacts
<1>3. s \in Segment /\ s \in InNet(net[e]) /\ d # NoConn
  BY ArrivesGenuine
<1>4. c # NoConn /\ r.tcb # NoConn /\ PairTypes
  BY <1>1, ConnIsNot DEF Live, PairInv
<1>5. ConnOK(c) /\ (\A p \in Pkts(c.retx) : p \in Segment) /\ IsFiniteSet(c.retx) /\ clock[e] \in SeqNum
  BY <1>1, SideFacts DEF Sending
<1>6. /\ r.tcb.nxt = c.nxt
      /\ \E K : K \subseteq s.sack /\ Thins(c.retx, r.tcb.retx, K)
      /\ \A p \in r.out : p \in Pkts(c.retx) \/ p.data = << >>
      /\ \A p \in r.out : p \in Pkts(c.retx) \/ p.sack \subseteq sack_blocks(r.tcb.reasm)
      /\ Pkts(r.tcb.retx) \subseteq Pkts(c.retx)
  <2> HIDE DEF s, f
  <2> QED BY <1>1, <1>3, <1>5, TakenThins
<1>7. conn'[e] = r.tcb /\ conn'[f] = d
  BY <1>1, <1>4, ConnChanges
<1>8. /\ Knows(r.tcb) => Receiving(Iss[f], Wire(written[f], d), NxtPos(Iss[f], d), r.tcb, received'[e])
      /\ Len(received'[e]) \in Nat
  <2>1. Direction(Iss[f], Iss[e], written'[f], conn'[f], conn'[e], InNet(net'[e]), received'[e])
    <3>1. Way(f)'
      BY <1>2 DEF PairInv
    <3> QED BY <1>2, <3>1 DEF Way
  <2>2. written'[f] = written[f]
    BY <1>1
  <2>3. received' \in [Endpoint -> Seq(Nat)]
    BY DEF PairInv, PairTypes
  <2>4. received'[e] \in Seq(Nat)
    BY <2>3
  <2> QED BY <1>7, <2>1, <2>2, <2>4, LenProperties DEF Direction
<1> HIDE DEF f, s, c, d
<1>9. ASSUME NEW Q, NEW B, Q \subseteq InNet(net[f]) \cup r.out, B \subseteq InNet(net[e])
      PROVE  Reliable(Iss[e], r.tcb, d, Q, B)
  <2>1. PICK K : K \subseteq s.sack /\ Thins(c.retx, r.tcb.retx, K)
    BY <1>6
  <2>2. K \in SUBSET SackBlock
    BY <1>2, <1>3, <2>1 DEF WellFormed
  <2>3. \A b \in K : Block(Iss[e], NxtPos(Iss[e], c), d, b)
    BY <1>2, <1>3, <2>1 DEF Reliable
  <2>4. Queued(r.tcb)
    BY <1>1, <1>2, <1>4 DEF Reliable
  <2> QED BY <1>1, <1>2, <1>4, <1>6, <1>9, <2>1, <2>2, <2>3, <2>4, ThinsReliable, ZenonT(40)
<1>10. ASSUME NEW Q, NEW B, Q \subseteq InNet(net[e]), B \subseteq InNet(net[f]) \cup r.out
       PROVE  Reliable(Iss[f], d, r.tcb, Q, B)
  <2>1. \A p \in B \cup Packets(r.tcb) :
           p \in InNet(net[f]) \cup Packets(c) \/ (p \in r.out /\ p \notin Pkts(c.retx))
    BY <1>4, <1>6, <1>10 DEF Packets
  <2>2. CASE c.state = "SynSent" /\ Idles(c, r)
    <3>1. SameReceiver(c, r.tcb) /\ r.out = {} /\ (Knows(c) <=> Knows(r.tcb))
      BY <1>4, <2>2 DEF Idles, SameRest, Knows
    <3>2. \A p \in B \cup Packets(r.tcb) : p \in InNet(net[f]) \cup Packets(c) \/ p.sack = {}
      BY <2>1, <3>1
    <3> QED BY <1>2, <1>10, <3>1, <3>2, IdlesReliable
  <2>3. CASE c.state = "SynSent" /\ Completes(c, s, r, clock[e])
    <3>1. ~Knows(c) /\ ~c.peer_fin /\ c.pending_fin = NoFin
      BY <1>2, <1>4, <2>3 DEF Knows, Direction
    <3>2. Begun(r.tcb, s)
      BY <1>1, <2>3, <3>1 DEF Completes, Begun
    <3>3. \A p \in B \cup Packets(r.tcb) :
             p \in InNet(net[f]) \cup Packets(c) \/ p.sack \subseteq sack_blocks(r.tcb.reasm)
      BY <1>6, <2>1
    <3> QED BY <1>2, <1>3, <1>10, <3>1, <3>2, <3>3, BeginsReliable
  <2>4. CASE c.state # "SynSent" /\ Ingests(c, s, r, clock[e])
    <3>1. Knows(c) /\ Knows(r.tcb) /\ Ingests(c, s, r, clock[e])
      BY <1>4, <2>4 DEF Knows, Ingests, MovesBy
    <3> QED BY <1>1, <1>2, <1>3, <1>8, <1>10, <3>1, IngestsReliable
  <2> QED BY <1>1, <2>2, <2>3, <2>4 DEF Taken, c
<1>11. IsFiniteSet(r.out) /\ r.out \subseteq Segment
  <2>1. CASE Idles(c, r)
    BY <2>1, FS_EmptySet DEF Idles
  <2>2. CASE Completes(c, s, r, clock[e])
    <3>1. PICK p : r.out = {p} /\ IsAck(r.tcb, clock[e], p)
      BY <2>2 DEF Completes
    <3>2. IsFiniteSet({p}) /\ p \in Segment
      BY <3>1, FS_Singleton DEF IsAck
    <3> QED BY <3>1, <3>2
  <2>3. CASE Ingests(c, s, r, clock[e])
    BY <1>5, <2>3, RepliesFinite DEF Ingests
  <2> QED BY <1>1, <2>1, <2>2, <2>3 DEF Taken, c
<1>12. f = Peer(e) /\ d = conn[f]
  BY DEF f, d
<1> QED BY <1>1, <1>9, <1>10, <1>11, <1>12, TakesTrust

\* What is open is queued.
LEMMA OpenedQueued == ASSUME NEW i \in SeqNum, NEW c, NEW p, Opened(c, i, p), 1 < Half PROVE Queued(c)
<1>1. c.una = i /\ c.nxt = wrapping_add(i, 1) /\ c.retx = {SynEntry(i, p)}
  BY DEF Opened
<1> QED BY <1>1, OpeningQueued DEF SynEntry

\* TcpListener::poll_accept.
LEMMA PollAcceptTrust ==
    ASSUME ShortStreams, PairInv, \A x \in Endpoint : Trust(x), NEW e \in Endpoint, NEW i \in DOMAIN net[e],
           NEW dup \in BOOLEAN, PollAccept(e, i, dup)
    PROVE  \A x \in Endpoint : Trust(x)'
<1> DEFINE f == Peer(e)
           s == net[e][i]
           d == conn[f]
<1>1. ~Live(e) /\ conn[e] = NoConn /\ PairTypes /\ net \in [Endpoint -> Seq(Segment)]
  BY DEF PollAccept, Ready, Live, PairInv, PairTypes
<1>2. /\ f \in Endpoint /\ f # e /\ Peer(f) = e
      /\ Iss[e] \in SeqNum /\ written[e] \in Nat /\ written[e] + 3 < Half
      /\ Iss[f] \in SeqNum /\ written[f] \in Nat /\ written[f] + 3 < Half /\ clock[e] \in SeqNum
      /\ Direction(Iss[e], Iss[f], written[e], conn[e], d, InNet(net[f]), received[f])
      /\ Direction(Iss[f], Iss[e], written[f], d, conn[e], InNet(net[e]), received[e])
      /\ Reliable(Iss[e], conn[e], d, InNet(net[f]), InNet(net[e]))
      /\ Reliable(Iss[f], d, conn[e], InNet(net[e]), InNet(net[f]))
      /\ WellFormed(InNet(net[e]) \cup Packets(d)) /\ WellFormed(InNet(net[f]) \cup Packets(conn[e]))
  BY TrustFacts
<1>3. s \in Segment /\ s \in InNet(net[e]) /\ d # NoConn
  BY ArrivesGenuine
<1>4. CASE "SYN" \notin s.flags
  <2>1. net' = Left(e, i, dup) /\ conn' = conn
    BY <1>4 DEF PollAccept
  <2>2. net'[f] = net[f] /\ InNet(net'[e]) \subseteq InNet(net[e])
    BY <1>1, <2>1, LeftIs
  <2> HIDE DEF f, d, s
  <2>3. /\ Reliable(Iss[e], conn[e], d, InNet(net[f]), InNet(net'[e]))
        /\ Reliable(Iss[f], d, conn[e], InNet(net'[e]), InNet(net[f]))
    BY <1>2, <2>2, ShrinkReliable
  <2>4. Trust(e)'
    BY <2>1, <2>2, <2>3 DEF Trust, f, d
  <2>5. Trust(f)'
    BY <1>2, <2>1, <2>2, <2>3 DEF Trust, d
  <2> QED BY <2>4, <2>5, AssembleTrust DEF f
<1>5. CASE "SYN" \in s.flags
  <2> DEFINE r == accept(s, Iss[e], clock[e])
  <2>1. conn' = [conn EXCEPT ![e] = r.tcb] /\ Sends(e, r.out, Left(e, i, dup))
    BY <1>5 DEF PollAccept
  <2>4. PICK p : /\ Opened(r.tcb, Iss[e], p) /\ r.out = {p} /\ r.tcb.state = "SynRcvd"
                 /\ r.tcb.rcv_nxt = wrapping_add(s.seq, 1) /\ r.tcb.reasm = NewReassembler(r.tcb.rcv_nxt)
    <3> HIDE DEF s
    <3>1. Accepted(s, Iss[e], clock[e], r)
      BY <1>2, <1>3, AcceptOpens
    <3> QED BY <3>1 DEF Accepted
  <2> HIDE DEF r
  <2>5. /\ ConnOK(r.tcb) /\ ~r.tcb.peer_fin /\ r.tcb.pending_fin = NoFin /\ p \in Segment /\ p.sack = {}
        /\ Pkts(r.tcb.retx) = {p}
    BY <2>4 DEF Opened, Pkts, SynEntry
  <2>6. ~Knows(conn[e]) /\ Begun(r.tcb, s) /\ r.tcb # NoConn
    BY <1>1, <2>4, <2>5, ConnIsNot DEF Knows, Begun
  <2>7. InNet(net[f]) = {} /\ ~Knows(d)
    BY <1>1, <1>2 DEF Direction
  <2>8. Queued(r.tcb)
    <3>1. 1 < Half
      BY <1>2, CircleIs
    <3> QED BY <1>2, <2>4, <3>1, OpenedQueued
  <2> HIDE DEF f, d, s
  <2>9. \A q \in InNet(net[e]) \cup Packets(d) : q.sack = {}
    BY <1>2, <2>7 DEF Reliable, Block
  <2>10. ASSUME NEW Q, NEW B, Q \subseteq InNet(net[f]) \cup r.out, B \subseteq InNet(net[e])
         PROVE  Reliable(Iss[e], r.tcb, d, Q, B)
    <3>1. Q \subseteq {p}
      BY <2>4, <2>7, <2>10
    <3>2. \A q \in B \cup Packets(d) : q.sack = {}
      BY <2>9, <2>10
    <3> QED BY <1>2, <2>4, <2>7, <2>8, <3>1, <3>2, OpensReliable
  <2>11. ASSUME NEW Q, NEW B, Q \subseteq InNet(net[e]), B \subseteq InNet(net[f]) \cup r.out
         PROVE  Reliable(Iss[f], d, r.tcb, Q, B)
    <3>1. \A q \in B \cup Packets(r.tcb) : q.sack = {}
      BY <2>4, <2>5, <2>6, <2>7, <2>11 DEF Packets
    <3>2. \A q \in B \cup Packets(r.tcb) :
             q \in InNet(net[f]) \cup Packets(conn[e]) \/ q.sack \subseteq sack_blocks(r.tcb.reasm)
      BY <3>1
    <3> QED BY <1>2, <1>3, <2>6, <2>11, <3>2, BeginsReliable
  <2>12. IsFiniteSet(r.out) /\ r.out \subseteq Segment
    <3>1. IsFiniteSet({p})
      BY FS_Singleton
    <3> QED BY <2>4, <2>5, <3>1
  <2>13. f = Peer(e) /\ d = conn[f]
    BY DEF f, d
  <2> QED BY <2>1, <2>5, <2>10, <2>11, <2>12, <2>13, TakesTrust
<1> QED BY <1>4, <1>5

\* write leaves what has been sent alone.
LEMMA FeedTrust ==
    ASSUME ShortStreams, PairInv, \A x \in Endpoint : Trust(x), NEW e \in Endpoint, NEW n \in Nat, Feed(e, n)
    PROVE  \A x \in Endpoint : Trust(x)'
<1> DEFINE f == Peer(e)
           b == [i \in 1 .. n |-> written[e] + i]
           c == conn[e]
           c2 == write(c, b)
           d == conn[f]
<1>1. conn' = [conn EXCEPT ![e] = c2] /\ Live(e) /\ net' = net
  <2>1. e \in DOMAIN conn
    BY DEF PairInv, PairTypes
  <2> QED BY <2>1 DEF Feed
<1>2. /\ f \in Endpoint /\ f # e /\ Peer(f) = e
      /\ Iss[e] \in SeqNum /\ written[e] \in Nat /\ written[e] + 3 < Half
      /\ Iss[f] \in SeqNum /\ written[f] \in Nat /\ written[f] + 3 < Half
      /\ Direction(Iss[e], Iss[f], written[e], c, d, InNet(net[f]), received[f])
      /\ Direction(Iss[f], Iss[e], written[f], d, c, InNet(net[e]), received[e])
      /\ Reliable(Iss[e], c, d, InNet(net[f]), InNet(net[e]))
      /\ Reliable(Iss[f], d, c, InNet(net[e]), InNet(net[f]))
      /\ WellFormed(InNet(net[e]) \cup Packets(d)) /\ WellFormed(InNet(net[f]) \cup Packets(c))
  BY TrustFacts
<1>3. c # NoConn /\ ConnOK(c) /\ PairTypes
  BY <1>1, SideFacts DEF Live, PairInv
<1>4. b \in Seq(Byte)
  <2>1. \A k \in 1 .. n : written[e] + k \in Byte
    BY <1>2 DEF Byte
  <2>2. b \in [1 .. n -> Byte]
    BY <2>1
  <2> QED BY <2>2, SeqDef
<1> HIDE DEF b
<1>5. ConnOK(c2)
  BY <1>3, <1>4, WriteType
<1>6. c2.nxt = c.nxt /\ c2.una = c.una /\ c2.retx = c.retx /\ c2.state = c.state /\ SameReceiver(c, c2)
  BY <1>3 DEF write, ConnOK, Connection, SameReceiver
<1>7. conn'[e] = c2 /\ conn'[f] = d
  BY <1>1, <1>3, <1>5, ConnChanges
<1> HIDE DEF f, c, c2, d
<1>8. c2 # NoConn /\ (Knows(c) <=> Knows(c2)) /\ Packets(c2) = Packets(c)
  BY <1>3, <1>5, <1>6, ConnIsNot DEF Knows, Packets
<1>9. Queued(c2)
  <2>1. Queued(c)
    BY <1>2, <1>3 DEF Reliable
  <2> QED BY <1>6, <2>1, SameQueued
<1>10. Reliable(Iss[e], c2, d, InNet(net[f]), InNet(net[e]))
  <2> DEFINE O == {}
             K == {}
  <2>1. Thins(c.retx, c2.retx, K)
    BY <1>6, ThinsReflexive
  <2>2. /\ InNet(net[f]) \subseteq InNet(net[f]) \cup O /\ (\A p \in O : p \in Pkts(c.retx) \/ p.data = << >>)
        /\ K \in SUBSET SackBlock /\ \A k \in K : Block(Iss[e], NxtPos(Iss[e], c), d, k)
    OBVIOUS
  <2> HIDE DEF O, K
  <2> DEFINE Q == InNet(net[f])
             B == InNet(net[e])
             j == Iss[f]
             i == Iss[e]
             w == written[e]
  <2>3. /\ i \in SeqNum /\ j \in SeqNum /\ w \in Nat /\ w + 3 < Half /\ Direction(i, j, w, c, d, Q, received[f])
        /\ Reliable(i, c, d, Q, B) /\ Q \subseteq Q \cup O /\ B \subseteq B /\ WellFormed(B \cup Packets(d))
        /\ \A k \in K : Block(i, NxtPos(i, c), d, k)
    BY <1>2, <2>2
  <2> HIDE DEF Q, B, i, j, w
  <2>4. Reliable(i, c2, d, Q, B)
    BY <1>3, <1>5, <1>6, <1>9, <2>1, <2>2, <2>3, ThinsReliable, ZenonT(40)
  <2> QED BY <2>4 DEF Q, B, i
<1>11. Reliable(Iss[f], d, c2, InNet(net[e]), InNet(net[f]))
  <2>1. \A p \in InNet(net[f]) \cup Packets(c2) : p \in InNet(net[f]) \cup Packets(c) \/ p.sack = {}
    BY <1>8
  <2> QED BY <1>2, <1>6, <1>8, <2>1, IdlesReliable
<1>12. Trust(e)'
  BY <1>1, <1>7, <1>10 DEF Trust, f
<1>13. Trust(f)'
  BY <1>1, <1>2, <1>7, <1>11 DEF Trust
<1> QED BY <1>12, <1>13, AssembleTrust DEF f

\* Trust holds initially.
LEMMA TrustInit == ASSUME ShortStreams, Init PROVE \A x \in Endpoint : Trust(x)
<1> DEFINE cl == "client"
           sv == "server"
           r == connect(Iss[cl], 0)
<1>1. cl \in Endpoint /\ sv \in Endpoint /\ Peer(cl) = sv /\ Peer(sv) = cl /\ Endpoint = {cl, sv} /\ cl # sv
  BY DEF Endpoint, Peer
<1>2. Iss[cl] \in SeqNum /\ Iss[sv] \in SeqNum /\ 0 \in SeqNum
  BY <1>1, PairAssumption, CircleIs
<1>3. PICK p : /\ Opened(r.tcb, Iss[cl], p) /\ r.out = {p} /\ r.tcb.state = "SynSent"
  <2>1. Connecting(Iss[cl], 0, r)
    BY <1>2, ConnectOpens
  <2> QED BY <2>1 DEF Connecting
<1>4. (CHOOSE x \in r.out : TRUE) = p
  BY <1>3
<1>5. /\ conn[cl] = r.tcb /\ conn[sv] = NoConn /\ net[sv] = << p >> /\ net[cl] = << >>
  BY <1>1, <1>4 DEF Init
<1> HIDE DEF r
<1>6. InNet(net[sv]) = {p} /\ InNet(net[cl]) = {}
  BY <1>5 DEF InNet
<1>7. Queued(r.tcb)
  <2>1. PairInv
    BY PairInit
  <2>2. written[cl] \in Nat /\ written[cl] + 3 < Half
    BY <1>1, <2>1, SideFacts
  <2>3. 1 < Half
    BY <2>2, CircleIs
  <2> QED BY <1>2, <1>3, <2>3, OpenedQueued
<1>8. ~Knows(NoConn) /\ ~Knows(r.tcb) /\ Packets(NoConn) = {} /\ Packets(r.tcb) \subseteq {p} /\ p.sack = {}
  BY <1>3 DEF Knows, Packets, Opened, Pkts, SynEntry
<1>9. Trust(cl)
  <2>1. Reliable(Iss[cl], r.tcb, NoConn, {p}, {})
    BY <1>2, <1>3, <1>7, <1>8, OpensReliable
  <2> QED BY <1>1, <1>5, <1>6, <2>1 DEF Trust
<1>10. Trust(sv)
  <2>1. Reliable(Iss[sv], NoConn, r.tcb, {}, {p})
    BY <1>8 DEF Reliable, Alike
  <2> QED BY <1>1, <1>5, <1>6, <2>1 DEF Trust
<1> QED BY <1>1, <1>9, <1>10

\* Every step preserves it.
LEMMA TrustNext ==
    ASSUME ShortStreams, PairInv, PairInv', \A x \in Endpoint : Trust(x), [Next]_vars
    PROVE  \A x \in Endpoint : Trust(x)'
<1>1. CASE UNCHANGED vars
  BY <1>1 DEF Trust, vars
<1>2. CASE Next
  <2>1. PICK e \in Endpoint :
              \/ \E i \in DOMAIN net[e] : Lose(e, i)
              \/ \E i \in DOMAIN net[e], dup \in BOOLEAN : PollAccept(e, i, dup)
              \/ \E i \in DOMAIN net[e], dup \in BOOLEAN : Ingest(e, i, dup)
              \/ Live(e) /\ \E R \in SUBSET Holes(conn[e].retx) : PollBegin(e, R)
              \/ PollEnd(e) \/ Feed(e, ChunkSize) \/ Close(e)
    BY <1>2, NextIs
  <2>2. ChunkSize \in Nat
    BY ScenarioIs DEF ChunkSize, PairInv, PairTypes
  <2>3. CASE \E i \in DOMAIN net[e] : Lose(e, i)
    BY <2>3, LoseTrust
  <2>4. CASE \E i \in DOMAIN net[e], dup \in BOOLEAN : PollAccept(e, i, dup)
    BY <2>4, PollAcceptTrust
  <2>5. CASE \E i \in DOMAIN net[e], dup \in BOOLEAN : Ingest(e, i, dup)
    <3>1. PICK i \in DOMAIN net[e], dup \in BOOLEAN : Ingest(e, i, dup)
      BY <2>5
    <3>2. PICK r : TakeStep(e, i, dup, r)
      BY <3>1, IngestIs
    <3> QED BY <3>2, IngestTrust
  <2>6. CASE Live(e) /\ \E R \in SUBSET Holes(conn[e].retx) : PollBegin(e, R)
    <3>1. PICK r, now : OwnStep(e, r, now)
      BY <2>6, PollBeginIs
    <3> QED BY <3>1, OwnTrust
  <2>7. CASE PollEnd(e)
    <3>1. PICK r, now : OwnStep(e, r, now)
      BY <2>7, PollEndIs
    <3> QED BY <3>1, OwnTrust
  <2>8. CASE Feed(e, ChunkSize)
    BY <2>2, <2>8, FeedTrust
  <2>9. CASE Close(e)
    <3>1. PICK r, now : OwnStep(e, r, now)
      BY <2>9, CloseIs
    <3> QED BY <3>1, OwnTrust
  <2> QED BY <2>1, <2>3, <2>4, <2>5, <2>6, <2>7, <2>8, <2>9
<1> QED BY <1>1, <1>2

\* What is not held is in the queue, and is a hole.
LEMMA PairForgetsNothing ==
    ASSUME ShortStreams, PairInv, \A x \in Endpoint : Trust(x)
    PROVE  NothingForgotten
<1> SUFFICES ASSUME NEW e \in Endpoint, Live(e), conn[e].state # "Closed", Synced(Peer(e)),
                    NEW p \in Pos(e, conn[Peer(e)].rcv_nxt) .. Pos(e, conn[e].nxt) - 1
             PROVE  \/ Holds(Peer(e), wrapping_add(Iss[e], p))
                    \/ \E s \in Holes(conn[e].retx) : wrapping_add(Iss[e], p) \in SeqsOf(s)
  BY DEF NothingForgotten
<1> DEFINE f == Peer(e)
           i == Iss[e]
           c == conn[e]
           d == conn[f]
           x == wrapping_add(i, p)
           N == NxtPos(i, c)
           R == RcvPos(i, d)
           u == wrapping_sub(c.una, i)
<1>1. /\ f \in Endpoint /\ Iss[f] \in SeqNum /\ Len(received[f]) \in Nat
      /\ i \in SeqNum /\ written[e] \in Nat /\ written[e] + 3 < Half
      /\ Direction(i, Iss[f], written[e], c, d, InNet(net[f]), received[f])
      /\ Reliable(i, c, d, InNet(net[f]), InNet(net[e]))
  BY TrustFacts, LenProperties
<1>2. c # NoConn /\ Knows(d) /\ R = Pos(e, conn[Peer(e)].rcv_nxt) /\ N = Pos(e, conn[e].nxt)
  BY DEF Live, Synced, Knows, RcvPos, NxtPos, Pos
<1>3. ConnOK(c)
  BY SideFacts
<1>4. c.una \in SeqNum /\ c.nxt \in SeqNum /\ c.state \in State
  BY <1>3 DEF ConnOK, Connection
<1>5. p \in R .. N - 1
  BY <1>2
<1>6. u <= R /\ (c.state \in Done => R = N)
  BY <1>1, <1>2 DEF Direction
<1>7. Queued(c) /\ \A s \in c.retx : Entry(i, N, d, s)
  BY <1>1, <1>2 DEF Reliable
<1> HIDE DEF f, c, d, i
<1>8. N \in Nat /\ N < Half /\ c.retx \in SUBSET Unacked /\ Receiving(i, Wire(written[e], c), N, d, received[f])
  BY <1>1, <1>2, WayNumbers
<1>9. R \in Nat /\ R >= 1
  BY <1>1, <1>2, KnowsPos
<1>10. u \in Nat /\ N = wrapping_sub(c.nxt, i)
  BY <1>1, <1>4, PosNat DEF NxtPos
<1> HIDE DEF N, R, u
<1>11. p \in Nat /\ R <= p /\ p < N /\ p >= 1 /\ p < SeqMod /\ N < SeqMod
  BY <1>5, <1>8, <1>9, CircleIs
<1>12. x \in SeqNum /\ wrapping_sub(x, i) = p
  <2>1. wrapping_sub(i, i) = 0
    BY <1>1, SubIs, CircleIs
  <2>2. wrapping_sub(i, i) + p < SeqMod
    BY <1>11, <2>1
  <2>3. wrapping_sub(wrapping_add(i, p), i) = wrapping_sub(i, i) + p /\ wrapping_add(i, p) \in SeqNum
    BY <1>1, <1>11, <2>2, PosAdd
  <2> QED BY <1>11, <2>1, <2>3
<1> HIDE DEF x
<1>13. c.state \notin Finished
  <2>1. c.state \notin Done
    BY <1>6, <1>8, <1>9, <1>11
  <2>2. c.state # "Closed"
    BY DEF c
  <2> QED BY <2>1, <2>2 DEF Done, Finished
<1>14. wrapping_sub(x, c.una) < flight_size(c)
  <2>1. wrapping_sub(x, c.una) = p - u
    <3>1. wrapping_sub(c.una, i) <= wrapping_sub(x, i)
      BY <1>6, <1>9, <1>10, <1>11, <1>12 DEF u
    <3>2. wrapping_sub(x, c.una) = wrapping_sub(x, i) - wrapping_sub(c.una, i)
      BY <1>1, <1>4, <1>12, <3>1, PosDiff
    <3> QED BY <1>12, <3>2 DEF u
  <2>2. flight_size(c) = N - u
    <3>1. wrapping_sub(c.una, i) <= wrapping_sub(c.nxt, i)
      BY <1>6, <1>8, <1>9, <1>10, <1>11 DEF u
    <3>2. wrapping_sub(c.nxt, c.una) = wrapping_sub(c.nxt, i) - wrapping_sub(c.una, i)
      BY <1>1, <1>4, <3>1, PosDiff
    <3> QED BY <1>10, <3>2 DEF u, flight_size
  <2> QED BY <1>8, <1>10, <1>11, <2>1, <2>2
<1>15. PICK s \in c.retx : Occupies(s, x)
  BY <1>7, <1>12, <1>13, <1>14 DEF Queued, Covered
<1>16. s \in Unacked /\ Entry(i, N, d, s)
  BY <1>7, <1>8
<1>17. x \in SeqsOf(s)
  BY <1>12, <1>15, <1>16, SeqsAre
<1>18. CASE ~s.sacked
  BY <1>17, <1>18 DEF Holes, x, c, i
<1>19. CASE s.sacked
  <2> DEFINE a == wrapping_sub(s.start, i)
             b == wrapping_sub(s.end, i)
  <2>1. s.start \in SeqNum /\ s.end \in SeqNum
    BY <1>16 DEF Unacked
  <2>2. a \in Nat /\ b \in Nat
    BY <1>1, <2>1, PosNat
  <2>3. a < b /\ b <= N /\ GotAll(i, d, a, b)
    BY <1>16, <1>19 DEF Entry
  <2>4. /\ wrapping_sub(x, s.start) = IF a <= p THEN p - a ELSE (p - a) + SeqMod
        /\ wrapping_sub(s.end, s.start) = IF a <= b THEN b - a ELSE (b - a) + SeqMod
    BY <1>1, <1>12, <2>1, PosDiff
  <2>5. wrapping_sub(x, s.start) < wrapping_sub(s.end, s.start)
    BY <1>15 DEF Occupies
  <2> HIDE DEF a, b
  <2>6. wrapping_sub(s.end, s.start) = b - a
    BY <2>2, <2>3, <2>4
  <2>7. a <= p /\ p < b
    <3>1. SeqMod \in Nat
      BY CircleIs
    <3>2. CASE a <= p
      BY <1>11, <2>2, <2>4, <2>5, <2>6, <3>2
    <3>3. CASE ~(a <= p)
      <4>1. (p - a) + SeqMod < b - a
        BY <2>4, <2>5, <2>6, <3>3
      <4> QED BY <1>8, <1>11, <2>2, <2>3, <3>1, <4>1
    <3> QED BY <3>2, <3>3
  <2>8. Got(i, d, p)
    BY <1>11, <2>3, <2>7 DEF GotAll
  <2>9. p - 1 \in Offsets(d.reasm.frags)
    <3>1. ~(p < R)
      BY <1>9, <1>11
    <3> QED BY <2>8, <3>1 DEF Got, R
  <2>10. PICK g \in d.reasm.frags : p - 1 \in FragOffsets(g)
    BY <2>9 DEF Offsets
  <2>11. wrapping_sub(x, d.reasm.base) = p - 1
    <3>1. d.reasm.base = wrapping_add(i, 1)
      BY <1>8 DEF Receiving
    <3> QED BY <1>1, <1>11, <1>12, <3>1, PosOff
  <2>12. Holds(f, x)
    BY <2>10, <2>11 DEF Holds, d
  <2> QED BY <2>12 DEF f, x, i
<1> QED BY <1>18, <1>19

(***************************************************************************)
(* NothingForgotten for every value of the constants: whatever is lost,    *)
(* duplicated or reordered, a byte (or SYN or FIN) that has been sent and  *)
(* that the peer neither delivered nor holds ahead of a gap is in          *)
(* RetxQueue without a SACK mark, so that on_tick can resend it.           *)
(***************************************************************************)
THEOREM NothingForgottenHolds == ASSUME ShortStreams PROVE Spec => []NothingForgotten
<1> DEFINE Inv == PairInv /\ \A x \in Endpoint : Trust(x)
<1>1. Init => Inv
  BY PairInit, TrustInit
<1>2. Inv /\ [Next]_vars => Inv'
  <2> SUFFICES ASSUME Inv, [Next]_vars PROVE Inv'
    OBVIOUS
  <2>1. PairInv'
    BY PairNext
  <2>2. \A x \in Endpoint : Trust(x)'
    BY <2>1, TrustNext
  <2> QED BY <2>1, <2>2
<1>3. Inv => NothingForgotten
  BY PairForgetsNothing
<1> QED BY <1>1, <1>2, <1>3, PTL DEF Spec

-----------------------------------------------------------------------------
(* Timestamps *)

\* The queue of c, which may not be open yet.
Entries(c) == IF c # NoConn THEN c.retx ELSE {}

\* No queued packet from position x on has a timestamp older than ts.
NoneOlder(i, c, x, ts) ==
    \A s \in Entries(c) : "TS" \in s.pkt.opts /\ x <= wrapping_sub(s.start, i) => ts <= s.pkt.tsval

(***************************************************************************)
(* The third invariant of a direction; now is the clock of c.  A segment   *)
(* that starts before a queued packet was stamped before it, and so was    *)
(* whatever TS.Recent was taken from.                                      *)
(***************************************************************************)
Timely(i, c, d, Q, now) ==
    /\ c = NoConn => now = 0
    /\ \A p \in Q \cup Packets(c) : p.tsval <= now /\ NoneOlder(i, c, wrapping_sub(p.seq, i), p.tsval)
    /\ d # NoConn => d.ts_recent <= now /\ NoneOlder(i, c, RcvPos(i, d), d.ts_recent)
    /\ d # NoConn /\ ~Knows(d) => d.ts_recent = 0

\* p has just been stamped and starts at position N or later.
Late(i, N, now, p) == p.tsval <= now /\ wrapping_sub(p.seq, i) >= N

\* The entry t is one of c's, or has just been stamped.
KeptOrNew(c, t, now) ==
    \/ \E s \in Entries(c) : t.start = s.start /\ t.pkt = s.pkt
    \/ "TS" \in t.pkt.opts => t.pkt.tsval = now

\* Sequence numbers and timestamps are numbers.
LEMMA StampIs == ASSUME NEW i \in SeqNum, NEW p \in Segment PROVE p.tsval \in Nat /\ wrapping_sub(p.seq, i) \in Nat
<1>1. p.tsval \in SeqNum /\ p.seq \in SeqNum
  BY DEF Segment
<1>2. p.tsval \in Nat
  BY <1>1, CircleIs
<1> QED BY <1>1, <1>2, PosNat

\* The sender takes a step.
LEMMA SenderTimely ==
    ASSUME NEW i \in SeqNum, NEW c, NEW c2, NEW d, NEW Q, NEW Q2, NEW now \in Nat, NEW now2 \in Nat, now <= now2,
           Timely(i, c, d, Q, now), c2 # NoConn, NEW N \in Nat,
           \A s \in Entries(c) : wrapping_sub(s.start, i) \in Nat /\ wrapping_sub(s.start, i) < N,
           \A t \in c2.retx : KeptOrNew(c, t, now2),
           \A p \in Q2 \cup Packets(c2) : p \in Segment /\ (p \in Q \cup Packets(c) \/ Late(i, N, now2, p)),
           d # NoConn => d.ts_recent \in Nat
    PROVE  Timely(i, c2, d, Q2, now2)
<1>1. Entries(c2) = c2.retx
  BY DEF Entries
<1>2. ASSUME NEW p \in Q2 \cup Packets(c2) PROVE p.tsval \in Nat /\ p.tsval <= now2 /\ wrapping_sub(p.seq, i) \in Nat
  <2>1. p.tsval \in Nat /\ wrapping_sub(p.seq, i) \in Nat
    BY StampIs
  <2>2. CASE p \in Q \cup Packets(c)
    <3>1. p.tsval <= now
      BY <2>2 DEF Timely
    <3> QED BY <2>1, <3>1
  <2>3. CASE Late(i, N, now2, p)
    BY <2>1, <2>3 DEF Late
  <2> QED BY <2>1, <2>2, <2>3
<1>3. ASSUME NEW x, NEW ts, NoneOlder(i, c, x, ts), ts <= now2 PROVE NoneOlder(i, c2, x, ts)
  BY <1>1, <1>3 DEF NoneOlder, KeptOrNew
<1>4. ASSUME NEW p \in Q2 \cup Packets(c2), p \notin Q \cup Packets(c)
      PROVE  NoneOlder(i, c, wrapping_sub(p.seq, i), p.tsval)
  <2>1. wrapping_sub(p.seq, i) >= N /\ wrapping_sub(p.seq, i) \in Nat
    BY <1>2, <1>4 DEF Late
  <2> QED BY <2>1 DEF NoneOlder
<1>5. \A p \in Q2 \cup Packets(c2) : p.tsval <= now2 /\ NoneOlder(i, c2, wrapping_sub(p.seq, i), p.tsval)
  <2> SUFFICES ASSUME NEW p \in Q2 \cup Packets(c2)
               PROVE  p.tsval <= now2 /\ NoneOlder(i, c2, wrapping_sub(p.seq, i), p.tsval)
    OBVIOUS
  <2>1. NoneOlder(i, c, wrapping_sub(p.seq, i), p.tsval)
    BY <1>4 DEF Timely
  <2> QED BY <1>2, <1>3, <2>1
<1>6. ASSUME d # NoConn PROVE d.ts_recent <= now2 /\ NoneOlder(i, c2, RcvPos(i, d), d.ts_recent)
  <2>1. d.ts_recent <= now /\ NoneOlder(i, c, RcvPos(i, d), d.ts_recent) /\ d.ts_recent \in Nat
    BY <1>6 DEF Timely
  <2>2. d.ts_recent <= now2
    BY <2>1
  <2> QED BY <1>3, <2>1, <2>2
<1> QED BY <1>5, <1>6 DEF Timely

\* TS.Recent of d2 is that of d, or of a segment that came no later than RCV.NXT.
Refreshes(i, d, d2, Q) ==
    \/ /\ d # NoConn /\ d2.ts_recent = d.ts_recent
       /\ RcvPos(i, d) \in Nat /\ RcvPos(i, d) <= RcvPos(i, d2)
    \/ \E p \in Q : /\ d2.ts_recent = p.tsval /\ wrapping_sub(p.seq, i) \in Nat
                    /\ wrapping_sub(p.seq, i) <= RcvPos(i, d2)

\* The receiver takes a step.
LEMMA ReceiverTimely ==
    ASSUME NEW i \in SeqNum, NEW c, NEW d, NEW d2, NEW Q, NEW Q2, Q2 \subseteq Q, NEW now, Timely(i, c, d, Q, now),
           \A s \in Entries(c) : wrapping_sub(s.start, i) \in Nat,
           RcvPos(i, d2) \in Nat, Refreshes(i, d, d2, Q), Knows(d2) \/ d2.ts_recent = 0
    PROVE  Timely(i, c, d2, Q2, now)
<1>1. d2.ts_recent <= now /\ NoneOlder(i, c, RcvPos(i, d2), d2.ts_recent)
  <2>1. ASSUME NEW x \in Nat, NEW ts, x <= RcvPos(i, d2), NoneOlder(i, c, x, ts)
        PROVE  NoneOlder(i, c, RcvPos(i, d2), ts)
    BY <2>1 DEF NoneOlder
  <2>2. CASE /\ d # NoConn /\ d2.ts_recent = d.ts_recent
             /\ RcvPos(i, d) \in Nat /\ RcvPos(i, d) <= RcvPos(i, d2)
    <3>1. d.ts_recent <= now /\ NoneOlder(i, c, RcvPos(i, d), d.ts_recent)
      BY <2>2 DEF Timely
    <3> QED BY <2>1, <2>2, <3>1
  <2>3. ASSUME NEW p \in Q, d2.ts_recent = p.tsval, wrapping_sub(p.seq, i) \in Nat, wrapping_sub(p.seq, i) <= RcvPos(i, d2)
        PROVE  d2.ts_recent <= now /\ NoneOlder(i, c, RcvPos(i, d2), d2.ts_recent)
    <3>1. p.tsval <= now /\ NoneOlder(i, c, wrapping_sub(p.seq, i), p.tsval)
      BY DEF Timely
    <3> QED BY <2>1, <2>3, <3>1
  <2> QED BY <2>2, <2>3 DEF Refreshes
<1>2. c = NoConn => now = 0
  BY DEF Timely
<1>3. \A p \in Q2 \cup Packets(c) : p.tsval <= now /\ NoneOlder(i, c, wrapping_sub(p.seq, i), p.tsval)
  BY DEF Timely
<1> QED BY <1>1, <1>2, <1>3 DEF Timely

\* A stamped packet is no younger than its stamp.
LEMMA StampedBy ==
    ASSUME NEW c, NEW now \in Nat, NEW p, Stamped(c, now, p)
    PROVE  p.tsval <= now /\ ("TS" \in p.opts => p.tsval = now)
BY DEF Stamped

\* The packets that thin a queue keep their places and stamps.
LEMMA ThinsKept ==
    ASSUME NEW c, c # NoConn, NEW r, NEW B, Thins(c.retx, r, B), NEW now, NEW t \in r
    PROVE  KeptOrNew(c, t, now)
BY DEF Thins, KeptOrNew, Entries

\* What a connection sends of its own accord carries the time, or is sent again.
LEMMA EmitsTimes ==
    ASSUME NEW i \in SeqNum, NEW w \in Nat, w + 3 < Half, NEW c, Sending(i, w, c), c # NoConn, NEW r, ConnOK(r.tcb),
           NEW now \in Nat, Emits(c, r, now) \/ EmitsFin(c, r, now)
    PROVE  /\ \A t \in r.tcb.retx : KeptOrNew(c, t, now)
           /\ \A p \in r.out \cup Pkts(r.tcb.retx) : p \in Pkts(c.retx) \/ Late(i, NxtPos(i, c), now, p)
<1> DEFINE N == NxtPos(i, c)
           S == w - Len(c.send_buf)
<1>0. N \in Nat /\ Len(c.send_buf) \in Nat /\ Entries(c) = c.retx
  BY SendingNumbers DEF NxtPos, Entries
<1>1. CASE Emits(c, r, now)
  <2>1. PICK n \in 0 .. Len(c.send_buf) : \E E : EmitsBy(c, r, n, E, now)
    BY <1>1 DEF Emits
  <2>2. PICK E : EmitsBy(c, r, n, E, now)
    BY <2>1
  <2>3. EmitsTo(i, w, c, r.tcb, n, E)
    BY <2>2, EmitsSending
  <2>4. E # {} => NxtPos(i, c) = w - Len(c.send_buf) + 1
    BY <2>3 DEF EmitsTo, NxtPos
  <2>5. /\ Emission(c, n, E, now) /\ Thins(c.retx \cup E, r.tcb.retx, {}) /\ r.out \subseteq Pkts(c.retx \cup E)
    BY <2>2 DEF EmitsBy
  <2>6. ASSUME NEW t \in E PROVE Late(i, N, now, t.pkt) /\ ("TS" \in t.pkt.opts => t.pkt.tsval = now)
    <3>1. PICK k : Cuts(c, now, t, k) /\ k + Len(t.pkt.data) <= n
      BY <2>5 DEF Emission
    <3>2. NewAt(i, c, t, k)
      <4>1. NxtPos(i, c) = w - Len(c.send_buf) + 1
        BY <2>4
      <4> QED BY <3>1, <4>1, CutNumbers
    <3>3. t.pkt.tsval <= now /\ ("TS" \in t.pkt.opts => t.pkt.tsval = now)
      <4>1. Stamped(c, now, t.pkt)
        BY <3>1 DEF Cuts
      <4> QED BY <4>1, StampedBy
    <3>4. wrapping_sub(t.pkt.seq, i) >= N
      <4>1. wrapping_sub(t.pkt.seq, i) = N + k /\ k \in Nat
        BY <3>2 DEF NewAt
      <4> HIDE DEF N
      <4> QED BY <1>0, <4>1
    <3> QED BY <3>3, <3>4 DEF Late
  <2>7. ASSUME NEW t \in r.tcb.retx PROVE KeptOrNew(c, t, now)
    <3>1. PICK s \in c.retx \cup E : t.start = s.start /\ t.pkt = s.pkt
      BY <2>5 DEF Thins
    <3>2. CASE s \in c.retx
      BY <1>0, <3>1, <3>2 DEF KeptOrNew
    <3>3. CASE s \in E
      BY <2>6, <3>1, <3>3 DEF KeptOrNew
    <3> QED BY <3>2, <3>3
  <2>8. Pkts(r.tcb.retx) \subseteq Pkts(c.retx \cup E)
    BY <2>5, ThinsPkts
  <2>9. \A p \in Pkts(c.retx \cup E) : p \in Pkts(c.retx) \/ Late(i, N, now, p)
    BY <2>6 DEF Pkts
  <2> QED BY <2>5, <2>7, <2>8, <2>9
<1>2. CASE EmitsFin(c, r, now)
  <2>1. r.tcb.retx = c.retx \cup {FinEntry(c, now)} /\ r.out = {Fin(c, now)}
    BY <1>2 DEF EmitsFin
  <2>2. FinEntry(c, now).pkt = Fin(c, now) /\ Fin(c, now).seq = c.nxt /\ Stamped(c, now, Fin(c, now))
    BY DEF Fin, FinEntry, segment, Stamped
  <2> HIDE DEF Fin, FinEntry
  <2>3. /\ Fin(c, now).tsval <= now /\ ("TS" \in Fin(c, now).opts => Fin(c, now).tsval = now)
    BY <2>2, StampedBy
  <2>4. Late(i, N, now, Fin(c, now))
    BY <1>0, <2>2, <2>3 DEF Late, NxtPos
  <2>5. ASSUME NEW t \in r.tcb.retx PROVE KeptOrNew(c, t, now)
    BY <1>0, <2>1, <2>2, <2>3 DEF KeptOrNew
  <2>6. Pkts(r.tcb.retx) = Pkts(c.retx) \cup {Fin(c, now)}
    BY <2>1, <2>2 DEF Pkts
  <2> QED BY <2>1, <2>4, <2>5, <2>6
<1> QED BY <1>1, <1>2

\* What a connection answers carries the time, or is sent again.
LEMMA TakenTimes ==
    ASSUME NEW i \in SeqNum, NEW e \in Endpoint, ConnOK(conn[e]), conn[e] # NoConn, NEW s \in Segment, NEW r,
           NEW now \in Nat, Taken(e, s, r, now)
    PROVE  /\ \A t \in r.tcb.retx : KeptOrNew(conn[e], t, now)
           /\ \A p \in r.out \cup Pkts(r.tcb.retx) : p \in Pkts(conn[e].retx) \/ Late(i, NxtPos(i, conn[e]), now, p)
<1> DEFINE c == conn[e]
<1>1. /\ r.tcb.nxt = c.nxt
      /\ \E K : Thins(c.retx, r.tcb.retx, K)
      /\ Pkts(r.tcb.retx) \subseteq Pkts(c.retx)
  BY TakenThins
<1>2. NxtPos(i, c) \in Nat
  BY PosNat DEF ConnOK, Connection, NxtPos
<1>3. \A p \in r.out : p \in Pkts(c.retx) \/ IsAck(r.tcb, now, p)
  <2>1. CASE Idles(c, r)
    BY <2>1 DEF Idles
  <2>2. CASE Completes(c, s, r, now)
    BY <2>2 DEF Completes
  <2>3. CASE Ingests(c, s, r, now)
    BY <2>3 DEF Ingests, Replies
  <2> QED BY <2>1, <2>2, <2>3 DEF Taken
<1> HIDE DEF c
<1>4. ASSUME NEW p, IsAck(r.tcb, now, p) PROVE Late(i, NxtPos(i, c), now, p)
  <2>1. p.seq = c.nxt /\ Stamped(r.tcb, now, p)
    BY <1>1, <1>4 DEF IsAck
  <2> QED BY <1>2, <2>1, StampedBy DEF Late, NxtPos
<1>5. \A t \in r.tcb.retx : KeptOrNew(c, t, now)
  BY <1>1, ThinsKept DEF c
<1> QED BY <1>1, <1>3, <1>4, <1>5 DEF c

\* Where the entries of a queue start.
LEMMA EntriesStart ==
    ASSUME NEW i \in SeqNum, NEW c, c # NoConn, c.retx \in SUBSET Unacked, NEW d, NEW Q, NEW B, Reliable(i, c, d, Q, B),
           NxtPos(i, c) \in Nat
    PROVE  \A s \in Entries(c) : wrapping_sub(s.start, i) \in Nat /\ wrapping_sub(s.start, i) < NxtPos(i, c)
<1> SUFFICES ASSUME NEW s \in Entries(c)
             PROVE  wrapping_sub(s.start, i) \in Nat /\ wrapping_sub(s.start, i) < NxtPos(i, c)
  OBVIOUS
<1> DEFINE a == wrapping_sub(s.start, i)
           b == wrapping_sub(s.end, i)
           N == NxtPos(i, c)
<1>1. s \in c.retx /\ s \in Unacked
  BY DEF Entries
<1>2. a \in Nat /\ b \in Nat
  BY <1>1, PosNat DEF Unacked
<1>3. a < b /\ b <= N
  BY <1>1 DEF Reliable, Entry
<1> HIDE DEF a, b
<1>4. a < N
  BY <1>2, <1>3
<1> QED BY <1>2, <1>4 DEF a

\* The third invariant of the stream that e sends.
InTime(e) == Timely(Iss[e], conn[e], conn[Peer(e)], InNet(net[Peer(e)]), clock[e])

\* Where the next packet of c starts.
Front(i, c) == IF c # NoConn THEN NxtPos(i, c) ELSE 0

\* Both directions again.
LEMMA AssembleTime == ASSUME NEW e \in Endpoint, InTime(e)', InTime(Peer(e))' PROVE \A x \in Endpoint : InTime(x)'
<1>1. \A x \in Endpoint : x = e \/ x = Peer(e)
  BY Two
<1> QED BY <1>1

\* The numbers of one side.
LEMMA TimeNumbers ==
    ASSUME ShortStreams, PairInv, \A x \in Endpoint : Trust(x), NEW e \in Endpoint
    PROVE  /\ Front(Iss[e], conn[e]) \in Nat /\ clock[e] \in Nat
           /\ \A s \in Entries(conn[e]) : /\ wrapping_sub(s.start, Iss[e]) \in Nat
                                          /\ wrapping_sub(s.start, Iss[e]) < Front(Iss[e], conn[e])
           /\ conn[e] # NoConn => conn[e].ts_recent \in Nat
<1> DEFINE c == conn[e]
           i == Iss[e]
<1>1. i \in SeqNum /\ written[e] \in Nat /\ clock[e] \in Nat /\ (Live(e) => Sending(i, written[e], c))
  BY SideFacts, CircleIs
<1>2. c # NoConn => c.ts_recent \in Nat
  <2>1. conn \in [Endpoint -> Connection \cup {NoConn}]
    BY DEF PairInv, PairTypes
  <2>2. c # NoConn => c \in Connection
    BY <2>1
  <2>3. c # NoConn => c.ts_recent \in SeqNum
    BY <2>2 DEF Connection
  <2> QED BY <2>3, CircleIs
<1>3. CASE c = NoConn
  <2>1. Front(i, c) = 0 /\ Entries(c) = {}
    BY <1>3 DEF Front, Entries
  <2> QED BY <1>1, <1>2, <2>1
<1>4. CASE c # NoConn
  <2>1. c.retx \in SUBSET Unacked /\ NxtPos(i, c) \in Nat
    BY <1>1, <1>4, SendingNumbers DEF Live, NxtPos
  <2>2. Reliable(i, c, conn[Peer(e)], InNet(net[Peer(e)]), InNet(net[e]))
    BY DEF Trust
  <2>3. Front(i, c) = NxtPos(i, c)
    BY <1>4 DEF Front
  <2> HIDE DEF c, i
  <2>4. \A s \in Entries(c) : wrapping_sub(s.start, i) \in Nat /\ wrapping_sub(s.start, i) < NxtPos(i, c)
    BY <1>1, <1>4, <2>1, <2>2, EntriesStart
  <2> QED BY <1>1, <1>2, <2>1, <2>3, <2>4 DEF c, i
<1> QED BY <1>3, <1>4

\* e takes a step as the sender.
LEMMA SenderInTime ==
    ASSUME ShortStreams, PairInv, PairInv', \A x \in Endpoint : Trust(x), NEW e \in Endpoint, NEW f, f = Peer(e), InTime(e),
           conn'[e] # NoConn, conn'[f] = conn[f], clock[e] <= clock'[e],
           \A t \in conn'[e].retx : KeptOrNew(conn[e], t, clock'[e]),
           \A p \in InNet(net'[f]) \cup Packets(conn'[e]) :
              p \in InNet(net[f]) \cup Packets(conn[e]) \/ Late(Iss[e], Front(Iss[e], conn[e]), clock'[e], p)
    PROVE  InTime(e)'
<1> DEFINE i == Iss[e]
           N == Front(i, conn[e])
<1>1. f \in Endpoint /\ i \in SeqNum
  BY Two, SideFacts
<1>2. /\ N \in Nat /\ clock[e] \in Nat
      /\ \A s \in Entries(conn[e]) : wrapping_sub(s.start, i) \in Nat /\ wrapping_sub(s.start, i) < N
      /\ conn[f] # NoConn => conn[f].ts_recent \in Nat
  BY <1>1, TimeNumbers
<1>3. clock'[e] \in Nat
  <2>1. clock' \in [Endpoint -> 0 .. Half - 1]
    BY DEF PairInv, PairTypes
  <2> QED BY <2>1
<1>4. \A p \in InNet(net'[f]) \cup Packets(conn'[e]) : p \in Segment
  <2>1. Direction(Iss[e], Iss[f], written'[e], conn'[e], conn'[f], InNet(net'[f]), received'[f])
    BY DEF PairInv, Way
  <2> QED BY <2>1 DEF Direction, Genuine
<1>5. Timely(i, conn[e], conn[f], InNet(net[f]), clock[e])
  BY DEF InTime
<1> DEFINE c2 == conn'[e]
           Q2 == InNet(net'[f])
           now2 == clock'[e]
           c == conn[e]
           d == conn[f]
           Q == InNet(net[f])
           now == clock[e]
<1>6. /\ now \in Nat /\ now2 \in Nat /\ now <= now2 /\ Timely(i, c, d, Q, now) /\ c2 # NoConn
      /\ \A s \in Entries(c) : wrapping_sub(s.start, i) \in Nat /\ wrapping_sub(s.start, i) < N
      /\ \A t \in c2.retx : KeptOrNew(c, t, now2)
      /\ \A p \in Q2 \cup Packets(c2) : p \in Segment /\ (p \in Q \cup Packets(c) \/ Late(i, N, now2, p))
      /\ d # NoConn => d.ts_recent \in Nat
  BY <1>2, <1>3, <1>4, <1>5
<1> HIDE DEF c2, Q2, now2, c, d, Q, now, i, N
<1>7. Timely(i, c2, d, Q2, now2)
  BY <1>1, <1>2, <1>6, SenderTimely
<1> QED BY <1>7 DEF InTime, c2, Q2, now2, d, i

\* e takes a step as the receiver.
LEMMA ReceiverInTime ==
    ASSUME ShortStreams, PairInv, PairInv', \A x \in Endpoint : Trust(x), NEW e \in Endpoint, NEW f, f = Peer(e), InTime(f),
           conn'[f] = conn[f], clock'[f] = clock[f], InNet(net'[e]) \subseteq InNet(net[e]),
           Refreshes(Iss[f], conn[e], conn'[e], InNet(net[e])), Knows(conn'[e]) \/ conn'[e].ts_recent = 0
    PROVE  InTime(f)'
<1> DEFINE i == Iss[f]
           c == conn[f]
           d == conn[e]
           d2 == conn'[e]
           Q == InNet(net[e])
           Q2 == InNet(net'[e])
           now == clock[f]
<1>1. f \in Endpoint /\ Peer(f) = e /\ i \in SeqNum
  BY Two, SideFacts
<1>2. \A s \in Entries(c) : wrapping_sub(s.start, i) \in Nat
  BY <1>1, TimeNumbers
<1>3. RcvPos(i, d2) \in Nat
  <2>1. conn' \in [Endpoint -> Connection \cup {NoConn}]
    BY DEF PairInv, PairTypes
  <2>2. d2 # NoConn => d2.rcv_nxt \in SeqNum
    BY <2>1 DEF Connection
  <2> HIDE DEF d2
  <2> QED BY <1>1, <2>2, PosNat DEF RcvPos, Knows
<1>4. Timely(i, c, d, Q, now)
  BY <1>1 DEF InTime
<1>5. Q2 \subseteq Q /\ Refreshes(i, d, d2, Q) /\ (Knows(d2) \/ d2.ts_recent = 0)
  OBVIOUS
<1> HIDE DEF c, d, d2, Q, Q2, now, i
<1>6. Timely(i, c, d2, Q2, now)
  BY <1>1, <1>2, <1>3, <1>4, <1>5, ReceiverTimely
<1> QED BY <1>1, <1>6 DEF InTime, c, d2, Q2, now, i

\* Fewer datagrams on their way.
LEMMA ShrinkTimely ==
    ASSUME NEW i, NEW c, NEW d, NEW Q, NEW Q2, Q2 \subseteq Q, NEW now, Timely(i, c, d, Q, now)
    PROVE  Timely(i, c, d, Q2, now)
BY DEF Timely

\* A connection whose receive side stays as it is.
LEMMA StaysRefreshed ==
    ASSUME ShortStreams, PairInv, NEW e \in Endpoint, NEW f, f = Peer(e), InTime(f), conn[e] # NoConn, NEW c,
           c # NoConn, c.ts_recent = conn[e].ts_recent, c.rcv_nxt = conn[e].rcv_nxt, Knows(conn[e]) <=> Knows(c)
    PROVE  Refreshes(Iss[f], conn[e], c, InNet(net[e])) /\ (Knows(c) \/ c.ts_recent = 0)
<1>1. f \in Endpoint /\ Peer(f) = e
  BY Two
<1>2. RcvPos(Iss[f], conn[e]) \in Nat
  BY SideFacts
<1>3. RcvPos(Iss[f], c) = RcvPos(Iss[f], conn[e])
  BY DEF RcvPos
<1>4. ~Knows(conn[e]) => conn[e].ts_recent = 0
  BY <1>1 DEF InTime, Timely
<1> QED BY <1>2, <1>3, <1>4 DEF Refreshes

\* What a connection sends of its own accord.
LEMMA OwnTime ==
    ASSUME ShortStreams, PairInv, PairInv', \A x \in Endpoint : Trust(x), \A x \in Endpoint : InTime(x),
           NEW e \in Endpoint, NEW r, NEW now, OwnStep(e, r, now)
    PROVE  \A x \in Endpoint : InTime(x)'
<1> DEFINE f == Peer(e)
           c == conn[e]
<1>1. /\ Live(e) /\ ConnOK(r.tcb) /\ now \in SeqNum
      /\ Emits(c, r, now) \/ EmitsFin(c, r, now)
      /\ conn' = [conn EXCEPT ![e] = r.tcb] /\ Sends(e, r.out, net)
      /\ clock[e] <= now /\ clock'[e] = now /\ clock'[f] = clock[f]
  BY DEF OwnStep
<1>2. f \in Endpoint /\ f # e /\ Peer(f) = e /\ InTime(e) /\ InTime(f)
  BY Two
<1>3. c # NoConn /\ r.tcb # NoConn /\ net \in [Endpoint -> Seq(Segment)] /\ PairTypes
  BY <1>1, ConnIsNot DEF Live, PairInv, PairTypes
<1>4. /\ Iss[e] \in SeqNum /\ written[e] \in Nat /\ written[e] + 3 < Half
      /\ Sending(Iss[e], written[e], c) /\ \A p \in Pkts(c.retx) : p \in Segment
  BY <1>1, SideFacts
<1>5. now \in Nat
  BY <1>1, CircleIs
<1>6. conn'[e] = r.tcb /\ conn'[f] = conn[f]
  BY <1>1, <1>3, ConnChanges
<1> HIDE DEF f, c
<1>7. /\ IsFiniteSet(r.out) /\ r.out \subseteq Segment
      /\ SameReceiver(c, r.tcb) /\ (Knows(c) <=> Knows(r.tcb))
  BY <1>1, <1>4, EmitsOut
<1>8. net'[e] = net[e] /\ InNet(net'[f]) \subseteq InNet(net[f]) \cup r.out
  BY <1>1, <1>3, <1>7, SendsIs DEF f
<1>9. /\ \A t \in r.tcb.retx : KeptOrNew(c, t, now)
      /\ \A p \in r.out \cup Pkts(r.tcb.retx) : p \in Pkts(c.retx) \/ Late(Iss[e], NxtPos(Iss[e], c), now, p)
  BY <1>1, <1>3, <1>4, <1>5, EmitsTimes
<1>10. r.tcb.ts_recent = c.ts_recent /\ r.tcb.rcv_nxt = c.rcv_nxt
  <2>1. SameRest(c, r.tcb)
    BY <1>1 DEF Emits, EmitsBy, EmitsFin
  <2> QED BY <2>1 DEF SameRest, SameReceiver
<1>11. InTime(e)'
  <2>1. Front(Iss[e], c) = NxtPos(Iss[e], c) /\ Packets(c) = Pkts(c.retx) /\ Packets(r.tcb) = Pkts(r.tcb.retx)
    BY <1>3 DEF Front, Packets
  <2>2. \A p \in InNet(net'[f]) \cup Packets(conn'[e]) :
           p \in InNet(net[f]) \cup Packets(conn[e]) \/ Late(Iss[e], Front(Iss[e], conn[e]), clock'[e], p)
    BY <1>1, <1>6, <1>8, <1>9, <2>1 DEF c
  <2>3. \A t \in conn'[e].retx : KeptOrNew(conn[e], t, clock'[e])
    BY <1>1, <1>6, <1>9 DEF c
  <2>4. f = Peer(e) /\ conn'[e] # NoConn /\ clock[e] <= clock'[e]
    BY <1>1, <1>3, <1>6 DEF f
  <2> QED BY <1>2, <1>6, <2>2, <2>3, <2>4, SenderInTime
<1>12. InTime(f)'
  <2>1. f = Peer(e) /\ conn[e] # NoConn /\ r.tcb.ts_recent = conn[e].ts_recent /\ r.tcb.rcv_nxt = conn[e].rcv_nxt
        /\ (Knows(conn[e]) <=> Knows(r.tcb))
    BY <1>3, <1>7, <1>10 DEF f, c
  <2>2. Refreshes(Iss[f], conn[e], r.tcb, InNet(net[e])) /\ (Knows(r.tcb) \/ r.tcb.ts_recent = 0)
    BY <1>2, <1>3, <2>1, StaysRefreshed
  <2>3. InNet(net'[e]) \subseteq InNet(net[e])
    BY <1>8
  <2> QED BY <1>1, <1>2, <1>6, <2>1, <2>2, <2>3, ReceiverInTime
<1> QED BY <1>11, <1>12, AssembleTime DEF f

\* The queue and the clocks stay, the datagrams on their way do not grow.
LEMMA ShrinkTime ==
    ASSUME \A x \in Endpoint : InTime(x), conn' = conn, clock' = clock,
           \A x \in Endpoint : InNet(net'[x]) \subseteq InNet(net[x])
    PROVE  \A x \in Endpoint : InTime(x)'
<1> SUFFICES ASSUME NEW e \in Endpoint PROVE InTime(e)'
  OBVIOUS
<1> DEFINE f == Peer(e)
<1>1. f \in Endpoint
  BY Two
<1>2. Timely(Iss[e], conn[e], conn[f], InNet(net[f]), clock[e]) /\ InNet(net'[f]) \subseteq InNet(net[f])
  BY <1>1 DEF InTime
<1> HIDE DEF f
<1>3. Timely(Iss[e], conn[e], conn[f], InNet(net'[f]), clock[e])
  BY <1>2, ShrinkTimely
<1> QED BY <1>3 DEF InTime, f

\* A datagram is lost.
LEMMA LoseTime ==
    ASSUME PairInv, \A x \in Endpoint : InTime(x), NEW e \in Endpoint, NEW i \in DOMAIN net[e], Lose(e, i)
    PROVE  \A x \in Endpoint : InTime(x)'
<1>1. net' = [net EXCEPT ![e] = Without(net[e], i)] /\ conn' = conn /\ clock' = clock
  BY DEF Lose
<1>2. net \in [Endpoint -> Seq(Segment)]
  BY DEF PairInv, PairTypes
<1>3. InNet(Without(net[e], i)) \subseteq InNet(net[e])
  BY <1>2, WithoutIs
<1>4. \A x \in Endpoint : InNet(net'[x]) \subseteq InNet(net[x])
  BY <1>1, <1>2, <1>3
<1> QED BY <1>1, <1>4, ShrinkTime

\* write leaves the queue and the clock alone.
LEMMA FeedTime ==
    ASSUME ShortStreams, PairInv, PairInv', \A x \in Endpoint : Trust(x), \A x \in Endpoint : InTime(x),
           NEW e \in Endpoint, NEW n \in Nat, Feed(e, n)
    PROVE  \A x \in Endpoint : InTime(x)'
<1> DEFINE f == Peer(e)
           b == [i \in 1 .. n |-> written[e] + i]
           c == conn[e]
           c2 == write(c, b)
<1>1. conn' = [conn EXCEPT ![e] = c2] /\ Live(e) /\ net' = net /\ clock' = clock
  <2>1. e \in DOMAIN conn
    BY DEF PairInv, PairTypes
  <2> QED BY <2>1 DEF Feed
<1>2. f \in Endpoint /\ f # e /\ Peer(f) = e /\ InTime(e) /\ InTime(f) /\ clock[e] \in Nat
  BY Two, TimeNumbers
<1>3. c # NoConn /\ ConnOK(c) /\ PairTypes
  BY <1>1, SideFacts DEF Live, PairInv
<1>4. /\ c2.retx = c.retx /\ c2.state = c.state /\ c2.ts_recent = c.ts_recent /\ c2.rcv_nxt = c.rcv_nxt
  BY <1>3 DEF write, ConnOK, Connection
<1>5. conn'[e] = c2 /\ conn'[f] = conn[f] /\ c2 # NoConn
  <2>1. b \in Seq(Byte)
    <3>1. written[e] \in Nat
      BY SideFacts
    <3>2. \A k \in 1 .. n : written[e] + k \in Byte
      BY <3>1 DEF Byte
    <3>3. b \in [1 .. n -> Byte]
      BY <3>2
    <3> QED BY <3>3, SeqDef
  <2> HIDE DEF b
  <2>2. ConnOK(c2)
    BY <1>3, <2>1, WriteType
  <2> QED BY <1>1, <1>3, <2>2, ConnChanges, ConnIsNot
<1> HIDE DEF f, c, c2
<1>6. (Knows(c) <=> Knows(c2)) /\ Packets(c2) = Packets(c)
  BY <1>3, <1>4, <1>5 DEF Knows, Packets
<1>7. InTime(e)'
  <2>1. \A t \in conn'[e].retx : KeptOrNew(conn[e], t, clock'[e])
    BY <1>3, <1>4, <1>5 DEF KeptOrNew, Entries, c
  <2>2. \A p \in InNet(net'[f]) \cup Packets(conn'[e]) : p \in InNet(net[f]) \cup Packets(conn[e])
    BY <1>1, <1>5, <1>6 DEF c
  <2>3. f = Peer(e) /\ conn'[e] # NoConn /\ clock[e] <= clock'[e]
    BY <1>1, <1>2, <1>5 DEF f
  <2> QED BY <1>2, <1>5, <2>1, <2>2, <2>3, SenderInTime
<1>8. InTime(f)'
  <2>1. f = Peer(e) /\ conn[e] # NoConn /\ c2.ts_recent = conn[e].ts_recent /\ c2.rcv_nxt = conn[e].rcv_nxt
        /\ (Knows(conn[e]) <=> Knows(c2))
    BY <1>3, <1>4, <1>6 DEF f, c
  <2>2. Refreshes(Iss[f], conn[e], c2, InNet(net[e])) /\ (Knows(c2) \/ c2.ts_recent = 0)
    BY <1>2, <1>5, <2>1, StaysRefreshed
  <2> QED BY <1>1, <1>2, <1>5, <2>1, <2>2, ReceiverInTime
<1> QED BY <1>7, <1>8, AssembleTime DEF f

\* A SYN tells the receiver where the stream starts.
LEMMA BeginsRefreshed ==
    ASSUME NEW i \in SeqNum, NEW j \in SeqNum, NEW w \in Nat, w + 3 < Half, NEW c, NEW d, NEW d2, NEW Q,
           NEW rcvd, Direction(i, j, w, c, d, Q, rcvd), ~Knows(d), NEW s \in Q, "SYN" \in s.flags, Begun(d2, s),
           d2.ts_recent = s.tsval \/ (d # NoConn /\ d2.ts_recent = d.ts_recent)
    PROVE  Refreshes(i, d, d2, Q) /\ Knows(d2)
<1>1. Knows(d2) /\ RcvPos(i, d2) = 1
  <2>1. AtStart(i, d2)
    BY BeginsDirection
  <2> QED BY <2>1 DEF AtStart
<1>2. wrapping_sub(s.seq, i) = 0
  BY DEF Direction, Genuine
<1>3. RcvPos(i, d) = 0
  BY DEF RcvPos
<1> QED BY <1>1, <1>2, <1>3 DEF Refreshes

\* A segment that a synchronized receiver takes.
LEMMA IngestsRefreshed ==
    ASSUME NEW i \in SeqNum, NEW j \in SeqNum, NEW w \in Nat, w + 3 < Half, NEW c, NEW d, NEW Q, c # NoConn,
           NEW rcvd \in Seq(Nat), Direction(i, j, w, c, d, Q, rcvd), Knows(d), NEW s \in Q, NEW r, NEW now,
           Ingests(d, s, r, now), ConnOK(r.tcb)
    PROVE  Refreshes(i, d, r.tcb, Q) /\ Knows(r.tcb)
<1> DEFINE S == Wire(w, c)
           N == NxtPos(i, c)
           d2 == r.tcb
           x == wrapping_sub(s.seq, i)
           y == wrapping_sub(d.rcv_nxt, i)
           z == wrapping_sub(d2.rcv_nxt, i)
<1>1. /\ Sending(i, w, c) /\ ConnOK(d) /\ Receiving(i, S, N, d, rcvd) /\ Genuine(i, S, N, s)
  BY DEF Direction
<1>2. S \in Nat /\ N \in Nat /\ N >= S + 1 /\ N <= S + 2 /\ S = w - Len(c.send_buf) /\ Len(c.send_buf) \in Nat
  BY <1>1, SendingNumbers DEF Wire, NxtPos
<1>3. s \in Segment /\ s.seq \in SeqNum /\ d.rcv_nxt \in SeqNum /\ d2.rcv_nxt \in SeqNum
  BY <1>1, SegmentFields DEF Genuine, ConnOK, Connection
<1>4. Receives(d, s, d2, r.data) /\ TakesTs(d, s, d2) /\ d2.state # "SynSent"
  BY DEF Ingests, MovesBy
<1>5. Knows(d2)
  BY <1>4, ConnIsNot DEF Knows
<1>6. x \in Nat /\ y \in Nat /\ z \in Nat /\ x <= N
  <2>1. x <= N
    BY <1>1 DEF Genuine
  <2> QED BY <1>3, <2>1, PosNat
<1> HIDE DEF S, N, d2
<1>7. S + 3 < Half /\ S + 2 < Half
  <2> DEFINE L == Len(c.send_buf)
  <2>1. L \in Nat /\ S = w - L /\ S \in Nat
    BY <1>2
  <2> HIDE DEF L, x, y, z
  <2>2. S <= w
    BY <2>1
  <2> QED BY <2>1, <2>2, CircleIs
<1>8. y <= N
  <2>1. Len(rcvd) \in Nat
    BY LenProperties
  <2> QED BY <1>1, <1>2, <2>1, ReceivedWasSent
<1>9. y <= z
  BY <1>1, <1>2, <1>4, <1>7, ReceivesReceiving
<1>10. ~after(s.seq, d.rcv_nxt) => x <= y
  <2>1. x < Half /\ y < Half
    <3> HIDE DEF x, y
    <3> QED BY <1>2, <1>6, <1>7, <1>8, CircleIs
  <2>2. before(d.rcv_nxt, s.seq) <=> y < x
    BY <1>3, <2>1, PosBefore
  <2> QED BY <1>6, <2>2 DEF after
<1>11. RcvPos(i, d) = y /\ RcvPos(i, d2) = z
  BY <1>5 DEF RcvPos
<1>12. d # NoConn
  BY DEF Knows
<1>13. CASE d2.ts_recent = d.ts_recent
  BY <1>6, <1>9, <1>11, <1>12, <1>13, <1>5 DEF Refreshes, d2
<1>14. CASE ~after(s.seq, d.rcv_nxt) /\ d2.ts_recent = s.tsval
  <2>1. x <= z
    <3>1. x <= y
      BY <1>10, <1>14
    <3> HIDE DEF x, y, z
    <3> QED BY <1>6, <1>9, <3>1
  <2> QED BY <1>5, <1>6, <1>11, <1>14, <2>1 DEF Refreshes, d2
<1> QED BY <1>4, <1>13, <1>14 DEF TakesTs

\* A datagram is taken and r sent.
LEMMA TakesTime ==
    ASSUME ShortStreams, PairInv, PairInv', \A x \in Endpoint : Trust(x), \A x \in Endpoint : InTime(x),
           NEW e \in Endpoint, NEW f, f = Peer(e), NEW i \in DOMAIN net[e], NEW dup \in BOOLEAN,
           NEW c, ConnOK(c), NEW out, IsFiniteSet(out), out \subseteq Segment,
           conn' = [conn EXCEPT ![e] = c], Sends(e, out, Left(e, i, dup)),
           clock[e] <= clock'[e], clock'[f] = clock[f],
           \A t \in c.retx : KeptOrNew(conn[e], t, clock'[e]),
           \A p \in out \cup Pkts(c.retx) :
              p \in Packets(conn[e]) \/ Late(Iss[e], Front(Iss[e], conn[e]), clock'[e], p),
           Refreshes(Iss[f], conn[e], c, InNet(net[e])), Knows(c) \/ c.ts_recent = 0
    PROVE  \A x \in Endpoint : InTime(x)'
<1> DEFINE q == Left(e, i, dup)
<1>1. f \in Endpoint /\ f # e /\ Peer(f) = e /\ InTime(e) /\ InTime(f)
  BY Two
<1>2. PairTypes /\ net \in [Endpoint -> Seq(Segment)] /\ c # NoConn
  BY ConnIsNot DEF PairInv, PairTypes
<1>3. /\ q \in [Endpoint -> Seq(Segment)] /\ q[f] = net[f] /\ InNet(q[e]) \subseteq InNet(net[e])
  BY <1>2, LeftIs
<1>4. /\ net'[e] = q[e] /\ InNet(net'[f]) \subseteq InNet(q[f]) \cup out
  <2> HIDE DEF q
  <2>1. Sends(e, out, q)
    BY DEF q
  <2> QED BY <1>3, <2>1, SendsIs
<1> HIDE DEF q
<1>5. conn'[e] = c /\ conn'[f] = conn[f]
  BY <1>2, ConnChanges
<1>6. InNet(net'[f]) \subseteq InNet(net[f]) \cup out /\ InNet(net'[e]) \subseteq InNet(net[e])
  BY <1>3, <1>4
<1>7. InTime(e)'
  <2>1. Packets(c) = Pkts(c.retx)
    BY <1>2 DEF Packets
  <2>2. \A p \in InNet(net'[f]) \cup Packets(conn'[e]) :
           p \in InNet(net[f]) \cup Packets(conn[e]) \/ Late(Iss[e], Front(Iss[e], conn[e]), clock'[e], p)
    BY <1>5, <1>6, <2>1
  <2>3. (\A t \in conn'[e].retx : KeptOrNew(conn[e], t, clock'[e])) /\ conn'[e] # NoConn
    BY <1>2, <1>5
  <2> QED BY <1>1, <1>5, <2>2, <2>3, SenderInTime
<1>8. InTime(f)'
  <2>1. Refreshes(Iss[f], conn[e], conn'[e], InNet(net[e])) /\ (Knows(conn'[e]) \/ conn'[e].ts_recent = 0)
    BY <1>5
  <2> QED BY <1>1, <1>5, <1>6, <2>1, ReceiverInTime
<1> QED BY <1>7, <1>8, AssembleTime

\* on_segment.
LEMMA IngestTime ==
    ASSUME ShortStreams, PairInv, PairInv', \A x \in Endpoint : Trust(x), \A x \in Endpoint : InTime(x),
           NEW e \in Endpoint, NEW i \in DOMAIN net[e], NEW dup \in BOOLEAN, NEW r, TakeStep(e, i, dup, r)
    PROVE  \A x \in Endpoint : InTime(x)'
<1> DEFINE f == Peer(e)
           s == net[e][i]
           c == conn[e]
           d == conn[f]
           now == clock[e]
<1>1. /\ Live(e) /\ ConnOK(r.tcb) /\ Taken(e, s, r, now) /\ clock' = clock
      /\ conn' = [conn EXCEPT ![e] = r.tcb] /\ Sends(e, r.out, Left(e, i, dup))
  BY DEF TakeStep
<1>2. /\ f \in Endpoint /\ f # e /\ Peer(f) = e
      /\ Iss[e] \in SeqNum
      /\ Iss[f] \in SeqNum /\ written[f] \in Nat /\ written[f] + 3 < Half /\ received[e] \in Seq(Nat)
      /\ Direction(Iss[f], Iss[e], written[f], d, c, InNet(net[e]), received[e])
  BY TrustFacts
<1>3. s \in Segment /\ s \in InNet(net[e]) /\ d # NoConn
  BY ArrivesGenuine
<1>4. c # NoConn /\ r.tcb # NoConn /\ InTime(f)
  BY <1>1, <1>2, ConnIsNot DEF Live
<1>5. ConnOK(c) /\ (\A p \in Pkts(c.retx) : p \in Segment) /\ IsFiniteSet(c.retx) /\ now \in Nat
  BY <1>1, SideFacts, TimeNumbers DEF Sending
<1>6. \/ c.state = "SynSent" /\ (Idles(c, r) \/ Completes(c, s, r, now))
      \/ c.state # "SynSent" /\ Ingests(c, s, r, now)
  BY <1>1 DEF Taken
<1>7. /\ \A t \in r.tcb.retx : KeptOrNew(c, t, now)
      /\ \A p \in r.out \cup Pkts(r.tcb.retx) : p \in Pkts(c.retx) \/ Late(Iss[e], NxtPos(Iss[e], c), now, p)
  <2> HIDE DEF s, f, now
  <2> QED BY <1>1, <1>2, <1>3, <1>4, <1>5, TakenTimes
<1>8. Packets(c) = Pkts(c.retx) /\ Front(Iss[e], c) = NxtPos(Iss[e], c)
  BY <1>4 DEF Packets, Front
<1>9. IsFiniteSet(r.out) /\ r.out \subseteq Segment
  <2> HIDE DEF s, f, c, now
  <2>1. CASE Idles(c, r)
    BY <2>1, FS_EmptySet DEF Idles
  <2>2. CASE Completes(c, s, r, now)
    <3>1. PICK p : r.out = {p} /\ IsAck(r.tcb, now, p)
      BY <2>2 DEF Completes
    <3>2. IsFiniteSet({p}) /\ p \in Segment
      BY <3>1, FS_Singleton DEF IsAck
    <3> QED BY <3>1, <3>2
  <2>3. CASE Ingests(c, s, r, now)
    BY <1>5, <2>3, RepliesFinite DEF Ingests
  <2> QED BY <1>6, <2>1, <2>2, <2>3
<1>10. Refreshes(Iss[f], c, r.tcb, InNet(net[e])) /\ (Knows(r.tcb) \/ r.tcb.ts_recent = 0)
  <2>1. CASE c.state = "SynSent" /\ Idles(c, r)
    <3>1. r.tcb.ts_recent = c.ts_recent /\ r.tcb.rcv_nxt = c.rcv_nxt /\ (Knows(c) <=> Knows(r.tcb))
      BY <1>4, <2>1 DEF Idles, SameRest, SameReceiver, Knows
    <3> HIDE DEF s
    <3> QED BY <1>4, <3>1, StaysRefreshed
  <2>2. CASE c.state = "SynSent" /\ Completes(c, s, r, now)
    <3> HIDE DEF s, f, c, d, now
    <3>1. ~Knows(c) /\ ~c.peer_fin /\ c.pending_fin = NoFin
      BY <1>2, <1>4, <2>2 DEF Knows, Direction
    <3>2. Begun(r.tcb, s) /\ "SYN" \in s.flags
      BY <1>1, <2>2, <3>1 DEF Completes, Begun
    <3>3. r.tcb.ts_recent = s.tsval \/ (c # NoConn /\ r.tcb.ts_recent = c.ts_recent)
      BY <1>4, <2>2 DEF Completes
    <3> QED BY <1>2, <1>3, <3>1, <3>2, <3>3, BeginsRefreshed
  <2>3. CASE c.state # "SynSent" /\ Ingests(c, s, r, now)
    <3> HIDE DEF s, f, c, d, now
    <3>1. Knows(c)
      BY <1>4, <2>3 DEF Knows
    <3> QED BY <1>1, <1>2, <1>3, <2>3, <3>1, IngestsRefreshed
  <2> QED BY <1>6, <2>1, <2>2, <2>3
<1>11. /\ clock[e] <= clock'[e] /\ clock'[e] = now /\ clock'[f] = clock[f] /\ f = Peer(e)
  BY <1>1, <1>5
<1>12. /\ \A t \in r.tcb.retx : KeptOrNew(conn[e], t, clock'[e])
       /\ \A p \in r.out \cup Pkts(r.tcb.retx) :
             p \in Packets(conn[e]) \/ Late(Iss[e], Front(Iss[e], conn[e]), clock'[e], p)
       /\ Refreshes(Iss[f], conn[e], r.tcb, InNet(net[e])) /\ (Knows(r.tcb) \/ r.tcb.ts_recent = 0)
  BY <1>7, <1>8, <1>10, <1>11
<1> HIDE DEF f, s, c, d, now
<1> QED BY <1>1, <1>9, <1>11, <1>12, TakesTime

\* TcpListener::poll_accept; the listener's clock has not run yet.
LEMMA PollAcceptTime ==
    ASSUME ShortStreams, PairInv, PairInv', \A x \in Endpoint : Trust(x), \A x \in Endpoint : InTime(x),
           NEW e \in Endpoint, NEW i \in DOMAIN net[e], NEW dup \in BOOLEAN, PollAccept(e, i, dup)
    PROVE  \A x \in Endpoint : InTime(x)'
<1> DEFINE f == Peer(e)
           s == net[e][i]
           d == conn[f]
<1>1. ~Live(e) /\ conn[e] = NoConn /\ PairTypes /\ net \in [Endpoint -> Seq(Segment)]
  BY DEF PollAccept, Ready, Live, PairInv, PairTypes
<1>2. /\ f \in Endpoint /\ f # e /\ Peer(f) = e
      /\ Iss[e] \in SeqNum
      /\ Iss[f] \in SeqNum /\ written[f] \in Nat /\ written[f] + 3 < Half
      /\ Direction(Iss[f], Iss[e], written[f], d, conn[e], InNet(net[e]), received[e])
  BY TrustFacts
<1>3. s \in Segment /\ s \in InNet(net[e])
  BY ArrivesGenuine
<1>4. clock[e] = 0 /\ clock \in [Endpoint -> 0 .. Half - 1]
  <2>1. InTime(e)
    OBVIOUS
  <2> QED BY <1>1, <2>1 DEF InTime, Timely, PairInv, PairTypes
<1>5. CASE "SYN" \notin s.flags
  <2>1. net' = Left(e, i, dup) /\ conn' = conn /\ clock' = clock
    BY <1>5 DEF PollAccept
  <2>2. net'[f] = net[f] /\ InNet(net'[e]) \subseteq InNet(net[e])
    BY <1>1, <2>1, LeftIs
  <2>3. \A x \in Endpoint : InNet(net'[x]) \subseteq InNet(net[x])
    <3>1. \A x \in Endpoint : x = e \/ x = f
      BY Two
    <3> QED BY <2>2, <3>1
  <2> QED BY <2>1, <2>3, ShrinkTime
<1>6. CASE "SYN" \in s.flags
  <2> DEFINE r == accept(s, Iss[e], clock[e])
  <2>1. conn' = [conn EXCEPT ![e] = r.tcb] /\ Sends(e, r.out, Left(e, i, dup)) /\ clock' = [clock EXCEPT ![e] = 0]
    BY <1>6 DEF PollAccept
  <2>2. clock'[e] = 0 /\ clock'[f] = clock[f] /\ clock[e] <= clock'[e]
    BY <1>2, <1>4, <2>1
  <2>3. PICK p : /\ Opened(r.tcb, Iss[e], p) /\ r.out = {p} /\ r.tcb.state = "SynRcvd" /\ Stamped(r.tcb, clock[e], p)
                 /\ r.tcb.rcv_nxt = wrapping_add(s.seq, 1) /\ r.tcb.reasm = NewReassembler(r.tcb.rcv_nxt)
                 /\ r.tcb.ts_recent = s.tsval
    <3> HIDE DEF s
    <3>1. clock[e] \in SeqNum
      BY <1>4, CircleIs
    <3>2. Accepted(s, Iss[e], clock[e], r)
      BY <1>2, <1>3, <3>1, AcceptOpens
    <3> QED BY <3>2 DEF Accepted
  <2> HIDE DEF r, f, d, s
  <2>4. /\ ConnOK(r.tcb) /\ ~r.tcb.peer_fin /\ r.tcb.pending_fin = NoFin /\ p \in Segment /\ p.seq = Iss[e]
        /\ r.tcb.retx = {SynEntry(Iss[e], p)} /\ SynEntry(Iss[e], p).pkt = p
    BY <2>3 DEF Opened, SynEntry
  <2>5. ~Knows(conn[e]) /\ Begun(r.tcb, s)
    BY <1>1, <2>3, <2>4 DEF Knows, Begun
  <2>6. p.tsval <= 0 /\ ("TS" \in p.opts => p.tsval = 0)
    BY <1>4, <2>3, StampedBy
  <2>7. Late(Iss[e], Front(Iss[e], conn[e]), 0, p)
    <3>1. Front(Iss[e], conn[e]) = 0 /\ wrapping_sub(p.seq, Iss[e]) \in Nat
      BY <1>1, <1>2, <2>4, PosNat DEF Front
    <3> QED BY <2>6, <3>1 DEF Late
  <2>8. \A t \in r.tcb.retx : KeptOrNew(conn[e], t, 0)
    BY <2>4, <2>6 DEF KeptOrNew
  <2>9. \A q \in r.out \cup Pkts(r.tcb.retx) : q = p
    BY <2>3, <2>4 DEF Pkts
  <2>10. Refreshes(Iss[f], conn[e], r.tcb, InNet(net[e])) /\ Knows(r.tcb)
    BY <1>2, <1>3, <1>6, <2>3, <2>5, BeginsRefreshed
  <2>11. IsFiniteSet(r.out) /\ r.out \subseteq Segment
    <3>1. IsFiniteSet({p})
      BY FS_Singleton
    <3> QED BY <2>3, <2>4, <3>1
  <2>12. f = Peer(e)
    BY DEF f
  <2>13. /\ \A t \in r.tcb.retx : KeptOrNew(conn[e], t, clock'[e])
         /\ \A q \in r.out \cup Pkts(r.tcb.retx) :
               q \in Packets(conn[e]) \/ Late(Iss[e], Front(Iss[e], conn[e]), clock'[e], q)
    BY <2>2, <2>7, <2>8, <2>9
  <2> QED BY <2>1, <2>2, <2>4, <2>10, <2>11, <2>12, <2>13, TakesTime
<1> QED BY <1>5, <1>6

\* The listener and the stream it accepts have the same clock.
OneClock == \A s \in Scenario : Scenarios[s].listened = 0

\* Every clock starts at 0.
LEMMA TimeInit == ASSUME ShortStreams, OneClock, Init PROVE \A x \in Endpoint : InTime(x)
<1> DEFINE cl == "client"
           sv == "server"
           r == connect(Iss[cl], 0)
<1>1. cl \in Endpoint /\ sv \in Endpoint /\ Peer(cl) = sv /\ Peer(sv) = cl /\ Endpoint = {cl, sv} /\ cl # sv
  BY DEF Endpoint, Peer
<1>2. Iss[cl] \in SeqNum /\ Iss[sv] \in SeqNum /\ 0 \in SeqNum
  BY <1>1, PairAssumption, CircleIs
<1>3. PICK p : /\ Opened(r.tcb, Iss[cl], p) /\ r.out = {p} /\ r.tcb.state = "SynSent" /\ p.tsval = 0 /\ r.tcb.ts_recent = 0
  <2>1. Connecting(Iss[cl], 0, r)
    BY <1>2, ConnectOpens
  <2> QED BY <2>1 DEF Connecting
<1>4. (CHOOSE x \in r.out : TRUE) = p
  BY <1>3
<1>5. /\ conn[cl] = r.tcb /\ conn[sv] = NoConn /\ net[sv] = << p >> /\ net[cl] = << >>
  BY <1>1, <1>4 DEF Init
<1>6. clock[cl] = 0 /\ clock[sv] = 0
  <2>1. scenario \in Scenario /\ clock[cl] = 0 /\ clock[sv] = Listened
    BY <1>1 DEF Init
  <2> QED BY <2>1 DEF OneClock, Listened
<1> HIDE DEF r
<1>7. InNet(net[sv]) = {p} /\ InNet(net[cl]) = {}
  BY <1>5 DEF InNet
<1>8. /\ r.tcb # NoConn /\ r.tcb.retx = {SynEntry(Iss[cl], p)} /\ SynEntry(Iss[cl], p).pkt = p
  BY <1>3, ConnIsNot DEF Opened, SynEntry
<1>9. Entries(r.tcb) = {SynEntry(Iss[cl], p)} /\ Packets(r.tcb) = {p} /\ Entries(NoConn) = {} /\ Packets(NoConn) = {}
  BY <1>8 DEF Entries, Packets, Pkts
<1> HIDE DEF SynEntry
<1>10. InTime(cl)
  <2>1. \A x : NoneOlder(Iss[cl], r.tcb, x, 0)
    BY <1>3, <1>8, <1>9 DEF NoneOlder
  <2>2. Timely(Iss[cl], r.tcb, NoConn, {p}, 0)
    BY <1>3, <1>8, <1>9, <2>1 DEF Timely
  <2> QED BY <1>1, <1>5, <1>6, <1>7, <2>2 DEF InTime
<1>11. InTime(sv)
  <2>1. \A x, ts : NoneOlder(Iss[sv], NoConn, x, ts)
    BY <1>9 DEF NoneOlder
  <2>2. Timely(Iss[sv], NoConn, r.tcb, {}, 0)
    BY <1>3, <1>9, <2>1 DEF Timely
  <2> QED BY <1>1, <1>5, <1>6, <1>7, <2>2 DEF InTime
<1> QED BY <1>1, <1>10, <1>11

\* Every step preserves it.
LEMMA TimeNext ==
    ASSUME ShortStreams, PairInv, PairInv', \A x \in Endpoint : Trust(x), \A x \in Endpoint : InTime(x), [Next]_vars
    PROVE  \A x \in Endpoint : InTime(x)'
<1>1. CASE UNCHANGED vars
  BY <1>1 DEF InTime, vars
<1>2. CASE Next
  <2>1. PICK e \in Endpoint :
              \/ \E i \in DOMAIN net[e] : Lose(e, i)
              \/ \E i \in DOMAIN net[e], dup \in BOOLEAN : PollAccept(e, i, dup)
              \/ \E i \in DOMAIN net[e], dup \in BOOLEAN : Ingest(e, i, dup)
              \/ Live(e) /\ \E R \in SUBSET Holes(conn[e].retx) : PollBegin(e, R)
              \/ PollEnd(e) \/ Feed(e, ChunkSize) \/ Close(e)
    BY <1>2, NextIs
  <2>2. ChunkSize \in Nat
    BY ScenarioIs DEF ChunkSize, PairInv, PairTypes
  <2>3. CASE \E i \in DOMAIN net[e] : Lose(e, i)
    BY <2>3, LoseTime
  <2>4. CASE \E i \in DOMAIN net[e], dup \in BOOLEAN : PollAccept(e, i, dup)
    BY <2>4, PollAcceptTime
  <2>5. CASE \E i \in DOMAIN net[e], dup \in BOOLEAN : Ingest(e, i, dup)
    <3>1. PICK i \in DOMAIN net[e], dup \in BOOLEAN : Ingest(e, i, dup)
      BY <2>5
    <3>2. PICK r : TakeStep(e, i, dup, r)
      BY <3>1, IngestIs
    <3> QED BY <3>2, IngestTime
  <2>6. CASE Live(e) /\ \E R \in SUBSET Holes(conn[e].retx) : PollBegin(e, R)
    <3>1. PICK r, now : OwnStep(e, r, now)
      BY <2>6, PollBeginIs
    <3> QED BY <3>1, OwnTime
  <2>7. CASE PollEnd(e)
    <3>1. PICK r, now : OwnStep(e, r, now)
      BY <2>7, PollEndIs
    <3> QED BY <3>1, OwnTime
  <2>8. CASE Feed(e, ChunkSize)
    BY <2>2, <2>8, FeedTime
  <2>9. CASE Close(e)
    <3>1. PICK r, now : OwnStep(e, r, now)
      BY <2>9, CloseIs
    <3> QED BY <3>1, OwnTime
  <2> QED BY <2>1, <2>3, <2>4, <2>5, <2>6, <2>7, <2>8, <2>9
<1> QED BY <1>1, <1>2

\* Timestamps below half the circle are compared as numbers.
LEMMA StampsCompare ==
    ASSUME NEW x \in Nat, NEW y \in Nat, x < Half, y < Half, y <= x
    PROVE  ~before(x, y)
<1>1. x \in SeqNum /\ y \in SeqNum /\ 0 \in SeqNum
  BY CircleIs
<1>2. wrapping_sub(x, 0) = x /\ wrapping_sub(y, 0) = y
  <2>1. /\ wrapping_sub(x, 0) = IF 0 <= x THEN x - 0 ELSE (x - 0) + SeqMod
        /\ wrapping_sub(y, 0) = IF 0 <= y THEN y - 0 ELSE (y - 0) + SeqMod
    BY <1>1, SubIs
  <2> QED BY <2>1
<1>3. before(x, y) <=> wrapping_sub(x, 0) < wrapping_sub(y, 0)
  BY <1>1, <1>2, PosBefore
<1> QED BY <1>2, <1>3

\* What the invariants say of the packets that the peer needs.
LEMMA PairSparesNeeded ==
    ASSUME ShortStreams, PairInv, \A x \in Endpoint : Trust(x), \A x \in Endpoint : InTime(x)
    PROVE  PawsSparesNeeded
<1> SUFFICES ASSUME NEW e \in Endpoint, Live(e), Live(Peer(e)), conn[Peer(e)].state \in SendOpen,
                    NEW s \in conn[e].retx, "TS" \in s.pkt.opts, ~before(s.start, conn[Peer(e)].rcv_nxt)
             PROVE  ~before(s.pkt.tsval, conn[Peer(e)].ts_recent)
  BY DEF PawsSparesNeeded
<1> DEFINE f == Peer(e)
           i == Iss[e]
           c == conn[e]
           d == conn[f]
           N == NxtPos(i, c)
           R == RcvPos(i, d)
           a == wrapping_sub(s.start, i)
           now == clock[e]
<1>1. /\ f \in Endpoint /\ Iss[f] \in SeqNum /\ Len(received[f]) \in Nat
      /\ i \in SeqNum /\ written[e] \in Nat /\ written[e] + 3 < Half
      /\ Direction(i, Iss[f], written[e], c, d, InNet(net[f]), received[f])
  BY TrustFacts, LenProperties
<1>2. c # NoConn /\ d # NoConn /\ Knows(d) /\ s \in Entries(c)
  BY DEF Live, Knows, SendOpen, Entries
<1>3. Timely(i, c, d, InNet(net[f]), now)
  BY DEF InTime
<1>4. /\ a \in Nat /\ a < Front(i, c) /\ now \in Nat
  BY <1>2, TimeNumbers
<1>5. d.ts_recent \in Nat
  BY <1>1, <1>2, TimeNumbers
<1>6. now < Half
  <2>1. clock \in [Endpoint -> 0 .. Half - 1]
    BY DEF PairInv, PairTypes
  <2>2. now \in 0 .. Half - 1
    BY <2>1
  <2> HIDE DEF now
  <2> QED BY <2>2, CircleIs
<1>7. ~before(s.start, d.rcv_nxt) /\ "TS" \in s.pkt.opts /\ s \in c.retx
  OBVIOUS
<1> HIDE DEF f, c, d, i, now
<1>8. N \in Nat /\ N < Half /\ c.retx \in SUBSET Unacked /\ Receiving(i, Wire(written[e], c), N, d, received[f])
  BY <1>1, <1>2, WayNumbers
<1>9. a < N /\ a < Half
  <2>1. a < N
    BY <1>2, <1>4 DEF Front
  <2> HIDE DEF a, N
  <2> QED BY <1>4, <1>8, <2>1, CircleIs
<1>10. ConnOK(d) /\ Sending(i, written[e], c)
  BY <1>1, <1>2 DEF Direction
<1>11. s.start \in SeqNum /\ s.pkt \in Segment /\ s.pkt \in Packets(c)
  BY <1>2, <1>7, <1>8 DEF Unacked, Packets, Pkts
<1>12. R = wrapping_sub(d.rcv_nxt, i) /\ d.rcv_nxt \in SeqNum /\ R \in Nat /\ R <= N
  <2> DEFINE S == Wire(written[e], c)
  <2>1. S \in Nat /\ N >= S + 1
    BY <1>1, <1>2, <1>10, SendingNumbers DEF Wire, NxtPos
  <2> HIDE DEF S, N
  <2>2. Receiving(i, S, N, d, received[f])
    BY <1>8 DEF S
  <2>3. d.rcv_nxt \in SeqNum /\ wrapping_sub(d.rcv_nxt, i) \in Nat /\ wrapping_sub(d.rcv_nxt, i) <= N
    BY <1>1, <1>8, <1>10, <2>1, <2>2, ReceivedWasSent
  <2> QED BY <1>2, <2>3 DEF RcvPos
<1>13. R <= a
  <2>1. wrapping_sub(d.rcv_nxt, i) < Half
    <3> HIDE DEF N
    <3> QED BY <1>8, <1>12, CircleIs
  <2>2. before(s.start, d.rcv_nxt) <=> a < wrapping_sub(d.rcv_nxt, i)
    BY <1>1, <1>9, <1>11, <1>12, <2>1, PosBefore
  <2> QED BY <1>4, <1>7, <1>12, <2>2
<1>14. /\ d.ts_recent <= now /\ NoneOlder(i, c, R, d.ts_recent) /\ s.pkt.tsval <= now
  BY <1>2, <1>3, <1>11 DEF Timely
<1>15. d.ts_recent <= s.pkt.tsval
  BY <1>2, <1>7, <1>13, <1>14 DEF NoneOlder
<1>16. s.pkt.tsval \in Nat
  BY <1>1, <1>11, StampIs
<1>17. s.pkt.tsval < Half /\ d.ts_recent < Half
  BY <1>4, <1>5, <1>6, <1>14, <1>16, CircleIs
<1>18. ~before(s.pkt.tsval, d.ts_recent)
  BY <1>5, <1>15, <1>16, <1>17, StampsCompare
<1> QED BY <1>18 DEF d, f

(***************************************************************************)
(* PawsSparesNeeded for every value of the constants: a queued packet that *)
(* the peer still needs is never older than its TS.Recent, whatever        *)
(* segments updated it, so that PAWS in on_segment drops no                *)
(* retransmission the stream depends on, although RetxQueue keeps the      *)
(* original timestamp.  OneClock is needed: the run pair_accept_clock      *)
(* shows what becomes of it when accept stamps the SYN-ACK with a clock of *)
(* its own.                                                                *)
(***************************************************************************)
THEOREM PawsSparesNeededHolds == ASSUME ShortStreams, OneClock PROVE Spec => []PawsSparesNeeded
<1> DEFINE Inv == PairInv /\ (\A x \in Endpoint : Trust(x)) /\ \A x \in Endpoint : InTime(x)
<1>1. Init => Inv
  BY PairInit, TrustInit, TimeInit
<1>2. Inv /\ [Next]_vars => Inv'
  <2> SUFFICES ASSUME Inv, [Next]_vars PROVE Inv'
    OBVIOUS
  <2>1. PairInv'
    BY PairNext
  <2>2. \A x \in Endpoint : Trust(x)'
    BY <2>1, TrustNext
  <2>3. \A x \in Endpoint : InTime(x)'
    BY <2>1, TimeNext
  <2> QED BY <2>1, <2>2, <2>3
<1>3. Inv => PawsSparesNeeded
  BY PairSparesNeeded
<1> QED BY <1>1, <1>2, <1>3, PTL DEF Spec

=============================================================================
