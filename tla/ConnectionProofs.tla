-------------------------- MODULE ConnectionProofs --------------------------
(***************************************************************************)
(* Lemmas about the methods of one connection, for a sequence circle of    *)
(* any size and every value of the other constants, whatever module owns   *)
(* the connection: what each method returns is a connection again (the     *)
(* *Type lemmas), and what it may do to the state, to the peer's FIN, to   *)
(* SND.UNA and SND.NXT and to the retransmission queue (the *Effect        *)
(* lemmas), what a segment leaves alone (the *Keeps lemmas), and what the  *)
(* queue is on the circle (Queued and the *Queued lemmas).                 *)
(***************************************************************************)
EXTENDS Connection, Arithmetic, SequenceTheorems

-----------------------------------------------------------------------------
(* Sequence arithmetic *)

\* The circle has at least two positions.
LEMMA SeqModType == SeqMod \in Nat /\ SeqMod > 1
BY HalfAssumption DEF SeqMod

\* Reduction modulo the circle lands on the circle.
LEMMA ModType == \A a \in Int : a % SeqMod \in SeqNum
<1> DEFINE m == SeqMod
<1>1. m \in Nat /\ m > 0
  BY SeqModType
<1> HIDE DEF m
<1>2. \A a \in Int : a % m \in 0 .. m - 1
  BY <1>1
<1> QED BY <1>2 DEF m, SeqNum

\* Sequence numbers are integers.
LEMMA SeqNumInt == SeqNum \subseteq Int /\ 0 \in SeqNum
BY SeqModType DEF SeqNum

\* Advancing a sequence number stays on the circle.
LEMMA AddType == ASSUME NEW a \in SeqNum, NEW n \in Int PROVE wrapping_add(a, n) \in SeqNum
BY ModType, SeqNumInt DEF wrapping_add

\* So does the distance between two.
LEMMA SubType == ASSUME NEW a \in SeqNum, NEW n \in Int PROVE wrapping_sub(a, n) \in SeqNum
BY ModType, SeqNumInt DEF wrapping_sub

-----------------------------------------------------------------------------
(* Reassembly *)

\* A reassembler of the right type that buffers finitely many fragments.
ReasmOK(r) == r \in Reasm /\ IsFiniteSet(r.frags)

\* A new reassembler is well formed.
LEMMA NewReassemblerType == ASSUME NEW x \in SeqNum PROVE ReasmOK(NewReassembler(x))
BY FS_EmptySet DEF ReasmOK, NewReassembler, Reasm

\* A run of finitely many fragments has a length.
LEMMA RunLengthType ==
    ASSUME NEW run \in SUBSET Frag, IsFiniteSet(run)
    PROVE  RunLength(run) \in Nat
<1> DEFINE T == {FragOffsets(f) : f \in run}
           F == [f \in run |-> FragOffsets(f)]
<1>1. F \in Surjection(run, T)
  BY DEF Surjection
<1>2. IsFiniteSet(T)
  BY <1>1, FS_Surjection
<1>3. \A f \in run : IsFiniteSet(FragOffsets(f))
  <2> TAKE f \in run
  <2>1. f.off \in Int /\ f.data \in Seq(Byte)
    BY SeqNumInt DEF Frag
  <2>2. Len(f.data) \in Nat
    BY <2>1, LenProperties
  <2> QED BY <2>1, <2>2, FS_Interval DEF FragOffsets
<1>4. IsFiniteSet(UNION T)
  BY <1>2, <1>3, FS_UNION
<1> QED BY <1>4, FS_CardinalityType DEF RunLength

\* A sequence, of whatever it may be.
IsSeq(s) == \E S : s \in Seq(S)

\* A delivered run is a sequence.
LEMMA RunBytesLen ==
    ASSUME NEW run \in SUBSET Frag, IsFiniteSet(run), NEW cur
    PROVE  IsSeq(RunBytes(run, cur)) /\ Len(RunBytes(run, cur)) \in Nat
<1> DEFINE n == RunLength(run)
           S == {RunBytes(run, cur)[i] : i \in 1 .. n}
<1>1. n \in Nat
  BY RunLengthType
<1>2. RunBytes(run, cur) \in [1 .. n -> S]
  BY DEF RunBytes
<1>3. RunBytes(run, cur) \in Seq(S)
  BY <1>1, <1>2, SeqDef
<1> HIDE DEF S
<1> QED BY <1>3, LenProperties DEF IsSeq

\* A slice of bytes is a sequence of bytes.
LEMMA SubSeqType ==
    ASSUME NEW s \in Seq(Byte), NEW m \in Nat \ {0}, NEW n \in Nat, n <= Len(s)
    PROVE  SubSeq(s, m, n) \in Seq(Byte)
<1>1. Len(s) \in Nat /\ \A i \in m .. n : i \in 1 .. Len(s)
  BY LenProperties
<1>2. \A i \in m .. n : s[i] \in Byte
  BY <1>1, ElementOfSeq
<1> QED BY <1>2, SubSeqProperties

\* Whatever segment arrives, the reassembler stays well formed, keeps its base and
\* delivers a sequence.
LEMMA RecvType ==
    ASSUME NEW r, ReasmOK(r), NEW seq \in SeqNum, NEW data \in Seq(Byte),
           NEW rcv_nxt \in SeqNum
    PROVE  LET d == recv(r, seq, data, rcv_nxt)
           IN  /\ ReasmOK(d.reasm) /\ d.reasm.base = r.base
               /\ IsSeq(d.out) /\ Len(d.out) \in Nat
<1> DEFINE nxt_off == wrapping_sub(rcv_nxt, r.base)
           seg_off == wrapping_sub(seq, r.base)
           old     == seg_off < nxt_off
           skip    == IF old THEN nxt_off - seg_off ELSE 0
           off     == IF old THEN nxt_off ELSE seg_off
           dropped == skip >= Len(data) \/ off - nxt_off > MaxAhead
           frag    == [off |-> off, data |-> SubSeq(data, skip + 1, Len(data))]
           frags   == {f \in r.frags : f.off # off} \cup {frag}
           run     == UnbrokenRun(frags, nxt_off)
<1>1. r.base \in SeqNum /\ r.frags \in SUBSET Frag /\ IsFiniteSet(r.frags)
  BY DEF ReasmOK, Reasm
<1>2. nxt_off \in SeqNum /\ seg_off \in SeqNum
  BY <1>1, SubType, SeqNumInt
<1>3. off \in SeqNum /\ skip \in Nat
  <2> HIDE DEF nxt_off, seg_off
  <2> QED BY <1>2, SeqModType DEF SeqNum
<1>4. Len(data) \in Nat
  BY LenProperties
<1>5. frag \in Frag
  <2>1. SubSeq(data, skip + 1, Len(data)) \in Seq(Byte)
    <3> HIDE DEF skip
    <3> QED BY <1>3, <1>4, SubSeqType
  <2> QED BY <2>1, <1>3 DEF Frag
<1>6. frags \in SUBSET Frag /\ IsFiniteSet(frags)
  <2>1. {f \in r.frags : f.off # off} \in SUBSET r.frags
    OBVIOUS
  <2>2. IsFiniteSet({f \in r.frags : f.off # off})
    BY <2>1, <1>1, FS_Subset
  <2>3. IsFiniteSet(frags)
    BY <2>2, FS_AddElement
  <2> HIDE DEF frag
  <2> QED BY <1>1, <1>5, <2>3
<1>7. run \in SUBSET frags /\ IsFiniteSet(run) /\ IsFiniteSet(frags \ run)
  <2> HIDE DEF frags
  <2>1. run \in SUBSET frags
    BY DEF UnbrokenRun
  <2> QED BY <1>6, <2>1, FS_Subset, FS_Difference
<1>8. IsSeq(RunBytes(run, nxt_off)) /\ Len(RunBytes(run, nxt_off)) \in Nat
  <2> HIDE DEF run, frags, nxt_off
  <2> QED BY <1>6, <1>7, RunBytesLen
<1>9. ReasmOK([r EXCEPT !.frags = frags \ run]) /\ [r EXCEPT !.frags = frags \ run].base = r.base
  <2> HIDE DEF run, frags
  <2> QED BY <1>6, <1>7 DEF ReasmOK, Reasm
<1>10. recv(r, seq, data, rcv_nxt) =
          IF dropped THEN [reasm |-> r, out |-> << >>]
          ELSE [reasm |-> [r EXCEPT !.frags = frags \ run], out |-> RunBytes(run, nxt_off)]
  BY DEF recv
<1> HIDE DEF dropped, run, frags, nxt_off
<1>11. CASE dropped
  BY <1>10, <1>11, EmptySeq DEF IsSeq
<1>12. CASE ~dropped
  <2> DEFINE q == [r EXCEPT !.frags = frags \ run]
             o == RunBytes(run, nxt_off)
  <2>1. recv(r, seq, data, rcv_nxt) = [reasm |-> q, out |-> o]
    BY <1>10, <1>12
  <2>2. ReasmOK(q) /\ q.base = r.base /\ IsSeq(o) /\ Len(o) \in Nat
    BY <1>8, <1>9
  <2> HIDE DEF q, o
  <2> QED BY <2>1, <2>2
<1> QED BY <1>11, <1>12

-----------------------------------------------------------------------------
(* Segments and the retransmission queue *)

\* The stack builds well-formed segments.
LEMMA SegmentType ==
    ASSUME NEW c, NEW seq \in SeqNum, NEW ackno \in SeqNum, NEW flags \in SUBSET Flag,
           NEW data \in Seq(Byte), NEW now \in SeqNum
    PROVE  segment(c, seq, ackno, flags, data, now) \in Segment
BY ConnectionAssumption, SeqNumInt DEF segment, Segment, Option

\* Queueing a well-formed entry.
LEMMA RecordType ==
    ASSUME NEW q \in SUBSET Unacked, NEW start \in SeqNum, NEW end \in SeqNum,
           NEW pkt \in Segment
    PROVE  record(q, start, end, pkt) \in SUBSET Unacked
<1> DEFINE u == [start |-> start, end |-> end, pkt |-> pkt, retried |-> FALSE, sacked |-> FALSE]
<1>1. u \in Unacked
  BY DEF Unacked
<1> HIDE DEF u
<1>2. q \cup {u} \in SUBSET Unacked
  BY <1>1
<1> QED BY <1>2 DEF record, u

\* Acknowledging only removes entries.
LEMMA AckType == ASSUME NEW q \in SUBSET Unacked, NEW una PROVE ack(q, una) \in SUBSET Unacked
BY DEF ack

\* Resending only changes marks.
LEMMA ResendType ==
    ASSUME NEW q \in SUBSET Unacked, NEW R \in SUBSET q
    PROVE  Resend(q, R) \in SUBSET Unacked
BY DEF Resend, Unacked

\* SACK blocks only change marks.
LEMMA MarkSackedType ==
    ASSUME NEW q \in SUBSET Unacked, NEW blocks
    PROVE  mark_sacked(q, blocks) \in SUBSET Unacked
<1> DEFINE Cov(s) == \E b \in blocks : ~before(s.start, b.left) /\ ~after(s.end, b.right)
<1>1. \A s \in q : [s EXCEPT !.sacked = s.sacked \/ Cov(s)] \in Unacked
  <2> HIDE DEF Cov
  <2> TAKE s \in q
  <2>1. s \in Unacked /\ (s.sacked \/ Cov(s)) \in BOOLEAN
    OBVIOUS
  <2> QED BY <2>1 DEF Unacked
<1> QED BY <1>1 DEF mark_sacked

-----------------------------------------------------------------------------
(* Opening and closing *)

ConnOK(c) == c \in Connection /\ IsFiniteSet(c.reasm.frags)

\* What the constructors have in common is well typed.
LEMMA NewConnectionType ==
    ASSUME NEW state \in State, NEW iss \in SeqNum, NEW una \in SeqNum,
           NEW rcv_nxt \in SeqNum, NEW opts \in SUBSET Option, NEW tsval \in SeqNum
    PROVE  ConnOK(NewConnection(state, iss, una, rcv_nxt, opts, tsval))
<1>1. wrapping_add(iss, 1) \in SeqNum
  BY AddType
<1>2. ReasmOK(NewReassembler(rcv_nxt))
  BY NewReassemblerType
<1>3. << >> \in Seq(Byte)
  BY EmptySeq
<1>4. 0 \in 0 .. DupThresh + 1 /\ 0 \in 0 .. KeepaliveProbes /\ RcvWnd \in Nat
  BY DupThreshAssumption, ConnectionAssumption
<1> QED BY <1>1, <1>2, <1>3, <1>4 DEF NewConnection, ConnOK, Connection, ReasmOK

\* Queueing a packet keeps the connection well typed.
LEMMA SentType ==
    ASSUME NEW c, ConnOK(c), NEW start \in SeqNum, NEW len \in Int, NEW pkt \in Segment
    PROVE  ConnOK(Sent(c, start, len, pkt))
<1>1. wrapping_add(start, len) \in SeqNum
  BY AddType
<1>2. record(c.retx, start, wrapping_add(start, len), pkt) \in SUBSET Unacked
  BY <1>1, RecordType DEF ConnOK, Connection
<1> QED BY <1>1, <1>2 DEF Sent, ConnOK, Connection

\* An active open.
LEMMA ConnectType ==
    ASSUME NEW iss \in SeqNum, NEW now \in SeqNum
    PROVE  ConnOK(connect(iss, now).tcb)
<1> DEFINE c   == NewConnection("SynSent", iss, iss, 0, {}, 0)
           syn == [segment(c, iss, 0, {"SYN"}, << >>, now) EXCEPT !.opts = Option, !.tsval = now]
<1>1. ConnOK(c)
  BY NewConnectionType, SeqNumInt DEF State
<1>2. syn \in Segment
  <2> HIDE DEF c
  <2>1. {"SYN"} \in SUBSET Flag /\ << >> \in Seq(Byte) /\ 0 \in SeqNum
    BY EmptySeq, SeqNumInt DEF Flag
  <2>2. segment(c, iss, 0, {"SYN"}, << >>, now) \in Segment
    BY <2>1, SegmentType
  <2> QED BY <2>2 DEF Segment
<1>3. ConnOK(Sent(c, iss, 1, syn))
  <2> HIDE DEF c, syn
  <2> QED BY <1>1, <1>2, SentType
<1> QED BY <1>3 DEF connect, Result

\* A passive open.
LEMMA AcceptType ==
    ASSUME NEW s \in Segment, NEW iss \in SeqNum, NEW now \in SeqNum
    PROVE  ConnOK(accept(s, iss, now).tcb)
<1> DEFINE rcv_nxt == wrapping_add(s.seq, 1)
           c == NewConnection("SynRcvd", iss, iss, rcv_nxt, s.opts, s.tsval)
           synack == [segment(c, iss, c.rcv_nxt, {"SYN", "ACK"}, << >>, now) EXCEPT
                         !.opts = s.opts]
<1>1. rcv_nxt \in SeqNum /\ s.opts \in SUBSET Option /\ s.tsval \in SeqNum
  BY AddType DEF Segment
<1>2. ConnOK(c)
  <2> HIDE DEF rcv_nxt
  <2> QED BY <1>1, NewConnectionType DEF State
<1>3. synack \in Segment
  <2>1. c.rcv_nxt \in SeqNum
    BY <1>2 DEF ConnOK, Connection
  <2> HIDE DEF c
  <2>2. segment(c, iss, c.rcv_nxt, {"SYN", "ACK"}, << >>, now) \in Segment
    BY <2>1, SegmentType, EmptySeq DEF Flag
  <2> QED BY <1>1, <2>2 DEF Segment
<1>4. ConnOK(Sent(c, iss, 1, synack))
  <2> HIDE DEF c, synack
  <2> QED BY <1>2, <1>3, SentType
<1> QED BY <1>4 DEF accept, Result

\* A connection rebuilt from a SYN cookie.
LEMMA CookieType ==
    ASSUME NEW peer_isn \in SeqNum, NEW cookie \in SeqNum
    PROVE  ConnOK(from_syn_cookie(peer_isn, cookie))
<1>1. wrapping_add(cookie, 1) \in SeqNum /\ wrapping_add(peer_isn, 1) \in SeqNum
  BY AddType
<1>2. "Established" \in State /\ {} \in SUBSET Option /\ 0 \in SeqNum
  BY SeqNumInt DEF State
<1> QED BY <1>1, <1>2, NewConnectionType DEF from_syn_cookie

\* close, in any state.
LEMMA CloseType ==
    ASSUME NEW c, ConnOK(c), NEW now \in SeqNum
    PROVE  ConnOK(close(c, now).tcb)
<1> DEFINE fin == segment(c, c.nxt, c.rcv_nxt, {"FIN", "ACK"}, << >>, now)
           d   == Sent(c, c.nxt, 1, fin)
<1>1. c.nxt \in SeqNum /\ c.rcv_nxt \in SeqNum
  BY DEF ConnOK, Connection
<1>2. fin \in Segment
  BY <1>1, SegmentType, EmptySeq DEF Flag
<1>3. ConnOK(d)
  <2> HIDE DEF fin
  <2>1. ConnOK(Sent(c, c.nxt, 1, fin))
    BY <1>1, <1>2, SentType
  <2> QED BY <2>1
<1>4. \A st \in State : ConnOK([d EXCEPT !.state = st])
  <2> HIDE DEF d
  <2> QED BY <1>3 DEF ConnOK, Connection
<1> QED BY <1>4 DEF close, Result, State

-----------------------------------------------------------------------------
(* Receiving a segment *)

\* The fields of a segment.
LEMMA SegmentFields ==
    ASSUME NEW s \in Segment
    PROVE  /\ s.seq \in SeqNum /\ s.ack \in SeqNum /\ s.window \in Nat
           /\ s.tsval \in SeqNum /\ s.data \in Seq(Byte) /\ Len(s.data) \in Nat
           /\ fin_seq(s) \in SeqNum
<1>1. /\ s.seq \in SeqNum /\ s.ack \in SeqNum /\ s.window \in Nat
      /\ s.tsval \in SeqNum /\ s.data \in Seq(Byte)
  BY DEF Segment
<1>2. Len(s.data) \in Nat
  BY <1>1, LenProperties
<1> QED BY <1>1, <1>2, AddType DEF fin_seq

\* Delivering payload keeps the connection well typed.
LEMMA DeliverDataType ==
    ASSUME NEW c, ConnOK(c), NEW s \in Segment
    PROVE  ConnOK(DeliverData(c, s).tcb)
<1> DEFINE d == recv(c.reasm, s.seq, s.data, c.rcv_nxt)
<1>1. ReasmOK(c.reasm) /\ c.rcv_nxt \in SeqNum
  BY DEF ConnOK, Connection, ReasmOK
<1>2. ReasmOK(d.reasm) /\ Len(d.out) \in Nat
  BY <1>1, RecvType, SegmentFields
<1>3. wrapping_add(c.rcv_nxt, Len(d.out)) \in SeqNum
  BY <1>1, <1>2, AddType
<1> HIDE DEF d
<1>4. ConnOK([c EXCEPT !.reasm = d.reasm, !.rcv_nxt = wrapping_add(@, Len(d.out))])
  BY <1>2, <1>3 DEF ConnOK, Connection, ReasmOK
<1> QED BY <1>4 DEF DeliverData, Result, d

\* Taking in the peer's FIN.
LEMMA ConsumeFinType ==
    ASSUME NEW c, ConnOK(c), NEW next \in State
    PROVE  ConnOK(ConsumeFin(c, next))
<1>1. wrapping_add(c.rcv_nxt, 1) \in SeqNum
  BY AddType DEF ConnOK, Connection
<1> QED BY <1>1 DEF ConsumeFin, ConnOK, Connection

\* The data half of ESTABLISHED and CLOSE_WAIT.
LEMMA OnOpenDataType ==
    ASSUME NEW c, ConnOK(c), NEW s \in Segment, NEW now
    PROVE  ConnOK(OnOpenData(c, s, now).tcb)
<1> DEFINE d   == DeliverData(c, s)
           c1  == d.tcb
           c2  == IF "FIN" \in s.flags /\ c1.state = "Established" /\ ~before(fin_seq(s), c1.rcv_nxt)
                  THEN [c1 EXCEPT !.pending_fin = fin_seq(s)] ELSE c1
           c3  == [ConsumeFin(c2, "CloseWait") EXCEPT !.pending_fin = NoFin]
<1>1. ConnOK(c1)
  BY DeliverDataType
<1>2. ConnOK(c2)
  <2> HIDE DEF c1
  <2> QED BY <1>1, SegmentFields DEF ConnOK, Connection
<1>3. ConnOK(c3)
  <2> HIDE DEF c2
  <2>1. ConnOK(ConsumeFin(c2, "CloseWait"))
    BY <1>2, ConsumeFinType DEF State
  <2> QED BY <2>1 DEF ConnOK, Connection
<1>4. OnOpenData(c, s, now).tcb \in {c1, c2, c3}
  BY DEF OnOpenData, DeliverData, Result
<1> QED BY <1>1, <1>2, <1>3, <1>4

\* A fast retransmission, or the data.
LEMMA FastRetransmitOrType ==
    ASSUME NEW c, ConnOK(c), NEW s \in Segment, NEW now
    PROVE  ConnOK(FastRetransmitOr(c, s, now).tcb)
<1>1. c.retx \in SUBSET Unacked /\ FirstHole(c.retx) \in SUBSET c.retx
  BY DEF ConnOK, Connection, FirstHole, Holes
<1>2. Resend(c.retx, FirstHole(c.retx)) \in SUBSET Unacked
  BY <1>1, ResendType
<1>3. ConnOK([c EXCEPT !.retx = Resend(@, FirstHole(c.retx))])
  BY <1>2 DEF ConnOK, Connection
<1>4. ConnOK(OnOpenData(c, s, now).tcb)
  BY OnOpenDataType
<1> QED BY <1>3, <1>4 DEF FastRetransmitOr, Result

\* Every ACK branch; the duplicate-ACK counter stops one above the threshold.
LEMMA OnOpenAckType ==
    ASSUME NEW c, ConnOK(c), NEW prev_wnd, NEW s \in Segment, NEW now
    PROVE  ConnOK(OnOpenAck(c, prev_wnd, s, now).tcb)
<1> DEFINE acked   == [c EXCEPT !.una = s.ack, !.retx = ack(@, s.ack), !.dup_acks = 0]
           count   == IF c.dup_acks > DupThresh THEN c.dup_acks ELSE c.dup_acks + 1
           counted == [c EXCEPT !.dup_acks = count]
           started == [counted EXCEPT !.in_recovery = TRUE, !.recover = c.nxt]
           ended   == [acked EXCEPT !.in_recovery = FALSE]
<1>1. s.ack \in SeqNum /\ ack(c.retx, s.ack) \in SUBSET Unacked /\ 0 \in 0 .. DupThresh + 1
  BY SegmentFields, AckType, DupThreshAssumption DEF ConnOK, Connection
<1>2. ConnOK(acked)
  BY <1>1 DEF ConnOK, Connection
<1>3. ConnOK(ended)
  <2> HIDE DEF acked
  <2> QED BY <1>2 DEF ConnOK, Connection
<1>4. count \in 0 .. DupThresh + 1
  BY DupThreshAssumption DEF ConnOK, Connection
<1>5. ConnOK(counted)
  <2> HIDE DEF count
  <2> QED BY <1>4 DEF ConnOK, Connection
<1>6. ConnOK(started)
  <2>1. c.nxt \in SeqNum
    BY DEF ConnOK, Connection
  <2> HIDE DEF counted
  <2> QED BY <1>5, <2>1 DEF ConnOK, Connection
<1> HIDE DEF acked, counted, started, ended, count
<1>7. /\ ConnOK(FastRetransmitOr(acked, s, now).tcb)
      /\ ConnOK(OnOpenData(ended, s, now).tcb)
      /\ ConnOK(FastRetransmitOr(started, s, now).tcb)
      /\ ConnOK(OnOpenData(counted, s, now).tcb)
      /\ ConnOK(OnOpenData(c, s, now).tcb)
  BY <1>2, <1>3, <1>5, <1>6, OnOpenDataType, FastRetransmitOrType
<1>8. OnOpenAck(c, prev_wnd, s, now) \in
         {FastRetransmitOr(acked, s, now), OnOpenData(ended, s, now),
          FastRetransmitOr(started, s, now), OnOpenData(counted, s, now), OnOpenData(c, s, now)}
  BY DEF OnOpenAck, acked, counted, started, ended, count
<1> QED BY <1>7, <1>8

\* The whole ESTABLISHED and CLOSE_WAIT branch.
LEMMA OnOpenType ==
    ASSUME NEW c, ConnOK(c), NEW s \in Segment, NEW throttled, NEW now
    PROVE  ConnOK(OnOpen(c, s, throttled, now).tcb)
<1> DEFINE ts    == c.ts_enabled /\ "TS" \in s.opts
           fresh == [c EXCEPT
                       !.ts_recent = IF ts /\ UpdatesTsRecent(c, s) THEN s.tsval ELSE @,
                       !.wnd = s.window,
                       !.max_snd_wnd = IF s.window > @ THEN s.window ELSE @]
           marked == IF c.sack_ok THEN [fresh EXCEPT !.retx = mark_sacked(@, s.sack)] ELSE fresh
<1>1. ConnOK(fresh)
  <2> HIDE DEF ts
  <2> QED BY SegmentFields DEF ConnOK, Connection
<1>2. ConnOK(marked)
  <2> HIDE DEF fresh
  <2>1. mark_sacked(fresh.retx, s.sack) \in SUBSET Unacked
    BY <1>1, MarkSackedType DEF ConnOK, Connection
  <2> QED BY <1>1, <2>1 DEF ConnOK, Connection
<1> HIDE DEF fresh, marked
<1>3. /\ ConnOK(OnOpenData(fresh, s, now).tcb)
      /\ ConnOK(OnOpenAck(marked, c.wnd, s, now).tcb)
      /\ ConnOK(maybe_challenge(fresh, throttled, now).tcb)
      /\ ConnOK(Result(c, {AckNow(c, now)}).tcb)
  BY <1>1, <1>2, OnOpenDataType, OnOpenAckType DEF maybe_challenge, Result
<1>4. OnOpen(c, s, throttled, now) \in
         {OnOpenData(fresh, s, now), OnOpenAck(marked, c.wnd, s, now),
          maybe_challenge(fresh, throttled, now), Result(c, {AckNow(c, now)})}
  BY DEF OnOpen, fresh, marked
<1> QED BY <1>3, <1>4

\* Changing the state to another one.
LEMMA StateType ==
    ASSUME NEW c, ConnOK(c), NEW st \in State
    PROVE  ConnOK([c EXCEPT !.state = st])
BY DEF ConnOK, Connection

\* A RST.
LEMMA OnRstType ==
    ASSUME NEW c, ConnOK(c), NEW s, NEW throttled, NEW now
    PROVE  ConnOK(on_rst(c, s, throttled, now).tcb)
<1>1. ConnOK([c EXCEPT !.state = "Closed"])
  BY StateType DEF State
<1> QED BY <1>1 DEF on_rst, maybe_challenge, Result

\* The SYN_SENT branch.
LEMMA OnSynSentType ==
    ASSUME NEW c, ConnOK(c), NEW s \in Segment, NEW now
    PROVE  ConnOK(OnSynSent(c, s, now).tcb)
<1> DEFINE rcv_nxt == wrapping_add(s.seq, 1)
           est == [c EXCEPT !.rcv_nxt = rcv_nxt,
                            !.reasm = NewReassembler(rcv_nxt),
                            !.una = s.ack,
                            !.retx = ack(@, s.ack),
                            !.ts_enabled = @ \/ "TS" \in s.opts,
                            !.ts_recent = IF "TS" \in s.opts THEN s.tsval ELSE @,
                            !.sack_ok = @ \/ "SACKP" \in s.opts,
                            !.state = "Established"]
<1>1. rcv_nxt \in SeqNum /\ s.ack \in SeqNum /\ s.tsval \in SeqNum
  BY SegmentFields, AddType
<1>2. ReasmOK(NewReassembler(rcv_nxt))
  <2> HIDE DEF rcv_nxt
  <2> QED BY <1>1, NewReassemblerType
<1>3. ack(c.retx, s.ack) \in SUBSET Unacked
  BY AckType DEF ConnOK, Connection
<1>4. ConnOK(est)
  <2> DEFINE ts == c.ts_enabled \/ "TS" \in s.opts
             sack == c.sack_ok \/ "SACKP" \in s.opts
             recent == IF "TS" \in s.opts THEN s.tsval ELSE c.ts_recent
             r == NewReassembler(rcv_nxt)
             q == ack(c.retx, s.ack)
             e == [c EXCEPT !.rcv_nxt = rcv_nxt, !.reasm = r, !.una = s.ack, !.retx = q,
                            !.ts_enabled = ts, !.ts_recent = recent, !.sack_ok = sack,
                            !.state = "Established"]
  <2>1. est = e
    BY DEF ConnOK, Connection
  <2>2. ts \in BOOLEAN /\ sack \in BOOLEAN /\ recent \in SeqNum /\ "Established" \in State
    BY <1>1 DEF ConnOK, Connection, State
  <2>3. r \in Reasm /\ IsFiniteSet(r.frags) /\ q \in SUBSET Unacked
    BY <1>2, <1>3 DEF ReasmOK
  <2>4. ConnOK(e)
    <3> HIDE DEF rcv_nxt, ts, sack, recent, r, q
    <3> QED BY <1>1, <2>2, <2>3 DEF ConnOK, Connection
  <2> QED BY <2>1, <2>4
<1> HIDE DEF est
<1>5. OnSynSent(c, s, now).tcb \in {est, c}
  BY DEF OnSynSent, Result, est
<1> QED BY <1>4, <1>5

\* The FIN_WAIT_1 and FIN_WAIT_2 branch.
LEMMA OnFinWaitType ==
    ASSUME NEW c, ConnOK(c), NEW s \in Segment, NEW now
    PROVE  ConnOK(OnFinWait(c, s, now).tcb)
<1> DEFINE finAcked == c.state = "FinWait1" /\ AcksNxt(c, s)
           c0 == IF finAcked THEN [c EXCEPT !.retx = ack(@, s.ack)] ELSE c
           d  == DeliverData(c0, s)
           c1 == d.tcb
           c2 == ConsumeFin(c1, IF finAcked \/ c.state = "FinWait2" THEN "TimeWait" ELSE "Closing")
           c3 == IF finAcked THEN [c1 EXCEPT !.state = "FinWait2"] ELSE c1
<1>1. ConnOK(c0)
  <2> HIDE DEF finAcked
  <2>1. ack(c.retx, s.ack) \in SUBSET Unacked
    BY AckType DEF ConnOK, Connection
  <2> QED BY <2>1 DEF ConnOK, Connection
<1>2. ConnOK(c1)
  <2> HIDE DEF c0
  <2> QED BY <1>1, DeliverDataType
<1>3. ConnOK(c2)
  <2> HIDE DEF c1, finAcked
  <2> QED BY <1>2, ConsumeFinType DEF State
<1>4. ConnOK(c3)
  <2> HIDE DEF c1, finAcked
  <2> QED BY <1>2, StateType DEF State
<1>5. OnFinWait(c, s, now).tcb \in {c2, c3}
  BY DEF OnFinWait, DeliverData, Result
<1> QED BY <1>3, <1>4, <1>5

\* The LAST_ACK and CLOSING branch.
LEMMA OnFinAckOnlyType ==
    ASSUME NEW c, ConnOK(c), NEW s \in Segment
    PROVE  ConnOK(OnFinAckOnly(c, s).tcb)
<1>1. ack(c.retx, s.ack) \in SUBSET Unacked
  BY AckType DEF ConnOK, Connection
<1>2. \A st \in State : ConnOK([c EXCEPT !.retx = ack(@, s.ack), !.state = st])
  BY <1>1 DEF ConnOK, Connection
<1> QED BY <1>2 DEF OnFinAckOnly, Result, State

\* The dispatch on the synchronized states.
LEMMA OnSynchronizedType ==
    ASSUME NEW c, ConnOK(c), NEW s \in Segment, NEW throttled, NEW now
    PROVE  ConnOK(OnSynchronized(c, s, throttled, now).tcb)
<1>1. /\ ConnOK(OnOpen(c, s, throttled, now).tcb)
      /\ ConnOK(OnFinWait(c, s, now).tcb)
      /\ ConnOK(OnFinAckOnly(c, s).tcb)
      /\ ConnOK(Result(c, {}).tcb)
  BY OnOpenType, OnFinWaitType, OnFinAckOnlyType DEF Result
<1>2. OnSynchronized(c, s, throttled, now) \in
         {OnOpen(c, s, throttled, now), OnFinWait(c, s, now), OnFinAckOnly(c, s), Result(c, {})}
  BY DEF OnSynchronized, SendOpen
<1> QED BY <1>1, <1>2

\* The SYN_RCVD branch, which goes on as ESTABLISHED.
LEMMA OnSynRcvdType ==
    ASSUME NEW c, ConnOK(c), NEW s \in Segment, NEW throttled, NEW now
    PROVE  ConnOK(OnSynRcvd(c, s, throttled, now).tcb)
<1> DEFINE est == [c EXCEPT !.una = s.ack, !.retx = ack(@, s.ack), !.state = "Established"]
<1>1. ConnOK(est)
  <2>1. s.ack \in SeqNum /\ ack(c.retx, s.ack) \in SUBSET Unacked
    BY SegmentFields, AckType DEF ConnOK, Connection
  <2> QED BY <2>1 DEF ConnOK, Connection, State
<1> HIDE DEF est
<1>2. ConnOK(OnSynchronized(est, s, throttled, now).tcb) /\ ConnOK(Result(c, {}).tcb)
  BY <1>1, OnSynchronizedType DEF Result
<1>3. OnSynRcvd(c, s, throttled, now) \in {OnSynchronized(est, s, throttled, now), Result(c, {})}
  BY DEF OnSynRcvd, est
<1> QED BY <1>2, <1>3

\* Whatever segment arrives in whatever state, on_segment leaves a connection.
LEMMA OnSegmentType ==
    ASSUME NEW c0, ConnOK(c0), NEW s \in Segment, NEW throttled, NEW now
    PROVE  ConnOK(on_segment(c0, s, throttled, now).tcb)
<1> DEFINE c == [c0 EXCEPT !.keepalive_probes_sent = 0]
<1>1. ConnOK(c)
  BY ConnectionAssumption DEF ConnOK, Connection
<1> HIDE DEF c
<1>2. /\ ConnOK(on_rst(c, s, throttled, now).tcb)
      /\ ConnOK(OnSynSent(c, s, now).tcb)
      /\ ConnOK(maybe_challenge(c, throttled, now).tcb)
      /\ ConnOK(OnSynRcvd(c, s, throttled, now).tcb)
      /\ ConnOK(OnSynchronized(c, s, throttled, now).tcb)
  BY <1>1, OnRstType, OnSynSentType, OnSynRcvdType, OnSynchronizedType DEF maybe_challenge, Result
<1>3. on_segment(c0, s, throttled, now) \in
         {on_rst(c, s, throttled, now), OnSynSent(c, s, now), maybe_challenge(c, throttled, now),
          OnSynRcvd(c, s, throttled, now), OnSynchronized(c, s, throttled, now)}
  BY DEF on_segment, c
<1> QED BY <1>2, <1>3

-----------------------------------------------------------------------------
(* Transmission and timers *)

\* A set of queue entries occupies finitely many sequence numbers.
LEMMA SeqCountType == ASSUME NEW R \in SUBSET Unacked PROVE SeqCount(R) \in Nat
<1>1. \A s \in R : SeqsOf(s) \subseteq SeqNum
  <2> TAKE s \in R
  <2>1. s.start \in SeqNum /\ s.end \in SeqNum
    BY DEF Unacked
  <2>2. wrapping_sub(s.end, s.start) \in Int
    BY <2>1, SubType, SeqNumInt
  <2>3. \A i \in Int : wrapping_add(s.start, i) \in SeqNum
    BY <2>1, AddType
  <2> QED BY <2>2, <2>3 DEF SeqsOf
<1>2. UNION {SeqsOf(s) : s \in R} \subseteq SeqNum
  BY <1>1
<1>3. IsFiniteSet(SeqNum)
  BY SeqModType, FS_Interval DEF SeqNum
<1>4. IsFiniteSet(UNION {SeqsOf(s) : s \in R})
  BY <1>2, <1>3, FS_Subset
<1> QED BY <1>4, FS_CardinalityType DEF SeqCount

\* The pipe is a natural number.
LEMMA PipeType == ASSUME NEW q \in SUBSET Unacked PROVE pipe(q) \in Nat
<1> DEFINE R == {s \in Holes(q) : ~is_lost(q, s) \/ s.retried}
<1>1. R \in SUBSET Unacked
  BY DEF Holes
<1> HIDE DEF R
<1>2. SeqCount(R) \in Nat
  BY <1>1, SeqCountType
<1> QED BY <1>2 DEF pipe, R

\* So is FlightSize.
LEMMA FlightType == ASSUME NEW c, ConnOK(c) PROVE flight_size(c) \in Nat
<1>1. c.nxt \in SeqNum /\ c.una \in SeqNum
  BY DEF ConnOK, Connection
<1>2. flight_size(c) \in SeqNum
  BY <1>1, SubType, SeqNumInt DEF flight_size
<1> QED BY <1>2, SeqModType DEF SeqNum

\* The smaller of two naturals.
LEMMA AtMostType ==
    ASSUME NEW a \in Nat, NEW b \in Nat
    PROVE  AtMost(a, b) \in Nat /\ AtMost(a, b) <= a /\ AtMost(a, b) <= b
BY DEF AtMost

\* The usable window is never negative and never above the peer's window.
LEMMA UsableWindowType ==
    ASSUME NEW c, ConnOK(c), NEW cwnd \in Nat
    PROVE  /\ usable_window(c, cwnd) \in Nat
           /\ usable_window(c, cwnd) = 0 \/ usable_window(c, cwnd) + flight_size(c) <= c.wnd
<1>1. c.wnd \in Nat /\ flight_size(c) \in Nat
  BY FlightType DEF ConnOK, Connection
<1>2. AtMost(c.wnd, cwnd) \in Nat /\ AtMost(c.wnd, cwnd) <= c.wnd
  BY <1>1, AtMostType
<1> QED BY <1>1, <1>2 DEF usable_window

\* The transmission loop never takes more than what is queued and admitted.
LEMMA SendableType ==
    ASSUME NEW c, ConnOK(c), NEW cwnd \in Nat
    PROVE  /\ Sendable(c, cwnd) \in Nat /\ Sendable(c, cwnd) <= Len(c.send_buf)
           /\ Sendable(c, cwnd) <= usable_window(c, cwnd)
<1> DEFINE avail == AtMost(usable_window(c, cwnd), Len(c.send_buf))
<1>1. Len(c.send_buf) \in Nat
  BY LenProperties DEF ConnOK, Connection
<1>2. avail \in Nat /\ avail <= Len(c.send_buf) /\ avail <= usable_window(c, cwnd)
  BY <1>1, UsableWindowType, AtMostType
<1>3. usable_window(c, cwnd) \in Nat
  BY UsableWindowType
<1> HIDE DEF avail
<1>4. avail % Mss \in Nat /\ avail % Mss <= avail
  BY <1>2, ConnectionAssumption
<1> DEFINE tail == avail % Mss
<1>5. Sendable(c, cwnd) =
         IF c.nagle /\ ~(flight_size(c) = 0 /\ avail < Mss) THEN avail - tail ELSE avail
  BY DEF Sendable, avail
<1>6. tail \in Nat /\ tail <= avail
  BY <1>4
<1> HIDE DEF tail
<1>7. avail - tail \in Nat /\ avail - tail <= avail
  BY <1>2, <1>6
<1>8. Sendable(c, cwnd) \in Nat /\ Sendable(c, cwnd) <= avail
  BY <1>2, <1>5, <1>7
<1> QED BY <1>1, <1>2, <1>3, <1>8

\* Sending the first bytes of the buffer keeps the connection well typed.
LEMMA SendBytesType ==
    ASSUME NEW c, ConnOK(c), NEW n \in Nat, n <= Len(c.send_buf), NEW now \in SeqNum
    PROVE  ConnOK(SendBytes(c, n, now).tcb)
<1> DEFINE Chunk(i) == SubSeq(c.send_buf, i * Mss + 1, AtMost(n, (i + 1) * Mss))
           Start(i) == wrapping_add(c.nxt, i * Mss)
           Pkt(i)   == segment(c, Start(i), c.rcv_nxt, {"ACK"}, Chunk(i), now)
           Idx      == {i \in 0 .. n - 1 : i * Mss < n}
           Entry(i) == [start |-> Start(i), end |-> fin_seq(Pkt(i)), pkt |-> Pkt(i),
                        retried |-> FALSE, sacked |-> FALSE]
<1>1. /\ c.send_buf \in Seq(Byte) /\ c.nxt \in SeqNum /\ c.rcv_nxt \in SeqNum
      /\ c.retx \in SUBSET Unacked /\ Mss \in Nat
  BY ConnectionAssumption DEF ConnOK, Connection
<1>2. Len(c.send_buf) \in Nat
  BY <1>1, LenProperties
<1>3. \A i \in Idx : Entry(i) \in Unacked
  <2> TAKE i \in Idx
  <2>1. i \in Nat /\ i * Mss \in Nat /\ (i + 1) * Mss \in Nat
    BY <1>1
  <2>2. AtMost(n, (i + 1) * Mss) \in Nat /\ AtMost(n, (i + 1) * Mss) <= n
    BY <2>1, AtMostType
  <2>3. Chunk(i) \in Seq(Byte)
    BY <1>1, <1>2, <2>1, <2>2, SubSeqType
  <2>4. Start(i) \in SeqNum
    BY <1>1, <2>1, AddType
  <2>5. {"ACK"} \in SUBSET Flag
    BY DEF Flag
  <2>6. Pkt(i) \in Segment
    <3> HIDE DEF Chunk, Start
    <3> QED BY <1>1, <2>3, <2>4, <2>5, SegmentType
  <2>7. fin_seq(Pkt(i)) \in SeqNum
    <3> HIDE DEF Pkt
    <3> QED BY <2>6, SegmentFields
  <2> HIDE DEF Pkt, Start
  <2> QED BY <2>4, <2>6, <2>7 DEF Unacked
<1>4. SubSeq(c.send_buf, n + 1, Len(c.send_buf)) \in Seq(Byte)
  BY <1>1, <1>2, SubSeqType
<1>5. wrapping_add(c.nxt, n) \in SeqNum
  BY <1>1, AddType
<1>6. c.retx \cup {Entry(i) : i \in Idx} \in SUBSET Unacked
  <2> HIDE DEF Entry, Idx
  <2> QED BY <1>1, <1>3
<1> DEFINE q == c.retx \cup {Entry(i) : i \in Idx}
           d == [c EXCEPT !.send_buf = SubSeq(@, n + 1, Len(@)),
                          !.nxt = wrapping_add(@, n), !.retx = q]
<1>7. ConnOK(d)
  <2> HIDE DEF q
  <2> QED BY <1>4, <1>5, <1>6 DEF ConnOK, Connection, q
<1>8. SendBytes(c, n, now).tcb = d
  BY DEF SendBytes, Result, ConnOK, Connection
<1> QED BY <1>7, <1>8

\* Resending entries of the queue does too.
LEMMA ResendConnType ==
    ASSUME NEW c, ConnOK(c), NEW R \in SUBSET c.retx
    PROVE  ConnOK([c EXCEPT !.retx = Resend(@, R)])
<1>1. Resend(c.retx, R) \in SUBSET Unacked
  BY ResendType DEF ConnOK, Connection
<1> QED BY <1>1 DEF ConnOK, Connection

\* poll_transmit, in and outside SACK recovery.
LEMMA PollTransmitType ==
    ASSUME NEW c, ConnOK(c), NEW cwnd \in Nat, NEW now \in SeqNum
    PROVE  ConnOK(poll_transmit(c, cwnd, now).tcb)
<1> DEFINE limit == AtMost(c.wnd, cwnd)
           lost  == LostWithin(c.retx, limit)
           c1    == [c EXCEPT !.retx = Resend(@, lost)]
           room  == IF limit > pipe(c1.retx) THEN limit - pipe(c1.retx) ELSE 0
           n     == AtMost(room, Len(c.send_buf))
           new   == SendBytes(c1, n, now)
<1>1. Len(c.send_buf) \in Nat /\ c.wnd \in Nat
  BY LenProperties DEF ConnOK, Connection
<1>2. limit \in Nat
  BY <1>1, AtMostType
<1>3. lost \in SUBSET c.retx
  BY DEF LostWithin
<1>4. ConnOK(c1)
  <2> HIDE DEF lost
  <2> QED BY <1>3, ResendConnType
<1>5. c1.send_buf = c.send_buf
  BY DEF ConnOK, Connection
<1>6. room \in Nat
  <2> HIDE DEF limit, c1
  <2>1. pipe(c1.retx) \in Nat
    BY <1>4, PipeType DEF ConnOK, Connection
  <2> QED BY <1>2, <2>1
<1>7. n \in Nat /\ n <= Len(c.send_buf)
  <2> HIDE DEF room
  <2> QED BY <1>1, <1>6, AtMostType
<1>8. ConnOK(new.tcb)
  <2> HIDE DEF n, c1
  <2> QED BY <1>4, <1>5, <1>7, SendBytesType
<1>9. ConnOK(SendBytes(c, Sendable(c, cwnd), now).tcb)
  BY SendableType, SendBytesType
<1>10. poll_transmit(c, cwnd, now).tcb \in {c, new.tcb, SendBytes(c, Sendable(c, cwnd), now).tcb}
  BY DEF poll_transmit, Result, SendBytes
<1> QED BY <1>8, <1>9, <1>10

\* What RACK, the loss probe and the RTO do.
LEMMA RetransmitType ==
    ASSUME NEW c, ConnOK(c), NEW R \in SUBSET c.retx, NEW rto \in BOOLEAN
    PROVE  ConnOK(Retransmit(c, R, rto))
<1> DEFINE q == Resend(c.retx, R)
           dups == IF rto THEN 0 ELSE c.dup_acks
           rec == c.in_recovery /\ ~rto
<1>1. q \in SUBSET Unacked /\ dups \in 0 .. DupThresh + 1 /\ rec \in BOOLEAN
  BY ResendType, DupThreshAssumption DEF ConnOK, Connection
<1>2. Retransmit(c, R, rto) = [c EXCEPT !.retx = q, !.dup_acks = dups, !.in_recovery = rec]
  BY DEF Retransmit, ConnOK, Connection
<1> HIDE DEF q, dups, rec
<1> QED BY <1>1, <1>2 DEF ConnOK, Connection

\* The persist timer takes a byte only when there is one.
LEMMA PersistTickType ==
    ASSUME NEW c, ConnOK(c), NEW elapsed, NEW now \in SeqNum
    PROVE  ConnOK(PersistTick(c, elapsed, now).tcb)
<1> DEFINE shut  == c.state \in SendOpen /\ c.wnd = 0 /\ c.send_buf # << >> /\ flight_size(c) = 0
           probe == segment(c, c.nxt, c.rcv_nxt, {"ACK"}, SubSeq(c.send_buf, 1, 1), now)
           d     == Sent(c, c.nxt, 1, probe)
<1>1. c.nxt \in SeqNum /\ c.rcv_nxt \in SeqNum /\ c.send_buf \in Seq(Byte)
  BY DEF ConnOK, Connection
<1>2. ASSUME shut PROVE ConnOK([d EXCEPT !.send_buf = Tail(@), !.persist = FALSE])
  <2>1. Len(c.send_buf) \in Nat /\ 1 <= Len(c.send_buf)
    BY <1>1, <1>2, LenProperties, EmptySeq
  <2>2. SubSeq(c.send_buf, 1, 1) \in Seq(Byte)
    BY <1>1, <2>1, SubSeqType
  <2>3. {"ACK"} \in SUBSET Flag
    BY DEF Flag
  <2>4. probe \in Segment
    BY <1>1, <2>2, <2>3, SegmentType
  <2>5. ConnOK(d) /\ d.send_buf = c.send_buf
    <3> HIDE DEF probe
    <3>1. ConnOK(Sent(c, c.nxt, 1, probe))
      BY <1>1, <2>4, SentType
    <3> QED BY <3>1 DEF Sent, ConnOK, Connection
  <2>6. Tail(c.send_buf) \in Seq(Byte)
    BY <1>1, <1>2, HeadTailProperties
  <2> HIDE DEF d
  <2> QED BY <2>5, <2>6 DEF ConnOK, Connection
<1>3. ConnOK([c EXCEPT !.persist = shut])
  <2>1. shut \in BOOLEAN
    OBVIOUS
  <2> HIDE DEF shut
  <2> QED BY <2>1 DEF ConnOK, Connection
<1>4. CASE shut /\ c.persist /\ elapsed
  BY <1>2, <1>4 DEF PersistTick, Result
<1>5. CASE ~(shut /\ c.persist /\ elapsed)
  BY <1>3, <1>5 DEF PersistTick, Result
<1> QED BY <1>4, <1>5

\* The keepalive counter stays within its limit.
LEMMA KeepaliveTickType ==
    ASSUME NEW c, ConnOK(c), NEW due, NEW now
    PROVE  ConnOK(KeepaliveTick(c, due, now).tcb)
<1>1. ConnOK([c EXCEPT !.state = "Closed"])
  BY StateType DEF State
<1>2. ASSUME ~(c.keepalive_probes_sent >= KeepaliveProbes)
      PROVE  ConnOK([c EXCEPT !.keepalive_probes_sent = @ + 1])
  <2>1. c.keepalive_probes_sent \in 0 .. KeepaliveProbes
    BY DEF ConnOK, Connection
  <2>2. c.keepalive_probes_sent + 1 \in 0 .. KeepaliveProbes
    BY <1>2, <2>1, ConnectionAssumption
  <2> QED BY <2>2 DEF ConnOK, Connection
<1> QED BY <1>1, <1>2 DEF KeepaliveTick, Result

\* Whichever timers have elapsed, on_tick leaves a connection.
LEMMA OnTickType ==
    ASSUME NEW c, ConnOK(c), NEW t, t.resend \in SUBSET c.retx, t.rto \in BOOLEAN,
           NEW now \in SeqNum
    PROVE  ConnOK(on_tick(c, t, now).tcb)
<1> DEFINE c0 == Expire(c, t.expired)
           c1 == Retransmit(c0, t.resend, t.rto)
           p  == PersistTick(c1, t.persist, now)
           k  == KeepaliveTick(p.tcb, t.keepalive, now)
<1>1. ConnOK(c0) /\ c0.retx = c.retx
  <2>1. ConnOK([c EXCEPT !.state = "Closed"])
    BY StateType DEF State
  <2>2. [c EXCEPT !.state = "Closed"].retx = c.retx
    BY DEF ConnOK, Connection
  <2> QED BY <2>1, <2>2 DEF Expire
<1>2. ConnOK(c1)
  <2> HIDE DEF c0
  <2> QED BY <1>1, RetransmitType
<1>3. ConnOK(p.tcb)
  <2> HIDE DEF c1
  <2> QED BY <1>2, PersistTickType
<1>4. ConnOK(k.tcb)
  <2> HIDE DEF p
  <2> QED BY <1>3, KeepaliveTickType
<1> QED BY <1>4 DEF on_tick, Result

-----------------------------------------------------------------------------
(* What a method may do *)


Opening == {"SynSent", "SynRcvd"}

\* Our FIN is out and not acknowledged.
FinPending == {"FinWait1", "Closing", "LastAck"}

\* Our send side is final.
FinOut == FinPending \cup {"FinWait2", "TimeWait", "Closed"}

\* State and peer's FIN from c to d: the edges of RFC 9293's diagram that a
\* single call may take.
Moves(c, d) ==
    \/ d.state = c.state /\ d.peer_fin = c.peer_fin
    \/ d.state = "Closed" /\ d.peer_fin = c.peer_fin
    \/ c.state \in Opening /\ d.state = "Established" /\ d.peer_fin = c.peer_fin
    \/ c.state = "SynRcvd" /\ d.state = "CloseWait" /\ d.peer_fin = TRUE
    \/ c.state = "Established" /\ d.state = "CloseWait" /\ d.peer_fin = TRUE
    \/ c.state = "Established" /\ d.state = "FinWait1" /\ d.peer_fin = c.peer_fin
    \/ c.state = "CloseWait" /\ d.state = "LastAck" /\ d.peer_fin = c.peer_fin
    \/ c.state = "FinWait1" /\ d.state = "FinWait2" /\ d.peer_fin = c.peer_fin
    \/ c.state = "FinWait1" /\ d.state \in {"Closing", "TimeWait"} /\ d.peer_fin = TRUE
    \/ c.state = "FinWait2" /\ d.state = "TimeWait" /\ d.peer_fin = TRUE
    \/ c.state = "Closing" /\ d.state = "TimeWait" /\ d.peer_fin = c.peer_fin

\* Every entry of q is, but for its marks, an entry of r.
Within(q, r) == \A s \in q : \E t \in r : s.start = t.start /\ s.end = t.end /\ s.pkt = t.pkt

FinQueued(c) == \E s \in c.retx : "FIN" \in s.pkt.flags /\ s.end = c.nxt

UnaMoves(c, d) ==
    \/ d.una = c.una
    \/ between(c.una, d.una, c.nxt)
    \/ c.state \in Opening /\ d.una = c.nxt

Effect(c, d) ==
    /\ Moves(c, d)
    /\ UnaMoves(c, d)
    /\ c.state \in Opening /\ d.state \in Opening => d.una = c.una /\ d.nxt = c.nxt
    /\ c.state \in FinOut => d.nxt = c.nxt /\ Within(d.retx, c.retx)
    /\ c.state \in FinPending /\ d.state \in FinPending => Within(c.retx, d.retx)
    /\ c.state \notin FinPending /\ d.state \in FinPending => FinQueued(d)

-----------------------------------------------------------------------------
(* The queue *)

\* Resending entries changes no entry but for its marks.
LEMMA ResendWithin ==
    ASSUME NEW q \in SUBSET Unacked, NEW R \in SUBSET q
    PROVE  Within(Resend(q, R), q) /\ Within(q, Resend(q, R))
<1>1. \A s \in R : LET u == [s EXCEPT !.retried = TRUE]
                   IN  u.start = s.start /\ u.end = s.end /\ u.pkt = s.pkt
  BY DEF Unacked
<1>2. Within(Resend(q, R), q)
  BY <1>1 DEF Within, Resend
<1>3. ASSUME NEW s \in q
      PROVE  \E t \in Resend(q, R) : s.start = t.start /\ s.end = t.end /\ s.pkt = t.pkt
  <2>1. CASE s \in R
    <3> DEFINE u == [s EXCEPT !.retried = TRUE]
    <3>1. u \in Resend(q, R)
      BY <2>1 DEF Resend
    <3> QED BY <1>1, <2>1, <3>1
  <2>2. CASE s \notin R
    BY <2>2 DEF Resend
  <2> QED BY <2>1, <2>2
<1> QED BY <1>2, <1>3 DEF Within

\* A queue lies within itself.
LEMMA WithinReflexive == ASSUME NEW q PROVE Within(q, q)
BY DEF Within

\* Dropping acknowledged entries adds none.
LEMMA AckWithin == ASSUME NEW q, NEW una PROVE Within(ack(q, una), q)
BY DEF Within, ack

-----------------------------------------------------------------------------
(* Receiving a segment *)

\* What the ESTABLISHED and CLOSE_WAIT branch does after the ACK is dealt with.
Consumes(c, d) ==
    /\ d.una = c.una /\ d.nxt = c.nxt
    /\ \/ d.state = c.state /\ d.peer_fin = c.peer_fin
       \/ c.state = "Established" /\ d.state = "CloseWait" /\ d.peer_fin = TRUE

\* Delivering payload touches the receive side only.
LEMMA DeliverDataEffect ==
    ASSUME NEW c, ConnOK(c), NEW s
    PROVE  LET d == DeliverData(c, s).tcb
           IN  /\ d.una = c.una /\ d.nxt = c.nxt /\ d.retx = c.retx
               /\ d.state = c.state /\ d.peer_fin = c.peer_fin
BY DEF DeliverData, Result, ConnOK, Connection

\* Taking in the peer's FIN leaves the send side alone.
LEMMA ConsumeFinEffect ==
    ASSUME NEW c, ConnOK(c), NEW next
    PROVE  LET d == ConsumeFin(c, next)
           IN  /\ d.una = c.una /\ d.nxt = c.nxt /\ d.retx = c.retx
               /\ d.state = next /\ d.peer_fin = TRUE
BY DEF ConsumeFin, ConnOK, Connection

\* The data half of ESTABLISHED and CLOSE_WAIT moves at most to CLOSE_WAIT, and only with the peer's FIN.
LEMMA OnOpenDataEffect ==
    ASSUME NEW c, ConnOK(c), NEW s \in Segment, NEW now
    PROVE  Consumes(c, OnOpenData(c, s, now).tcb)
<1> DEFINE c1  == DeliverData(c, s).tcb
           c2  == IF "FIN" \in s.flags /\ c1.state = "Established" /\ ~before(fin_seq(s), c1.rcv_nxt)
                  THEN [c1 EXCEPT !.pending_fin = fin_seq(s)] ELSE c1
           c3  == [ConsumeFin(c2, "CloseWait") EXCEPT !.pending_fin = NoFin]
<1>1. ConnOK(c1) /\ c1.una = c.una /\ c1.nxt = c.nxt /\ c1.state = c.state /\ c1.peer_fin = c.peer_fin
  BY DeliverDataType, DeliverDataEffect
<1>2. ConnOK(c2) /\ c2.una = c.una /\ c2.nxt = c.nxt /\ c2.state = c.state /\ c2.peer_fin = c.peer_fin
  <2> HIDE DEF c1
  <2> QED BY <1>1, SegmentFields DEF ConnOK, Connection
<1>3. c3.una = c.una /\ c3.nxt = c.nxt /\ c3.state = "CloseWait" /\ c3.peer_fin = TRUE
  <2> DEFINE cf == ConsumeFin(c2, "CloseWait")
  <2> HIDE DEF c2
  <2>1. ConnOK(cf)
    BY <1>2, ConsumeFinType DEF State
  <2>2. cf.una = c.una /\ cf.nxt = c.nxt /\ cf.state = "CloseWait" /\ cf.peer_fin = TRUE
    BY <1>2, ConsumeFinEffect
  <2> HIDE DEF cf
  <2>3. c3 = [cf EXCEPT !.pending_fin = NoFin]
    BY DEF cf
  <2> HIDE DEF c3
  <2> QED BY <2>1, <2>2, <2>3 DEF ConnOK, Connection
<1>4. OnOpenData(c, s, now).tcb \in {c1, c2}
        \/ (c2.state = "Established" /\ OnOpenData(c, s, now).tcb = c3)
  BY DEF OnOpenData, DeliverData, Result, FinDue
<1> HIDE DEF c1, c2, c3
<1> QED BY <1>1, <1>2, <1>3, <1>4 DEF Consumes

\* A fast retransmission instead of the data changes no number and no state.
LEMMA FastRetransmitOrEffect ==
    ASSUME NEW c, ConnOK(c), NEW s \in Segment, NEW now
    PROVE  Consumes(c, FastRetransmitOr(c, s, now).tcb)
<1>1. Consumes(c, OnOpenData(c, s, now).tcb)
  BY OnOpenDataEffect
<1>2. Consumes(c, [c EXCEPT !.retx = Resend(@, FirstHole(c.retx))])
  BY DEF Consumes, ConnOK, Connection
<1> QED BY <1>1, <1>2 DEF FastRetransmitOr, Result

\* An ACK moves SND.UNA to SEG.ACK, and only when that is new.
Opens(c, d, s) ==
    /\ d.nxt = c.nxt
    /\ d.una = c.una \/ (d.una = s.ack /\ between(c.una, s.ack, c.nxt))
    /\ \/ d.state = c.state /\ d.peer_fin = c.peer_fin
       \/ c.state = "Established" /\ d.state = "CloseWait" /\ d.peer_fin = TRUE

\* Of the ACK branches only the one for new data moves SND.UNA, to SEG.ACK.
LEMMA OnOpenAckEffect ==
    ASSUME NEW c, ConnOK(c), NEW prev_wnd, NEW s \in Segment, NEW now
    PROVE  Opens(c, OnOpenAck(c, prev_wnd, s, now).tcb, s)
<1> DEFINE acked   == [c EXCEPT !.una = s.ack, !.retx = ack(@, s.ack), !.dup_acks = 0]
           count   == IF c.dup_acks > DupThresh THEN c.dup_acks ELSE c.dup_acks + 1
           counted == [c EXCEPT !.dup_acks = count]
           started == [counted EXCEPT !.in_recovery = TRUE, !.recover = c.nxt]
           ended   == [acked EXCEPT !.in_recovery = FALSE]
           Same(d) == d.nxt = c.nxt /\ d.state = c.state /\ d.peer_fin = c.peer_fin
<1>1. s.ack \in SeqNum /\ ack(c.retx, s.ack) \in SUBSET Unacked /\ 0 \in 0 .. DupThresh + 1
  BY SegmentFields, AckType, DupThreshAssumption DEF ConnOK, Connection
<1>2. ConnOK(acked) /\ Same(acked) /\ acked.una = s.ack
  BY <1>1 DEF ConnOK, Connection
<1>3. ConnOK(ended) /\ Same(ended) /\ ended.una = s.ack
  <2> HIDE DEF acked
  <2> QED BY <1>2 DEF ConnOK, Connection
<1>4. count \in 0 .. DupThresh + 1
  BY DupThreshAssumption DEF ConnOK, Connection
<1>5. ConnOK(counted) /\ Same(counted) /\ counted.una = c.una
  <2> HIDE DEF count
  <2> QED BY <1>4 DEF ConnOK, Connection
<1>6. ConnOK(started) /\ Same(started) /\ started.una = c.una
  <2>1. c.nxt \in SeqNum
    BY DEF ConnOK, Connection
  <2> HIDE DEF counted
  <2> QED BY <1>5, <2>1 DEF ConnOK, Connection
<1> HIDE DEF acked, counted, started, ended, count
<1>7. /\ Consumes(acked, FastRetransmitOr(acked, s, now).tcb)
      /\ Consumes(ended, OnOpenData(ended, s, now).tcb)
      /\ Consumes(started, FastRetransmitOr(started, s, now).tcb)
      /\ Consumes(counted, OnOpenData(counted, s, now).tcb)
      /\ Consumes(c, OnOpenData(c, s, now).tcb)
  BY <1>2, <1>3, <1>5, <1>6, OnOpenDataEffect, FastRetransmitOrEffect
<1>8. \/ /\ between(c.una, s.ack, c.nxt)
         /\ OnOpenAck(c, prev_wnd, s, now) \in
               {FastRetransmitOr(acked, s, now), OnOpenData(ended, s, now)}
      \/ OnOpenAck(c, prev_wnd, s, now) \in
            {FastRetransmitOr(started, s, now), OnOpenData(counted, s, now), OnOpenData(c, s, now)}
  BY DEF OnOpenAck, AcksNewData, acked, counted, started, ended, count
<1> QED BY <1>2, <1>3, <1>5, <1>6, <1>7, <1>8 DEF Consumes, Opens

\* PAWS, the window update and SACK marking change none of the fields of Opens.
LEMMA OnOpenEffect ==
    ASSUME NEW c, ConnOK(c), NEW s \in Segment, NEW throttled, NEW now
    PROVE  Opens(c, OnOpen(c, s, throttled, now).tcb, s)
<1> DEFINE ts    == c.ts_enabled /\ "TS" \in s.opts
           fresh == [c EXCEPT
                       !.ts_recent = IF ts /\ UpdatesTsRecent(c, s) THEN s.tsval ELSE @,
                       !.wnd = s.window,
                       !.max_snd_wnd = IF s.window > @ THEN s.window ELSE @]
           marked == IF c.sack_ok THEN [fresh EXCEPT !.retx = mark_sacked(@, s.sack)] ELSE fresh
           Same(d) == /\ d.nxt = c.nxt /\ d.una = c.una
                      /\ d.state = c.state /\ d.peer_fin = c.peer_fin
<1>1. ConnOK(fresh) /\ Same(fresh)
  <2> HIDE DEF ts
  <2> QED BY SegmentFields DEF ConnOK, Connection
<1>2. ConnOK(marked) /\ Same(marked)
  <2> HIDE DEF fresh
  <2>1. mark_sacked(fresh.retx, s.sack) \in SUBSET Unacked
    BY <1>1, MarkSackedType DEF ConnOK, Connection
  <2> QED BY <1>1, <2>1 DEF ConnOK, Connection
<1> HIDE DEF fresh, marked
<1>3. /\ Consumes(fresh, OnOpenData(fresh, s, now).tcb)
      /\ Opens(marked, OnOpenAck(marked, c.wnd, s, now).tcb, s)
      /\ maybe_challenge(fresh, throttled, now).tcb = fresh
      /\ Result(c, {AckNow(c, now)}).tcb = c
  BY <1>1, <1>2, OnOpenDataEffect, OnOpenAckEffect DEF maybe_challenge, Result
<1>4. OnOpen(c, s, throttled, now) \in
         {OnOpenData(fresh, s, now), OnOpenAck(marked, c.wnd, s, now),
          maybe_challenge(fresh, throttled, now), Result(c, {AckNow(c, now)})}
  BY DEF OnOpen, fresh, marked
<1> QED BY <1>1, <1>2, <1>3, <1>4 DEF Consumes, Opens

\* Nothing but the marks of the queue changes.
Still(c, d) ==
    /\ d.una = c.una /\ d.nxt = c.nxt /\ d.state = c.state /\ d.peer_fin = c.peer_fin
    /\ Within(d.retx, c.retx) /\ Within(c.retx, d.retx)

\* Changing no more than marks is an Effect.
LEMMA StillEffect == ASSUME NEW c, NEW d, Still(c, d) PROVE Effect(c, d)
BY DEF Still, Effect, Moves, UnaMoves

\* Doing nothing is an Effect.
LEMMA SameEffect == ASSUME NEW c PROVE Effect(c, c)
BY WithinReflexive, StillEffect DEF Still

\* Going to CLOSED from anywhere, the queue untouched, is an Effect.
LEMMA ClosedEffect ==
    ASSUME NEW c, ConnOK(c)
    PROVE  Effect(c, [c EXCEPT !.state = "Closed"])
<1> DEFINE d == [c EXCEPT !.state = "Closed"]
<1>1. /\ d.una = c.una /\ d.nxt = c.nxt /\ d.state = "Closed" /\ d.peer_fin = c.peer_fin
      /\ d.retx = c.retx
  BY DEF ConnOK, Connection
<1> HIDE DEF d
<1> SUFFICES Effect(c, d)
  BY DEF d
<1> QED BY <1>1, WithinReflexive DEF Effect, Moves, UnaMoves, Opening, FinPending

\* What an open connection does with a segment is an Effect.
LEMMA OpensEffect ==
    ASSUME NEW c, NEW d, NEW s, c.state \in SendOpen, Opens(c, d, s)
    PROVE  Effect(c, d)
BY DEF Opens, Effect, Moves, UnaMoves, SendOpen, Opening, FinOut, FinPending

\* A RST closes the connection or changes nothing.
LEMMA OnRstEffect ==
    ASSUME NEW c, ConnOK(c), NEW s, NEW throttled, NEW now
    PROVE  Effect(c, on_rst(c, s, throttled, now).tcb)
<1>1. on_rst(c, s, throttled, now).tcb \in {c, [c EXCEPT !.state = "Closed"]}
  BY DEF on_rst, maybe_challenge, Result
<1> QED BY <1>1, ClosedEffect, SameEffect

\* In SYN_SENT the SYN-ACK establishes the connection, with all we sent acknowledged.
LEMMA OnSynSentEffect ==
    ASSUME NEW c, ConnOK(c), NEW s \in Segment, NEW now, c.state = "SynSent"
    PROVE  Effect(c, OnSynSent(c, s, now).tcb)
<1> DEFINE d == OnSynSent(c, s, now).tcb
<1>1. \/ d = c
      \/ d.una = c.nxt /\ d.state = "Established" /\ d.peer_fin = c.peer_fin
  BY DEF OnSynSent, AcksNxt, Result, ConnOK, Connection
<1> HIDE DEF d
<1>2. CASE d = c
  BY <1>2, SameEffect DEF d
<1>3. CASE d.una = c.nxt /\ d.state = "Established" /\ d.peer_fin = c.peer_fin
  <2>1. Effect(c, d)
    BY <1>3 DEF Effect, Moves, UnaMoves, Opening, FinOut, FinPending
  <2> QED BY <2>1 DEF d
<1> QED BY <1>1, <1>2, <1>3

\* FIN_WAIT_1 and FIN_WAIT_2: the ACK of our FIN, the peer's FIN, both or neither.
LEMMA OnFinWaitEffect ==
    ASSUME NEW c, ConnOK(c), NEW s \in Segment, NEW now, c.state \in {"FinWait1", "FinWait2"}
    PROVE  Effect(c, OnFinWait(c, s, now).tcb)
<1> DEFINE finAcked == c.state = "FinWait1" /\ AcksNxt(c, s)
           c0 == IF finAcked THEN [c EXCEPT !.retx = ack(@, s.ack)] ELSE c
           c1 == DeliverData(c0, s).tcb
           next == IF finAcked \/ c.state = "FinWait2" THEN "TimeWait" ELSE "Closing"
           c2 == ConsumeFin(c1, next)
           c3 == IF finAcked THEN [c1 EXCEPT !.state = "FinWait2"] ELSE c1
           Same(d) == d.una = c.una /\ d.nxt = c.nxt /\ Within(d.retx, c.retx)
                      /\ (~finAcked => d.retx = c.retx)
<1>1. ConnOK(c0) /\ Same(c0) /\ c0.state = c.state /\ c0.peer_fin = c.peer_fin
  <2> HIDE DEF finAcked
  <2>1. ack(c.retx, s.ack) \in SUBSET Unacked
    BY AckType DEF ConnOK, Connection
  <2> QED BY <2>1, AckWithin, WithinReflexive DEF ConnOK, Connection
<1>2. ConnOK(c1) /\ Same(c1) /\ c1.state = c.state /\ c1.peer_fin = c.peer_fin
  <2> HIDE DEF c0, finAcked
  <2> QED BY <1>1, DeliverDataType, DeliverDataEffect
<1>3. Same(c2) /\ c2.state = next /\ c2.peer_fin = TRUE
  <2> HIDE DEF c1, finAcked, next
  <2> QED BY <1>2, ConsumeFinEffect
<1>4. Same(c3) /\ c3.state = (IF finAcked THEN "FinWait2" ELSE c.state) /\ c3.peer_fin = c.peer_fin
  <2> HIDE DEF c1, finAcked
  <2> QED BY <1>2 DEF ConnOK, Connection
<1>5. OnFinWait(c, s, now).tcb \in {c2, c3}
  BY DEF OnFinWait, DeliverData, Result
<1>6. Effect(c, c2)
  <2> HIDE DEF c2
  <2>1. finAcked => c.state = "FinWait1"
    OBVIOUS
  <2> HIDE DEF finAcked
  <2> QED BY <1>3, <2>1, WithinReflexive DEF Effect, Moves, UnaMoves, Opening, FinOut, FinPending
<1>7. Effect(c, c3)
  <2> HIDE DEF c3
  <2>1. finAcked => c.state = "FinWait1"
    OBVIOUS
  <2> HIDE DEF finAcked
  <2> QED BY <1>4, <2>1, WithinReflexive DEF Effect, Moves, UnaMoves, Opening, FinOut, FinPending
<1> QED BY <1>5, <1>6, <1>7

\* LAST_ACK and CLOSING end with the ACK of our FIN.
LEMMA OnFinAckOnlyEffect ==
    ASSUME NEW c, ConnOK(c), NEW s \in Segment, c.state \in {"LastAck", "Closing"}
    PROVE  Effect(c, OnFinAckOnly(c, s).tcb)
<1> DEFINE next == IF c.state = "LastAck" THEN "Closed" ELSE "TimeWait"
           d == [c EXCEPT !.retx = ack(@, s.ack), !.state = next]
<1>1. /\ d.una = c.una /\ d.nxt = c.nxt /\ d.peer_fin = c.peer_fin /\ d.state = next
      /\ d.retx = ack(c.retx, s.ack)
  BY DEF ConnOK, Connection
<1> HIDE DEF d
<1>2. Effect(c, d)
  BY <1>1, AckWithin DEF Effect, Moves, UnaMoves, Opening, FinOut, FinPending
<1>3. OnFinAckOnly(c, s).tcb \in {c, d}
  BY DEF OnFinAckOnly, Result, d
<1> QED BY <1>2, <1>3, SameEffect

\* The dispatch on the synchronized states.
LEMMA OnSynchronizedEffect ==
    ASSUME NEW c, ConnOK(c), NEW s \in Segment, NEW throttled, NEW now
    PROVE  Effect(c, OnSynchronized(c, s, throttled, now).tcb)
<1> DEFINE d == OnSynchronized(c, s, throttled, now).tcb
<1>1. CASE c.state \in SendOpen
  <2>1. d = OnOpen(c, s, throttled, now).tcb
    BY <1>1 DEF OnSynchronized, SendOpen
  <2> QED BY <1>1, <2>1, OnOpenEffect, OpensEffect
<1>2. CASE c.state \in {"FinWait1", "FinWait2"}
  <2>1. d = OnFinWait(c, s, now).tcb
    BY <1>2 DEF OnSynchronized, SendOpen
  <2> QED BY <1>2, <2>1, OnFinWaitEffect
<1>3. CASE c.state \in {"LastAck", "Closing"}
  <2>1. d = OnFinAckOnly(c, s).tcb
    BY <1>3 DEF OnSynchronized, SendOpen
  <2> QED BY <1>3, <2>1, OnFinAckOnlyEffect
<1>4. CASE c.state \notin SendOpen \cup {"FinWait1", "FinWait2", "LastAck", "Closing"}
  <2>1. d = c
    BY <1>4 DEF OnSynchronized, SendOpen, Result
  <2> QED BY <2>1, SameEffect
<1> QED BY <1>1, <1>2, <1>3, <1>4

\* The ACK of our SYN-ACK acknowledges all we sent, and the data it carries is processed at once.
LEMMA OnSynRcvdEffect ==
    ASSUME NEW c, ConnOK(c), NEW s \in Segment, NEW throttled, NEW now, c.state = "SynRcvd"
    PROVE  Effect(c, OnSynRcvd(c, s, throttled, now).tcb)
<1> DEFINE est == [c EXCEPT !.una = s.ack, !.retx = ack(@, s.ack), !.state = "Established"]
           d   == OnOpen(est, s, throttled, now).tcb
<1>1. ConnOK(est)
  <2>1. s.ack \in SeqNum /\ ack(c.retx, s.ack) \in SUBSET Unacked
    BY SegmentFields, AckType DEF ConnOK, Connection
  <2> QED BY <2>1 DEF ConnOK, Connection, State
<1>2. est.una = s.ack /\ est.nxt = c.nxt /\ est.state = "Established" /\ est.peer_fin = c.peer_fin
  BY DEF ConnOK, Connection
<1> HIDE DEF est
<1>3. Opens(est, d, s)
  BY <1>1, OnOpenEffect
<1>4. \/ OnSynRcvd(c, s, throttled, now).tcb = c
      \/ s.ack = c.nxt /\ OnSynRcvd(c, s, throttled, now).tcb = d
  BY <1>2 DEF OnSynRcvd, OnSynchronized, SendOpen, AcksNxt, Result, est
<1>5. ASSUME s.ack = c.nxt PROVE Effect(c, d)
  <2> HIDE DEF d
  <2> QED BY <1>2, <1>3, <1>5 DEF Opens, Effect, Moves, UnaMoves, Opening, FinOut, FinPending
<1> QED BY <1>4, <1>5, SameEffect

\* Whatever segment arrives in whatever state, on_segment has an Effect.
LEMMA OnSegmentEffect ==
    ASSUME NEW c0, ConnOK(c0), NEW s \in Segment, NEW throttled, NEW now
    PROVE  Effect(c0, on_segment(c0, s, throttled, now).tcb)
<1> DEFINE c == [c0 EXCEPT !.keepalive_probes_sent = 0]
           d == on_segment(c0, s, throttled, now).tcb
<1>1. ConnOK(c)
  BY ConnectionAssumption DEF ConnOK, Connection
<1>2. /\ c.una = c0.una /\ c.nxt = c0.nxt /\ c.state = c0.state /\ c.peer_fin = c0.peer_fin
      /\ c.retx = c0.retx
  BY DEF ConnOK, Connection
<1>3. d \in {on_rst(c, s, throttled, now).tcb, maybe_challenge(c, throttled, now).tcb,
             OnSynchronized(c, s, throttled, now).tcb}
      \/ (c.state = "SynSent" /\ d = OnSynSent(c, s, now).tcb)
      \/ (c.state = "SynRcvd" /\ d = OnSynRcvd(c, s, throttled, now).tcb)
  <2> HIDE DEF c
  <2> QED BY DEF on_segment, c
<1> HIDE DEF c, d
<1>4. maybe_challenge(c, throttled, now).tcb = c
  BY DEF maybe_challenge, Result
<1>5. Effect(c, d)
  BY <1>1, <1>3, <1>4, OnRstEffect, SameEffect, OnSynchronizedEffect, OnSynSentEffect,
     OnSynRcvdEffect
<1>6. Effect(c0, d)
  BY <1>2, <1>5 DEF Effect, Moves, UnaMoves
<1> QED BY <1>6 DEF d

-----------------------------------------------------------------------------
(* Closing, transmission and timers *)

\* close queues the FIN it sends, at the new SND.NXT.
LEMMA CloseEffect ==
    ASSUME NEW c, ConnOK(c), NEW now
    PROVE  Effect(c, close(c, now).tcb)
<1> DEFINE fin == segment(c, c.nxt, c.rcv_nxt, {"FIN", "ACK"}, << >>, now)
           end == wrapping_add(c.nxt, 1)
           u == [start |-> c.nxt, end |-> end, pkt |-> fin, retried |-> FALSE, sacked |-> FALSE]
           next == IF c.state = "Established" THEN "FinWait1" ELSE "LastAck"
           d == [Sent(c, c.nxt, 1, fin) EXCEPT !.state = next]
<1>1. CASE c.state \in SendOpen
  <2>1. close(c, now).tcb = d
    BY <1>1 DEF close, Result
  <2>2. "FIN" \in fin.flags
    BY DEF segment
  <2> HIDE DEF fin
  <2>3. /\ d.una = c.una /\ d.nxt = end /\ d.peer_fin = c.peer_fin /\ d.state = next
        /\ u \in d.retx
    BY DEF Sent, record, ConnOK, Connection
  <2>4. u.end = end /\ u.pkt = fin
    OBVIOUS
  <2> HIDE DEF u, d, end
  <2>5. FinQueued(d)
    BY <2>2, <2>3, <2>4 DEF FinQueued
  <2>6. Effect(c, d)
    BY <1>1, <2>3, <2>5 DEF Effect, Moves, UnaMoves, SendOpen, Opening, FinOut, FinPending
  <2> QED BY <2>1, <2>6
<1>2. CASE c.state \notin SendOpen
  <2>1. close(c, now).tcb = c
    BY <1>2 DEF close, Result
  <2> QED BY <2>1, SameEffect
<1> QED BY <1>1, <1>2

\* A method that leaves the states alone but for closing the connection, and
\* the send side too unless it is open.
Quiet(c, d) ==
    /\ d.una = c.una /\ d.peer_fin = c.peer_fin
    /\ d.state \in {c.state, "Closed"}
    /\ c.state \notin SendOpen
          => d.nxt = c.nxt /\ Within(d.retx, c.retx) /\ Within(c.retx, d.retx)

\* A Quiet method has an Effect.
LEMMA QuietEffect == ASSUME NEW c, NEW d, Quiet(c, d) PROVE Effect(c, d)
<1>1. Moves(c, d) /\ UnaMoves(c, d)
  BY DEF Quiet, Moves, UnaMoves
<1>2. c.state \in Opening \cup FinOut => c.state \notin SendOpen
  BY DEF Opening, FinOut, FinPending, SendOpen
<1>3. d.state \in FinPending => d.state = c.state
  BY DEF Quiet, FinPending
<1> QED BY <1>1, <1>2, <1>3 DEF Quiet, Effect, FinOut

\* Queues within one another, along a chain of updates.
LEMMA WithinTransitive ==
    ASSUME NEW p, NEW q, NEW r, Within(p, q), Within(q, r)
    PROVE  Within(p, r)
BY DEF Within

\* Quiet methods compose.
LEMMA QuietTransitive ==
    ASSUME NEW c, NEW d, NEW e, Quiet(c, d), Quiet(d, e)
    PROVE  Quiet(c, e)
<1>1. e.una = c.una /\ e.peer_fin = c.peer_fin /\ e.state \in {c.state, "Closed"}
  BY DEF Quiet
<1>2. ASSUME c.state \notin SendOpen
      PROVE  e.nxt = c.nxt /\ Within(e.retx, c.retx) /\ Within(c.retx, e.retx)
  <2>1. d.state \notin SendOpen
    BY <1>2 DEF Quiet, SendOpen
  <2> QED BY <1>2, <2>1, WithinTransitive DEF Quiet
<1> QED BY <1>1, <1>2 DEF Quiet

\* Sending new data is Quiet, since it happens only while our half is open.
LEMMA SendBytesQuiet ==
    ASSUME NEW c, ConnOK(c), c.state \in SendOpen, NEW n, NEW now
    PROVE  Quiet(c, SendBytes(c, n, now).tcb)
BY DEF Quiet, SendBytes, Result, ConnOK, Connection

\* Resending entries is Quiet in every state.
LEMMA ResendQuiet ==
    ASSUME NEW c, ConnOK(c), NEW R \in SUBSET c.retx
    PROVE  Quiet(c, [c EXCEPT !.retx = Resend(@, R)])
<1>1. c.retx \in SUBSET Unacked
  BY DEF ConnOK, Connection
<1>2. Within(Resend(c.retx, R), c.retx) /\ Within(c.retx, Resend(c.retx, R))
  BY <1>1, ResendWithin
<1> QED BY <1>2 DEF Quiet, ConnOK, Connection

\* poll_transmit does nothing unless our half is open.
LEMMA PollTransmitEffect ==
    ASSUME NEW c, ConnOK(c), NEW cwnd, NEW now
    PROVE  Effect(c, poll_transmit(c, cwnd, now).tcb)
<1> DEFINE limit == AtMost(c.wnd, cwnd)
           lost  == LostWithin(c.retx, limit)
           c1    == [c EXCEPT !.retx = Resend(@, lost)]
           room  == IF limit > pipe(c1.retx) THEN limit - pipe(c1.retx) ELSE 0
           n     == AtMost(room, Len(c.send_buf))
           new   == SendBytes(c1, n, now)
<1>1. CASE c.state \notin SendOpen
  BY <1>1, SameEffect DEF poll_transmit, Result
<1>2. CASE c.state \in SendOpen
  <2>1. lost \in SUBSET c.retx
    BY DEF LostWithin
  <2>2. ConnOK(c1) /\ Quiet(c, c1) /\ c1.state = c.state
    <3> HIDE DEF lost
    <3>1. c1.state = c.state
      BY DEF ConnOK, Connection
    <3> QED BY <2>1, <3>1, ResendConnType, ResendQuiet
  <2>3. Quiet(c, new.tcb)
    <3> HIDE DEF c1, n
    <3>1. Quiet(c1, SendBytes(c1, n, now).tcb)
      BY <1>2, <2>2, SendBytesQuiet
    <3> QED BY <2>2, <3>1, QuietTransitive
  <2>4. Quiet(c, SendBytes(c, Sendable(c, cwnd), now).tcb)
    BY <1>2, SendBytesQuiet
  <2>5. poll_transmit(c, cwnd, now).tcb \in {new.tcb, SendBytes(c, Sendable(c, cwnd), now).tcb}
    BY <1>2 DEF poll_transmit, Result, SendBytes
  <2> QED BY <2>3, <2>4, <2>5, QuietEffect
<1> QED BY <1>1, <1>2

\* So is what RACK, the loss probe and the RTO do.
LEMMA RetransmitQuiet ==
    ASSUME NEW c, ConnOK(c), NEW R \in SUBSET c.retx, NEW rto
    PROVE  Quiet(c, Retransmit(c, R, rto))
<1>1. c.retx \in SUBSET Unacked
  BY DEF ConnOK, Connection
<1>2. Within(Resend(c.retx, R), c.retx) /\ Within(c.retx, Resend(c.retx, R))
  BY <1>1, ResendWithin
<1> QED BY <1>2 DEF Quiet, Retransmit, ConnOK, Connection

\* The zero-window probe takes a new byte only while our half is open.
LEMMA PersistTickQuiet ==
    ASSUME NEW c, ConnOK(c), NEW elapsed, NEW now
    PROVE  Quiet(c, PersistTick(c, elapsed, now).tcb)
<1> DEFINE shut  == c.state \in SendOpen /\ c.wnd = 0 /\ c.send_buf # << >> /\ flight_size(c) = 0
           probe == segment(c, c.nxt, c.rcv_nxt, {"ACK"}, SubSeq(c.send_buf, 1, 1), now)
           d     == [Sent(c, c.nxt, 1, probe) EXCEPT !.send_buf = Tail(@), !.persist = FALSE]
           e     == [c EXCEPT !.persist = shut]
<1>1. /\ d.una = c.una /\ d.peer_fin = c.peer_fin /\ d.state = c.state
      /\ e.una = c.una /\ e.peer_fin = c.peer_fin /\ e.state = c.state
      /\ e.nxt = c.nxt /\ e.retx = c.retx
  <2> HIDE DEF probe, shut
  <2> QED BY DEF Sent, ConnOK, Connection
<1>2. \/ c.state \in SendOpen /\ PersistTick(c, elapsed, now).tcb = d
      \/ PersistTick(c, elapsed, now).tcb = e
  BY DEF PersistTick, Result
<1> HIDE DEF d, e
<1> QED BY <1>1, <1>2, WithinReflexive DEF Quiet

\* Keepalive counts a probe or closes the connection.
LEMMA KeepaliveTickQuiet ==
    ASSUME NEW c, ConnOK(c), NEW due, NEW now
    PROVE  Quiet(c, KeepaliveTick(c, due, now).tcb)
<1> DEFINE d == [c EXCEPT !.state = "Closed"]
           e == [c EXCEPT !.keepalive_probes_sent = @ + 1]
<1>1. KeepaliveTick(c, due, now).tcb \in {c, d, e}
  BY DEF KeepaliveTick, Result
<1>2. Quiet(c, d) /\ Quiet(c, e) /\ Quiet(c, c)
  BY WithinReflexive DEF Quiet, ConnOK, Connection
<1> QED BY <1>1, <1>2

\* The idle and 2 MSL timers close the connection or do nothing.
LEMMA ExpireQuiet ==
    ASSUME NEW c, ConnOK(c), NEW expired
    PROVE  Quiet(c, Expire(c, expired)) /\ ConnOK(Expire(c, expired))
              /\ Expire(c, expired).retx = c.retx
<1> DEFINE d == [c EXCEPT !.state = "Closed"]
<1>1. Quiet(c, d) /\ Quiet(c, c) /\ d.retx = c.retx
  BY WithinReflexive DEF Quiet, ConnOK, Connection
<1>2. ConnOK(d)
  BY StateType DEF State
<1> QED BY <1>1, <1>2 DEF Expire

\* The timers run one after the other in one call of on_tick, each of them Quiet.
LEMMA OnTickQuiet ==
    ASSUME NEW c, ConnOK(c), NEW t, t.resend \in SUBSET c.retx, t.rto \in BOOLEAN,
           NEW now \in SeqNum
    PROVE  Quiet(c, on_tick(c, t, now).tcb)
<1> DEFINE c0 == Expire(c, t.expired)
           c1 == Retransmit(c0, t.resend, t.rto)
           p  == PersistTick(c1, t.persist, now)
           k  == KeepaliveTick(p.tcb, t.keepalive, now)
<1>1. ConnOK(c0) /\ c0.retx = c.retx /\ Quiet(c, c0)
  BY ExpireQuiet
<1>2. ConnOK(c1) /\ Quiet(c0, c1)
  <2> HIDE DEF c0
  <2> QED BY <1>1, RetransmitType, RetransmitQuiet
<1>3. ConnOK(p.tcb) /\ Quiet(c1, p.tcb)
  <2> HIDE DEF c1
  <2> QED BY <1>2, PersistTickType, PersistTickQuiet
<1>4. Quiet(p.tcb, k.tcb)
  <2> HIDE DEF p
  <2> QED BY <1>3, KeepaliveTickQuiet
<1>5. on_tick(c, t, now).tcb = k.tcb
  BY DEF on_tick, Result
<1> HIDE DEF c0, c1, p, k
<1> QED BY <1>1, <1>2, <1>3, <1>4, <1>5, QuietTransitive

\* on_tick has an Effect.
LEMMA OnTickEffect ==
    ASSUME NEW c, ConnOK(c), NEW t, t.resend \in SUBSET c.retx, t.rto \in BOOLEAN,
           NEW now \in SeqNum
    PROVE  Effect(c, on_tick(c, t, now).tcb)
BY OnTickQuiet, QuietEffect

-----------------------------------------------------------------------------
(* The states of a connection nobody has closed on our side *)

\* What a passively opened connection is in until the application closes it.
Unclosed == {"SynRcvd", "Established", "CloseWait", "Closed"}

\* write queues bytes and does nothing else.
LEMMA WriteType ==
    ASSUME NEW c, ConnOK(c), NEW data \in Seq(Byte)
    PROVE  ConnOK(write(c, data)) /\ write(c, data).state = c.state
<1> DEFINE buf == c.send_buf \o data
<1>1. buf \in Seq(Byte)
  BY ConcatProperties DEF ConnOK, Connection
<1>2. write(c, data) = [c EXCEPT !.send_buf = buf]
  BY DEF write
<1> HIDE DEF buf
<1> QED BY <1>1, <1>2 DEF ConnOK, Connection

\* poll_transmit changes no state.
LEMMA PollTransmitState ==
    ASSUME NEW c, ConnOK(c), NEW cwnd, NEW now
    PROVE  poll_transmit(c, cwnd, now).tcb.state = c.state
<1> DEFINE limit == AtMost(c.wnd, cwnd)
           c1    == [c EXCEPT !.retx = Resend(@, LostWithin(c.retx, limit))]
           room  == IF limit > pipe(c1.retx) THEN limit - pipe(c1.retx) ELSE 0
           n     == AtMost(room, Len(c.send_buf))
<1>1. ASSUME NEW d, d.state = c.state, DOMAIN d = DOMAIN c, NEW m
      PROVE  SendBytes(d, m, now).tcb.state = c.state
  BY <1>1 DEF SendBytes, Result, ConnOK, Connection
<1>2. c1.state = c.state /\ DOMAIN c1 = DOMAIN c
  BY DEF ConnOK, Connection
<1>3. poll_transmit(c, cwnd, now).tcb \in
         {c, SendBytes(c1, n, now).tcb, SendBytes(c, Sendable(c, cwnd), now).tcb}
  BY DEF poll_transmit, Result, SendBytes
<1> HIDE DEF c1, n
<1> QED BY <1>1, <1>2, <1>3

\* No segment makes us send a FIN: from an Unclosed state on_segment stays in one.
LEMMA OnSegmentUnclosed ==
    ASSUME NEW c0, ConnOK(c0), NEW s \in Segment, NEW throttled, NEW now, c0.state \in Unclosed
    PROVE  on_segment(c0, s, throttled, now).tcb.state \in Unclosed
<1> DEFINE c   == [c0 EXCEPT !.keepalive_probes_sent = 0]
           est == [c EXCEPT !.una = s.ack, !.retx = ack(@, s.ack), !.state = "Established"]
           d   == on_segment(c0, s, throttled, now).tcb
<1>1. ConnOK(c) /\ c.state = c0.state
  BY ConnectionAssumption DEF ConnOK, Connection
<1> HIDE DEF c
<1>2. ConnOK(est) /\ est.state = "Established"
  <2>1. s.ack \in SeqNum /\ ack(c.retx, s.ack) \in SUBSET Unacked
    BY <1>1, SegmentFields, AckType DEF ConnOK, Connection
  <2> QED BY <1>1, <2>1 DEF ConnOK, Connection, State
<1> HIDE DEF est
<1>3. d \in {on_rst(c, s, throttled, now).tcb, maybe_challenge(c, throttled, now).tcb,
             OnSynRcvd(c, s, throttled, now).tcb, OnSynchronized(c, s, throttled, now).tcb}
  BY <1>1 DEF on_segment, c, Unclosed
<1>4. on_rst(c, s, throttled, now).tcb.state \in Unclosed
  <2>1. on_rst(c, s, throttled, now).tcb \in {c, [c EXCEPT !.state = "Closed"]}
    BY DEF on_rst, maybe_challenge, Result
  <2>2. [c EXCEPT !.state = "Closed"].state = "Closed"
    BY <1>1 DEF ConnOK, Connection
  <2> QED BY <1>1, <2>1, <2>2 DEF Unclosed
<1>5. maybe_challenge(c, throttled, now).tcb.state \in Unclosed
  BY <1>1 DEF maybe_challenge, Result
<1>6. ASSUME NEW e, ConnOK(e), e.state \in Unclosed
      PROVE  OnSynchronized(e, s, throttled, now).tcb.state \in Unclosed
  <2>1. CASE e.state \in SendOpen
    <3>1. OnSynchronized(e, s, throttled, now) = OnOpen(e, s, throttled, now)
      BY <2>1 DEF OnSynchronized, SendOpen
    <3>2. Opens(e, OnOpen(e, s, throttled, now).tcb, s)
      BY <1>6, OnOpenEffect
    <3> QED BY <1>6, <3>1, <3>2 DEF Opens, Unclosed
  <2>2. CASE e.state \notin SendOpen
    <3>1. OnSynchronized(e, s, throttled, now).tcb = e
      BY <1>6, <2>2 DEF OnSynchronized, SendOpen, Result, Unclosed
    <3> QED BY <1>6, <3>1
  <2> QED BY <2>1, <2>2
<1>7. OnSynRcvd(c, s, throttled, now).tcb.state \in Unclosed
  <2>1. OnSynRcvd(c, s, throttled, now).tcb \in {c, OnSynchronized(est, s, throttled, now).tcb}
    BY DEF OnSynRcvd, Result, est
  <2> QED BY <1>1, <1>2, <1>6, <2>1 DEF Unclosed
<1> HIDE DEF d
<1>8. d.state \in Unclosed
  BY <1>1, <1>3, <1>4, <1>5, <1>6, <1>7
<1> QED BY <1>8 DEF d

-----------------------------------------------------------------------------
(* What a connection keeps, whatever bytes go through it *)

Field == {"state", "iss", "una", "nxt", "wnd", "max_snd_wnd", "rcv_nxt", "reasm", "retx",
          "send_buf", "nagle", "ts_enabled", "ts_recent", "sack_ok", "peer_fin", "pending_fin",
          "dup_acks", "in_recovery", "recover", "persist", "keepalive_enabled",
          "keepalive_probes_sent"}

Kept(c) ==
    /\ DOMAIN c = Field
    /\ ReasmOK(c.reasm)
    /\ c.state \in State
    /\ c.iss \in SeqNum /\ c.una \in SeqNum /\ c.nxt \in SeqNum /\ c.rcv_nxt \in SeqNum
    /\ c.wnd \in Nat

\* How a segment or a timer moves the state of a connection that we have not closed.
Steps(a, b) ==
    /\ a # "SynSent" => b # "SynSent"
    /\ b = "SynRcvd" => a = "SynRcvd"
    /\ a \in Unclosed => b \in Unclosed

\* d is c later: the same connection with the same ISNs.
Follows(c, d) ==
    /\ Kept(d)
    /\ d.iss = c.iss /\ d.reasm.base = c.reasm.base
    /\ Steps(c.state, d.state)

\* What on_segment and its branches return.
Answers(c, r) ==
    /\ Follows(c, r.tcb) /\ r.tcb.send_buf = c.send_buf /\ IsSeq(r.data)
    /\ "tcb" \in DOMAIN r /\ "data" \in DOMAIN r

LEMMA EmptyIsSeq == IsSeq(<< >>)
BY EmptySeq DEF IsSeq

LEMMA FollowsReflexive == ASSUME NEW c, Kept(c) PROVE Follows(c, c)
BY DEF Follows, Steps

LEMMA FollowsTransitive ==
    ASSUME NEW c, NEW d, NEW e, Follows(c, d), Follows(d, e)
    PROVE  Follows(c, e)
BY DEF Follows, Steps

\* A branch that returns the connection as it is, with packets.
LEMMA SameAnswers == ASSUME NEW c, Kept(c), NEW out PROVE Answers(c, Result(c, out))
BY FollowsReflexive, EmptyIsSeq DEF Answers, Result

\* A branch that first changes c to d answers for c.
LEMMA AnswersAfter ==
    ASSUME NEW c, NEW d, NEW r, Follows(c, d), d.send_buf = c.send_buf, Answers(d, r)
    PROVE  Answers(c, r)
BY FollowsTransitive DEF Answers

LEMMA DeliverDataKeeps ==
    ASSUME NEW c, Kept(c), NEW s \in Segment
    PROVE  Answers(c, DeliverData(c, s))
<1> DEFINE d == recv(c.reasm, s.seq, s.data, c.rcv_nxt)
           e == [c EXCEPT !.reasm = d.reasm, !.rcv_nxt = wrapping_add(@, Len(d.out))]
<1>1. s.seq \in SeqNum /\ s.data \in Seq(Byte)
  BY SegmentFields
<1>2. ReasmOK(d.reasm) /\ d.reasm.base = c.reasm.base /\ IsSeq(d.out) /\ Len(d.out) \in Nat
  BY <1>1, RecvType, ZenonT(40) DEF Kept
<1>3. /\ DeliverData(c, s).tcb = e /\ DeliverData(c, s).data = d.out
      /\ "tcb" \in DOMAIN DeliverData(c, s) /\ "data" \in DOMAIN DeliverData(c, s)
  BY DEF DeliverData, Result
<1> HIDE DEF d
<1>4. wrapping_add(c.rcv_nxt, Len(d.out)) \in SeqNum
  BY <1>2, AddType DEF Kept
<1>5. Follows(c, e) /\ e.send_buf = c.send_buf
  BY <1>2, <1>4 DEF Kept, Follows, Field, Steps
<1> HIDE DEF e
<1> QED BY <1>2, <1>3, <1>5 DEF Answers

LEMMA ConsumeFinKeeps ==
    ASSUME NEW c, Kept(c), NEW next \in State, Steps(c.state, next)
    PROVE  LET d == ConsumeFin(c, next)
           IN  Follows(c, d) /\ d.send_buf = c.send_buf /\ d.state = next
<1>1. wrapping_add(c.rcv_nxt, 1) \in SeqNum
  BY AddType DEF Kept
<1> QED BY <1>1 DEF ConsumeFin, Kept, Follows, Field

LEMMA OnOpenDataKeeps ==
    ASSUME NEW c, Kept(c), NEW s \in Segment, NEW now
    PROVE  Answers(c, OnOpenData(c, s, now))
<1> DEFINE d   == DeliverData(c, s)
           c1  == d.tcb
           c2  == IF "FIN" \in s.flags /\ c1.state = "Established" /\ ~before(fin_seq(s), c1.rcv_nxt)
                  THEN [c1 EXCEPT !.pending_fin = fin_seq(s)] ELSE c1
           c3  == [ConsumeFin(c2, "CloseWait") EXCEPT !.pending_fin = NoFin]
<1>1. Answers(c, d)
  BY DeliverDataKeeps
<1>2. DOMAIN d = {"tcb", "out", "data"}
  BY DEF DeliverData, Result
<1>3. \E cc \in {c1, c2} \cup (IF FinDue(c2) THEN {c3} ELSE {}) :
         /\ OnOpenData(c, s, now).tcb = cc /\ OnOpenData(c, s, now).data = d.data
         /\ DOMAIN OnOpenData(c, s, now) = DOMAIN d
  <2> HIDE DEF c3, d
  <2> QED BY <1>2 DEF OnOpenData, c3, c2, c1, d
<1> HIDE DEF d
<1>4. Follows(c, c1) /\ c1.send_buf = c.send_buf /\ IsSeq(d.data)
  BY <1>1 DEF Answers
<1> HIDE DEF c1
<1>5. Follows(c1, c2) /\ c2.send_buf = c1.send_buf
  BY <1>4 DEF Follows, Kept, Steps, Field
<1> HIDE DEF c2
<1>6. ASSUME FinDue(c2) PROVE Follows(c2, c3) /\ c3.send_buf = c2.send_buf
  <2> DEFINE e == ConsumeFin(c2, "CloseWait")
  <2>1. Kept(c2) /\ "CloseWait" \in State /\ Steps(c2.state, "CloseWait")
    BY <1>5, <1>6 DEF Follows, State, Steps, FinDue, Unclosed
  <2>2. Follows(c2, e) /\ e.send_buf = c2.send_buf
    BY <2>1, ConsumeFinKeeps
  <2>3. c3 = [e EXCEPT !.pending_fin = NoFin]
    OBVIOUS
  <2> HIDE DEF e, c3
  <2> QED BY <2>2, <2>3 DEF Follows, Kept, Field
<1> HIDE DEF c3
<1>7. \A cc \in {c1, c2} \cup (IF FinDue(c2) THEN {c3} ELSE {}) :
         Follows(c, cc) /\ cc.send_buf = c.send_buf
  BY <1>4, <1>5, <1>6, FollowsTransitive
<1> QED BY <1>2, <1>3, <1>4, <1>7 DEF Answers

LEMMA FastRetransmitOrKeeps ==
    ASSUME NEW c, Kept(c), NEW s \in Segment, NEW now
    PROVE  Answers(c, FastRetransmitOr(c, s, now))
<1> DEFINE R == FirstHole(c.retx)
           e == [c EXCEPT !.retx = Resend(@, R)]
<1>1. Answers(c, OnOpenData(c, s, now))
  BY OnOpenDataKeeps
<1>2. Kept(e) /\ Follows(c, e) /\ e.send_buf = c.send_buf
  <2> HIDE DEF R
  <2> QED BY DEF Kept, Follows, Steps, Field
<1> HIDE DEF e
<1>3. Answers(c, Result(e, {r.pkt : r \in R}))
  BY <1>2, SameAnswers, AnswersAfter
<1>4. FastRetransmitOr(c, s, now) \in {OnOpenData(c, s, now), Result(e, {r.pkt : r \in R})}
  BY DEF FastRetransmitOr, e
<1> QED BY <1>1, <1>3, <1>4

LEMMA OnOpenAckKeeps ==
    ASSUME NEW c, Kept(c), NEW prev_wnd, NEW s \in Segment, NEW now
    PROVE  Answers(c, OnOpenAck(c, prev_wnd, s, now))
<1> DEFINE acked   == [c EXCEPT !.una = s.ack, !.retx = ack(@, s.ack), !.dup_acks = 0]
           count   == IF c.dup_acks > DupThresh THEN c.dup_acks ELSE c.dup_acks + 1
           counted == [c EXCEPT !.dup_acks = count]
           started == [counted EXCEPT !.in_recovery = TRUE, !.recover = c.nxt]
           ended   == [acked EXCEPT !.in_recovery = FALSE]
           Ok(e)   == Kept(e) /\ Follows(c, e) /\ e.send_buf = c.send_buf
<1>1. s.ack \in SeqNum
  BY SegmentFields
<1>2. Ok(acked) /\ Ok(ended)
  BY <1>1 DEF Kept, Follows, Steps, Field
<1>3. Ok(c) /\ Ok(counted) /\ Ok(started)
  <2> HIDE DEF count
  <2> QED BY DEF Kept, Follows, Steps, Field
<1>4. \E e \in {acked, ended, c, counted, started} :
         OnOpenAck(c, prev_wnd, s, now) \in {OnOpenData(e, s, now), FastRetransmitOr(e, s, now)}
  <2> HIDE DEF acked, counted, count
  <2> QED BY DEF OnOpenAck, acked, counted, count
<1> HIDE DEF acked, counted, started, ended
<1>5. \A e \in {acked, ended, c, counted, started} :
         Answers(c, OnOpenData(e, s, now)) /\ Answers(c, FastRetransmitOr(e, s, now))
  BY <1>2, <1>3, OnOpenDataKeeps, FastRetransmitOrKeeps, AnswersAfter
<1> QED BY <1>4, <1>5

LEMMA OnOpenKeeps ==
    ASSUME NEW c, Kept(c), NEW s \in Segment, NEW throttled, NEW now
    PROVE  Answers(c, OnOpen(c, s, throttled, now))
<1> DEFINE ts    == c.ts_enabled /\ "TS" \in s.opts
           fresh == [c EXCEPT
                       !.ts_recent = IF ts /\ UpdatesTsRecent(c, s) THEN s.tsval ELSE @,
                       !.wnd = s.window,
                       !.max_snd_wnd = IF s.window > @ THEN s.window ELSE @]
           marked == IF c.sack_ok THEN [fresh EXCEPT !.retx = mark_sacked(@, s.sack)] ELSE fresh
           Ok(e)   == Kept(e) /\ Follows(c, e) /\ e.send_buf = c.send_buf
<1>1. s.window \in Nat
  BY SegmentFields
<1>2. Ok(fresh)
  <2> HIDE DEF ts
  <2> QED BY <1>1 DEF Kept, Follows, Steps, Field
<1>3. Ok(marked)
  <2> HIDE DEF fresh
  <2> QED BY <1>2 DEF Kept, Follows, Steps, Field
<1> HIDE DEF fresh, marked
<1>4. OnOpen(c, s, throttled, now) \in
         {OnOpenData(fresh, s, now), OnOpenAck(marked, c.wnd, s, now),
          maybe_challenge(fresh, throttled, now), Result(c, {AckNow(c, now)})}
  BY DEF OnOpen, fresh, marked
<1>5. /\ Answers(c, OnOpenData(fresh, s, now))
      /\ Answers(c, OnOpenAck(marked, c.wnd, s, now))
      /\ Answers(c, maybe_challenge(fresh, throttled, now))
      /\ Answers(c, Result(c, {AckNow(c, now)}))
  BY <1>2, <1>3, OnOpenDataKeeps, OnOpenAckKeeps, SameAnswers, AnswersAfter DEF maybe_challenge
<1> QED BY <1>4, <1>5

LEMMA OnFinWaitKeeps ==
    ASSUME NEW c, Kept(c), NEW s \in Segment, NEW now, c.state \in {"FinWait1", "FinWait2"}
    PROVE  Answers(c, OnFinWait(c, s, now))
<1> DEFINE finAcked == c.state = "FinWait1" /\ AcksNxt(c, s)
           c0 == IF finAcked THEN [c EXCEPT !.retx = ack(@, s.ack)] ELSE c
           d  == DeliverData(c0, s)
           c1 == d.tcb
           next == IF finAcked \/ c.state = "FinWait2" THEN "TimeWait" ELSE "Closing"
           c2 == ConsumeFin(c1, next)
           c3 == IF finAcked THEN [c1 EXCEPT !.state = "FinWait2"] ELSE c1
           Ok(e) == Kept(e) /\ Follows(c, e) /\ e.send_buf = c.send_buf
<1>1. Ok(c0) /\ c0.state = c.state
  <2> HIDE DEF finAcked
  <2> QED BY DEF Kept, Follows, Steps, Field
<1>2. Answers(c0, d)
  <2> HIDE DEF c0
  <2> QED BY <1>1, DeliverDataKeeps
<1>3. d.tcb.state = c.state
  <2> HIDE DEF c0
  <2> QED BY <1>1 DEF DeliverData, Result, Kept, Field
<1>4. DOMAIN d = {"tcb", "out", "data"}
  BY DEF DeliverData, Result
<1>5. /\ OnFinWait(c, s, now).tcb \in {c2, c3}
      /\ OnFinWait(c, s, now).data = d.data
      /\ DOMAIN OnFinWait(c, s, now) = DOMAIN d
  <2> HIDE DEF c0, finAcked, d, c2, c3
  <2> QED BY <1>4 DEF OnFinWait, c0, c2, c3, d, finAcked
<1> HIDE DEF c0, d, finAcked
<1>6. Ok(c1) /\ c1.state = c.state /\ IsSeq(d.data)
  BY <1>1, <1>2, <1>3, FollowsTransitive DEF Answers, Follows
<1> HIDE DEF c1
<1>7. next \in {"TimeWait", "Closing"}
  OBVIOUS
<1> HIDE DEF next
<1>8. next \in State /\ Steps(c1.state, next)
  BY <1>6, <1>7 DEF Steps, Unclosed, State
<1>9. Follows(c1, c2) /\ c2.send_buf = c1.send_buf
  BY <1>6, <1>8, ConsumeFinKeeps
<1>10. Follows(c1, c3) /\ c3.send_buf = c1.send_buf
  BY <1>6 DEF Follows, Kept, Steps, Field, State, Unclosed
<1> HIDE DEF c2, c3
<1> QED BY <1>4, <1>5, <1>6, <1>9, <1>10, FollowsTransitive DEF Answers

LEMMA OnFinAckOnlyKeeps ==
    ASSUME NEW c, Kept(c), NEW s \in Segment, c.state \in {"LastAck", "Closing"}
    PROVE  Answers(c, OnFinAckOnly(c, s))
<1> DEFINE next == IF c.state = "LastAck" THEN "Closed" ELSE "TimeWait"
           e == [c EXCEPT !.retx = ack(@, s.ack), !.state = next]
<1>1. Kept(e) /\ Follows(c, e) /\ e.send_buf = c.send_buf
  BY DEF Kept, Follows, Steps, Field, State, Unclosed
<1> HIDE DEF e
<1>2. OnFinAckOnly(c, s) \in {Result(c, {}), Result(e, {})}
  BY DEF OnFinAckOnly, e
<1> QED BY <1>1, <1>2, SameAnswers, AnswersAfter

LEMMA OnSynchronizedKeeps ==
    ASSUME NEW c, Kept(c), NEW s \in Segment, NEW throttled, NEW now
    PROVE  Answers(c, OnSynchronized(c, s, throttled, now))
<1>1. \/ OnSynchronized(c, s, throttled, now) = OnOpen(c, s, throttled, now)
      \/ /\ c.state \in {"FinWait1", "FinWait2"}
         /\ OnSynchronized(c, s, throttled, now) = OnFinWait(c, s, now)
      \/ /\ c.state \in {"LastAck", "Closing"}
         /\ OnSynchronized(c, s, throttled, now) = OnFinAckOnly(c, s)
      \/ OnSynchronized(c, s, throttled, now) = Result(c, {})
  BY DEF OnSynchronized, SendOpen
<1> QED BY <1>1, OnOpenKeeps, OnFinWaitKeeps, OnFinAckOnlyKeeps, SameAnswers

LEMMA OnSynRcvdKeeps ==
    ASSUME NEW c, Kept(c), NEW s \in Segment, NEW throttled, NEW now, c.state = "SynRcvd"
    PROVE  Answers(c, OnSynRcvd(c, s, throttled, now))
<1> DEFINE est == [c EXCEPT !.una = s.ack, !.retx = ack(@, s.ack), !.state = "Established"]
<1>1. s.ack \in SeqNum
  BY SegmentFields
<1>2. Kept(est) /\ Follows(c, est) /\ est.send_buf = c.send_buf
  BY <1>1 DEF Kept, Follows, Steps, Field, State, Unclosed
<1> HIDE DEF est
<1>3. OnSynRcvd(c, s, throttled, now) \in
         {OnSynchronized(est, s, throttled, now), Result(c, {})}
  BY DEF OnSynRcvd, est
<1> QED BY <1>2, <1>3, OnSynchronizedKeeps, SameAnswers, AnswersAfter

LEMMA OnRstKeeps ==
    ASSUME NEW c, Kept(c), NEW s, NEW throttled, NEW now
    PROVE  Answers(c, on_rst(c, s, throttled, now))
<1> DEFINE e == [c EXCEPT !.state = "Closed"]
<1>1. Kept(e) /\ Follows(c, e) /\ e.send_buf = c.send_buf
  BY DEF Kept, Follows, Steps, Field, State, Unclosed
<1> HIDE DEF e
<1>2. on_rst(c, s, throttled, now) \in
         {Result(c, {}), Result(e, {}), maybe_challenge(c, throttled, now)}
  BY DEF on_rst, e
<1> QED BY <1>1, <1>2, SameAnswers, AnswersAfter DEF maybe_challenge

\* Whatever segment arrives, the connection keeps its shape, its ISNs and its unsent bytes.
LEMMA OnSegmentKeeps ==
    ASSUME NEW c0, Kept(c0), NEW s \in Segment, NEW throttled, NEW now, c0.state # "SynSent"
    PROVE  Answers(c0, on_segment(c0, s, throttled, now))
<1> DEFINE c == [c0 EXCEPT !.keepalive_probes_sent = 0]
<1>1. Kept(c) /\ Follows(c0, c) /\ c.send_buf = c0.send_buf /\ c.state = c0.state
  BY DEF Kept, Follows, Steps, Field
<1> HIDE DEF c
<1>2. \/ on_segment(c0, s, throttled, now) \in
            {on_rst(c, s, throttled, now), maybe_challenge(c, throttled, now),
             OnSynchronized(c, s, throttled, now)}
      \/ /\ c.state = "SynRcvd"
         /\ on_segment(c0, s, throttled, now) = OnSynRcvd(c, s, throttled, now)
  BY <1>1 DEF on_segment, c
<1>3. Answers(c, on_segment(c0, s, throttled, now))
  BY <1>1, <1>2, OnRstKeeps, OnSynchronizedKeeps, OnSynRcvdKeeps, SameAnswers
     DEF maybe_challenge
<1> QED BY <1>1, <1>3, AnswersAfter

-----------------------------------------------------------------------------
(* Positions on the circle.                                                *)
(* The rest of the module places what is in flight on the circle.  All of  *)
(* it is about where sequence numbers lie counted from SND.UNA, so that    *)
(* the wrap of the circle is met in this section and nowhere else.         *)

\* The difference of two numbers, without the remainder.
LEMMA SubIs ==
    ASSUME NEW x \in SeqNum, NEW y \in SeqNum
    PROVE  /\ wrapping_sub(x, y) = IF y <= x THEN x - y ELSE (x - y) + SeqMod
           /\ wrapping_sub(x, y) \in SeqNum
<1> DEFINE m == SeqMod
<1>1. m \in Nat \ {0} /\ SeqNum = 0 .. m - 1
  BY SeqModType DEF SeqNum
<1>2. wrapping_sub(x, y) = (x - y) % m
  BY DEF wrapping_sub
<1> HIDE DEF m
<1>3. CASE y <= x
  <2>1. x - y \in 0 .. m - 1
    BY <1>1, <1>3
  <2>2. (x - y) % m = x - y
    BY <1>1, <2>1, NearMod
  <2> QED BY <1>1, <1>2, <1>3, <2>1, <2>2
<1>4. CASE ~(y <= x)
  <2>1. x - y \in -m .. -1 /\ (x - y) + m \in 0 .. m - 1
    BY <1>1, <1>4
  <2>2. (x - y) % m = (x - y) + m
    BY <1>1, <2>1, NearMod
  <2> QED BY <1>1, <1>2, <1>4, <2>1, <2>2 DEF m
<1> QED BY <1>3, <1>4

\* Their sum, likewise.
LEMMA AddIs ==
    ASSUME NEW a \in SeqNum, NEW n \in SeqNum
    PROVE  /\ wrapping_add(a, n) = IF a + n < SeqMod THEN a + n ELSE (a + n) - SeqMod
           /\ wrapping_add(a, n) \in SeqNum
<1> DEFINE m == SeqMod
<1>1. m \in Nat \ {0} /\ SeqNum = 0 .. m - 1
  BY SeqModType DEF SeqNum
<1>2. wrapping_add(a, n) = (a + n) % m
  BY DEF wrapping_add
<1> HIDE DEF m
<1>3. CASE a + n < m
  <2>1. a + n \in 0 .. m - 1
    BY <1>1, <1>3
  <2>2. (a + n) % m = a + n
    BY <1>1, <2>1, NearMod
  <2> QED BY <1>1, <1>2, <1>3, <2>1, <2>2 DEF m
<1>4. CASE ~(a + n < m)
  <2>1. a + n \in m .. 2 * m - 1 /\ (a + n) - m \in 0 .. m - 1
    BY <1>1, <1>4
  <2>2. (a + n) % m = (a + n) - m
    BY <1>1, <2>1, NearMod
  <2> QED BY <1>1, <1>2, <1>4, <2>1, <2>2 DEF m
<1> QED BY <1>3, <1>4

\* The circle is twice the half that comparisons look ahead.
LEMMA CircleIs == Half \in Nat /\ Half > 0 /\ SeqMod = 2 * Half /\ SeqNum = 0 .. SeqMod - 1
BY HalfAssumption DEF SeqMod, SeqNum

\* There and back.
LEMMA RoundTrip ==
    ASSUME NEW a \in SeqNum, NEW i \in SeqNum
    PROVE  /\ wrapping_sub(wrapping_add(a, i), a) = i
           /\ wrapping_add(a, wrapping_sub(i, a)) = i
<1> DEFINE p == wrapping_add(a, i)
           d == wrapping_sub(i, a)
<1>1. /\ p \in SeqNum /\ p = IF a + i < SeqMod THEN a + i ELSE (a + i) - SeqMod
      /\ d \in SeqNum /\ d = IF a <= i THEN i - a ELSE (i - a) + SeqMod
  BY AddIs, SubIs
<1> HIDE DEF p, d
<1>2. /\ wrapping_sub(p, a) = IF a <= p THEN p - a ELSE (p - a) + SeqMod
      /\ wrapping_add(a, d) = IF a + d < SeqMod THEN a + d ELSE (a + d) - SeqMod
  BY <1>1, AddIs, SubIs
<1>3. wrapping_sub(p, a) = i /\ wrapping_add(a, d) = i
  BY <1>1, <1>2, CircleIs
<1> QED BY <1>3 DEF p, d

\* Where the numbers lie once SND.UNA has moved from u to a: n is SND.NXT, y a number of an entry [b, e).
LEMMA AckPositions ==
    ASSUME NEW u \in SeqNum, NEW a \in SeqNum, NEW n \in SeqNum, NEW y \in SeqNum,
           NEW b \in SeqNum, NEW e \in SeqNum,
           wrapping_sub(n, u) < Half, wrapping_sub(a, u) <= wrapping_sub(n, u)
    PROVE  /\ wrapping_sub(n, a) = wrapping_sub(n, u) - wrapping_sub(a, u)
           /\ wrapping_sub(e, u) \in 1 .. wrapping_sub(n, u) /\ before(a, e)
                 => wrapping_sub(e, a) \in 1 .. wrapping_sub(n, a)
           /\ wrapping_sub(y, a) < wrapping_sub(n, a) => wrapping_sub(y, u) < wrapping_sub(n, u)
           /\ /\ wrapping_sub(y, a) < wrapping_sub(n, a) 
              /\ wrapping_sub(e, u) \in 1 .. wrapping_sub(n, u)
              /\ wrapping_sub(y, b) < wrapping_sub(e, b) /\ wrapping_sub(e, b) < Half
              => before(a, e)
<1>1. /\ wrapping_sub(n, u) = IF u <= n THEN n - u ELSE (n - u) + SeqMod
      /\ wrapping_sub(a, u) = IF u <= a THEN a - u ELSE (a - u) + SeqMod
      /\ wrapping_sub(n, a) = IF a <= n THEN n - a ELSE (n - a) + SeqMod
      /\ wrapping_sub(e, u) = IF u <= e THEN e - u ELSE (e - u) + SeqMod
      /\ wrapping_sub(e, a) = IF a <= e THEN e - a ELSE (e - a) + SeqMod
      /\ wrapping_sub(a, e) = IF e <= a THEN a - e ELSE (a - e) + SeqMod
      /\ wrapping_sub(y, a) = IF a <= y THEN y - a ELSE (y - a) + SeqMod
      /\ wrapping_sub(y, u) = IF u <= y THEN y - u ELSE (y - u) + SeqMod
      /\ wrapping_sub(y, b) = IF b <= y THEN y - b ELSE (y - b) + SeqMod
      /\ wrapping_sub(e, b) = IF b <= e THEN e - b ELSE (e - b) + SeqMod
  BY SubIs
<1>2. /\ u \in Int /\ 0 <= u /\ u < SeqMod /\ a \in Int /\ 0 <= a /\ a < SeqMod
      /\ n \in Int /\ 0 <= n /\ n < SeqMod /\ y \in Int /\ 0 <= y /\ y < SeqMod
      /\ b \in Int /\ 0 <= b /\ b < SeqMod /\ e \in Int /\ 0 <= e /\ e < SeqMod
      /\ Half \in Int /\ Half > 0 /\ SeqMod = 2 * Half
  BY CircleIs
<1>3. wrapping_sub(n, a) = wrapping_sub(n, u) - wrapping_sub(a, u)
  BY <1>1, <1>2
<1>4. ASSUME wrapping_sub(e, u) \in 1 .. wrapping_sub(n, u), before(a, e)
      PROVE  wrapping_sub(e, a) \in 1 .. wrapping_sub(n, a)
  BY <1>1, <1>2, <1>4 DEF before
<1>5. ASSUME wrapping_sub(y, a) < wrapping_sub(n, a)
      PROVE  wrapping_sub(y, u) < wrapping_sub(n, u)
  BY <1>1, <1>2, <1>5
<1>6. ASSUME wrapping_sub(y, a) < wrapping_sub(n, a),
             wrapping_sub(e, u) \in 1 .. wrapping_sub(n, u),
             wrapping_sub(y, b) < wrapping_sub(e, b), wrapping_sub(e, b) < Half
      PROVE  before(a, e)
  BY <1>1, <1>2, <1>6 DEF before
<1> QED BY <1>3, <1>4, <1>5, <1>6

\* Where they lie once k .. k + l - 1 have been sent beyond SND.NXT; [b, e) is an entry from before.
LEMMA SendPositions ==
    ASSUME NEW u \in SeqNum, NEW n \in SeqNum, NEW y \in SeqNum, NEW b \in SeqNum,
           NEW e \in SeqNum, NEW k \in Nat, NEW l \in Nat, wrapping_sub(n, u) + k + l < Half
    PROVE  /\ k + l \in SeqNum /\ k \in SeqNum
           /\ wrapping_sub(wrapping_add(n, k + l), u) = wrapping_sub(n, u) + k + l
           /\ wrapping_sub(wrapping_add(n, k + l), wrapping_add(n, k)) = l
           /\ l > 0 =>
                 (wrapping_sub(y, wrapping_add(n, k)) < l
                     <=> wrapping_sub(y, n) >= k /\ wrapping_sub(y, n) < k + l)
           /\ wrapping_sub(y, u) < wrapping_sub(n, u) + k + l =>
                 wrapping_sub(y, u) < wrapping_sub(n, u) \/ wrapping_sub(y, n) < k + l
           /\ wrapping_sub(e, u) \in 1 .. wrapping_sub(n, u) /\ wrapping_sub(e, b) < Half
                 => ~(wrapping_sub(y, b) < wrapping_sub(e, b) /\ wrapping_sub(y, n) < k + l)
<1> DEFINE p == wrapping_add(n, k)
           z == wrapping_add(n, k + l)
<1>1. /\ u \in Int /\ 0 <= u /\ u < SeqMod
      /\ n \in Int /\ 0 <= n /\ n < SeqMod /\ y \in Int /\ 0 <= y /\ y < SeqMod
      /\ b \in Int /\ 0 <= b /\ b < SeqMod /\ e \in Int /\ 0 <= e /\ e < SeqMod
      /\ Half \in Int /\ Half > 0 /\ SeqMod = 2 * Half
  BY CircleIs
<1>2. wrapping_sub(n, u) \in Int /\ wrapping_sub(n, u) >= 0
  BY SubIs, CircleIs
<1>3. k + l \in SeqNum /\ k \in SeqNum
  BY <1>1, <1>2, CircleIs
<1>4. /\ p = IF n + k < SeqMod THEN n + k ELSE (n + k) - SeqMod
      /\ z = IF n + (k + l) < SeqMod THEN n + (k + l) ELSE (n + (k + l)) - SeqMod
      /\ p \in SeqNum /\ z \in SeqNum
  BY <1>3, AddIs
<1> HIDE DEF p, z
<1>5. /\ wrapping_sub(n, u) = IF u <= n THEN n - u ELSE (n - u) + SeqMod
      /\ wrapping_sub(z, u) = IF u <= z THEN z - u ELSE (z - u) + SeqMod
      /\ wrapping_sub(z, p) = IF p <= z THEN z - p ELSE (z - p) + SeqMod
      /\ wrapping_sub(y, p) = IF p <= y THEN y - p ELSE (y - p) + SeqMod
      /\ wrapping_sub(y, n) = IF n <= y THEN y - n ELSE (y - n) + SeqMod
      /\ wrapping_sub(y, u) = IF u <= y THEN y - u ELSE (y - u) + SeqMod
      /\ wrapping_sub(e, u) = IF u <= e THEN e - u ELSE (e - u) + SeqMod
      /\ wrapping_sub(y, b) = IF b <= y THEN y - b ELSE (y - b) + SeqMod
      /\ wrapping_sub(e, b) = IF b <= e THEN e - b ELSE (e - b) + SeqMod
  BY <1>4, SubIs
<1>6. p \in Int /\ 0 <= p /\ p < SeqMod /\ z \in Int /\ 0 <= z /\ z < SeqMod
  BY <1>4, CircleIs
<1>7. wrapping_sub(z, u) = wrapping_sub(n, u) + k + l
  BY <1>1, <1>4, <1>5, <1>6
<1>8. wrapping_sub(z, p) = l
  BY <1>1, <1>4, <1>5, <1>6
<1>9. ASSUME l > 0
      PROVE  wrapping_sub(y, p) < l <=> wrapping_sub(y, n) >= k /\ wrapping_sub(y, n) < k + l
  BY <1>1, <1>4, <1>5, <1>6, <1>9
<1>10. ASSUME wrapping_sub(y, u) < wrapping_sub(n, u) + k + l
       PROVE  wrapping_sub(y, u) < wrapping_sub(n, u) \/ wrapping_sub(y, n) < k + l
  BY <1>1, <1>5, <1>10
<1>11. ASSUME wrapping_sub(e, u) \in 1 .. wrapping_sub(n, u), wrapping_sub(e, b) < Half,
              wrapping_sub(y, b) < wrapping_sub(e, b), wrapping_sub(y, n) < k + l
       PROVE  FALSE
  BY <1>1, <1>5, <1>11
<1> QED BY <1>3, <1>7, <1>8, <1>9, <1>10, <1>11 DEF p, z

-----------------------------------------------------------------------------
(* What it means that the queue is what is in flight *)

\* The number y is one of entry s.
Occupies(s, y) == wrapping_sub(y, s.start) < wrapping_sub(s.end, s.start)

\* No number belongs to two entries.
Disjoint(q) == \A s, t \in q : s # t => \A y \in SeqNum : ~(Occupies(s, y) /\ Occupies(t, y))

\* No entry is empty, and none spans half the circle.
Short(q) == \A s \in q : wrapping_sub(s.end, s.start) \in 1 .. Half - 1

\* Every number in flight is one of some entry.
Covered(c) ==
    \A y \in SeqNum : wrapping_sub(y, c.una) < flight_size(c) => \E s \in c.retx : Occupies(s, y)

\* Every entry ends in flight.
EndsInFlight(q, una, flight) == \A s \in q : wrapping_sub(s.end, una) \in 1 .. flight

\* Our half is over, or the connection is.
Finished == {"FinWait2", "TimeWait", "Closed"}

(***************************************************************************)
(* FlightIsQueued with the positions of the entries instead of the sets of *)
(* their numbers.  That an entry is shorter than half the circle is what   *)
(* makes before tell on which side of SND.UNA it ends.                     *)
(***************************************************************************)
Queued(c) ==
    /\ Disjoint(c.retx) /\ Short(c.retx)
    /\ c.state \notin Finished => Covered(c)
    /\ c.state \in SendOpen \cup Opening => EndsInFlight(c.retx, c.una, flight_size(c))

\* The numbers of an entry.
LEMMA SeqsAre ==
    ASSUME NEW s \in Unacked, NEW y
    PROVE  y \in SeqsOf(s) <=> y \in SeqNum /\ Occupies(s, y)
<1> DEFINE b == s.start
           l == wrapping_sub(s.end, s.start)
<1>1. b \in SeqNum /\ s.end \in SeqNum
  BY DEF Unacked
<1>2. l \in SeqNum
  BY <1>1, SubIs
<1>3. y \in SeqsOf(s) <=> \E i \in 0 .. l - 1 : y = wrapping_add(b, i)
  BY DEF SeqsOf
<1> HIDE DEF b, l
<1>4. ASSUME NEW i \in 0 .. l - 1, y = wrapping_add(b, i)
      PROVE  y \in SeqNum /\ wrapping_sub(y, b) < l
  <2>1. i \in SeqNum /\ i < l
    BY <1>2, CircleIs
  <2> QED BY <1>1, <1>4, <2>1, AddIs, RoundTrip DEF b
<1>5. ASSUME y \in SeqNum, wrapping_sub(y, b) < l
      PROVE  \E i \in 0 .. l - 1 : y = wrapping_add(b, i)
  <2> DEFINE i == wrapping_sub(y, b)
  <2>1. i \in SeqNum /\ i < l /\ y = wrapping_add(b, i)
    BY <1>1, <1>5, SubIs, RoundTrip DEF b
  <2> HIDE DEF i
  <2>2. i \in 0 .. l - 1
    BY <1>2, <2>1, CircleIs
  <2> QED BY <2>1, <2>2
<1> QED BY <1>3, <1>4, <1>5 DEF Occupies, b, l

\* Marks do not count.
LEMMA WithinHolds ==
    ASSUME NEW q, NEW r, Within(q, r)
    PROVE  \A s \in q : \E t \in r : /\ \A y : Occupies(s, y) <=> Occupies(t, y)
                                     /\ s.start = t.start /\ s.end = t.end
BY DEF Within, Occupies

\* Setting marks keeps entries apart: two entries of the new queue stem from two of the old one.
LEMMA ResendDisjoint ==
    ASSUME NEW q \in SUBSET Unacked, NEW R \in SUBSET q, Disjoint(q)
    PROVE  Disjoint(Resend(q, R))
<1> DEFINE Mark(s) == IF s \in R THEN [s EXCEPT !.retried = TRUE] ELSE s
<1>1. Resend(q, R) = {Mark(s) : s \in q}
  BY DEF Resend
<1>2. \A s \in q : Mark(s).start = s.start /\ Mark(s).end = s.end
  BY DEF Unacked
<1> HIDE DEF Mark
<1>3. ASSUME NEW s \in q, NEW t \in q, Mark(s) # Mark(t), NEW y \in SeqNum
      PROVE  ~(Occupies(Mark(s), y) /\ Occupies(Mark(t), y))
  <2>1. s # t
    BY <1>3
  <2>2. (Occupies(Mark(s), y) <=> Occupies(s, y)) /\ (Occupies(Mark(t), y) <=> Occupies(t, y))
    BY <1>2 DEF Occupies
  <2> QED BY <2>1, <2>2 DEF Disjoint
<1> QED BY <1>1, <1>3 DEF Disjoint

\* So does marking what a SACK block covers.
LEMMA MarkDisjoint ==
    ASSUME NEW q \in SUBSET Unacked, NEW blocks, Disjoint(q)
    PROVE  /\ Disjoint(mark_sacked(q, blocks))
           /\ Within(mark_sacked(q, blocks), q) /\ Within(q, mark_sacked(q, blocks))
<1> DEFINE Cov(s) == \E b \in blocks : ~before(s.start, b.left) /\ ~after(s.end, b.right)
           Mark(s) == [s EXCEPT !.sacked = s.sacked \/ Cov(s)]
<1>1. mark_sacked(q, blocks) = {Mark(s) : s \in q}
  BY DEF mark_sacked
<1>2. \A s \in q : Mark(s).start = s.start /\ Mark(s).end = s.end /\ Mark(s).pkt = s.pkt
  <2> HIDE DEF Cov
  <2> QED BY DEF Unacked
<1> HIDE DEF Mark
<1>3. ASSUME NEW s \in q, NEW t \in q, Mark(s) # Mark(t), NEW y \in SeqNum
      PROVE  ~(Occupies(Mark(s), y) /\ Occupies(Mark(t), y))
  <2>1. s # t
    BY <1>3
  <2>2. (Occupies(Mark(s), y) <=> Occupies(s, y)) /\ (Occupies(Mark(t), y) <=> Occupies(t, y))
    BY <1>2 DEF Occupies
  <2> QED BY <2>1, <2>2 DEF Disjoint
<1>4. Disjoint(mark_sacked(q, blocks))
  BY <1>1, <1>3 DEF Disjoint
<1>5. Within(mark_sacked(q, blocks), q) /\ Within(q, mark_sacked(q, blocks))
  BY <1>1, <1>2 DEF Within
<1> QED BY <1>4, <1>5

\* A method that moves neither SND.UNA nor SND.NXT and only marks entries.
Marks(c, d) ==
    /\ d.una = c.una /\ d.nxt = c.nxt
    /\ Within(d.retx, c.retx) /\ Within(c.retx, d.retx) /\ Disjoint(d.retx)
    /\ d.state \in Finished \/ d.state = c.state
          \/ (c.state \in SendOpen /\ d.state \in SendOpen)
          \/ (c.state \in FinPending /\ d.state \in FinPending)

\* Such a method keeps the queue.
LEMMA MarksQueued == ASSUME NEW c, NEW d, Queued(c), Marks(c, d) PROVE Queued(d)
<1>1. flight_size(d) = flight_size(c)
  BY DEF Marks, flight_size
<1>2. Short(d.retx)
  BY DEF Marks, Queued, Short, Within
<1>3. ASSUME d.state \notin Finished PROVE Covered(d)
  <2>1. c.state \notin Finished
    BY <1>3 DEF Marks, Finished, SendOpen, FinPending
  <2>2. Covered(c)
    BY <2>1 DEF Queued
  <2>3. ASSUME NEW y \in SeqNum, wrapping_sub(y, d.una) < flight_size(d)
        PROVE  \E s \in d.retx : Occupies(s, y)
    <3>1. PICK s \in c.retx : Occupies(s, y)
      BY <1>1, <2>2, <2>3 DEF Covered, Marks
    <3>2. \E t \in d.retx : s.start = t.start /\ s.end = t.end
      BY DEF Marks, Within
    <3> QED BY <3>1, <3>2 DEF Occupies
  <2> QED BY <2>3 DEF Covered
<1>4. ASSUME d.state \in SendOpen \cup Opening
      PROVE  EndsInFlight(d.retx, d.una, flight_size(d))
  <2>1. c.state \in SendOpen \cup Opening
    BY <1>4 DEF Marks, Finished, SendOpen, FinPending, Opening
  <2> QED BY <1>1, <2>1 DEF Queued, Marks, EndsInFlight, Within
<1>5. Disjoint(d.retx)
  BY DEF Marks
<1> QED BY <1>2, <1>3, <1>4, <1>5 DEF Queued

\* Once our half is over the queue only has to be orderly.
LEMMA FinishedQueued ==
    ASSUME NEW c, NEW d, Queued(c), d.retx \subseteq c.retx, d.state \in Finished
    PROVE  Queued(d)
<1>1. Disjoint(d.retx) /\ Short(d.retx)
  BY DEF Queued, Disjoint, Short
<1>2. d.state \notin SendOpen \cup Opening
  BY DEF Finished, SendOpen, Opening
<1> QED BY <1>1, <1>2 DEF Queued

(***************************************************************************)
(* An acknowledgement between SND.UNA and SND.NXT drops exactly the        *)
(* entries it covers: one with a number still in flight ends beyond it.    *)
(***************************************************************************)
LEMMA AckQueued ==
    ASSUME NEW c, ConnOK(c), Queued(c), c.state \in SendOpen \cup Opening, flight_size(c) < Half,
           NEW a \in SeqNum, wrapping_sub(a, c.una) <= flight_size(c),
           NEW d, d.una = a, d.nxt = c.nxt, d.retx = ack(c.retx, a), d.state \in SendOpen
    PROVE  Queued(d) /\ flight_size(d) <= flight_size(c)
<1>1. /\ c.una \in SeqNum /\ c.nxt \in SeqNum /\ c.retx \in SUBSET Unacked
      /\ flight_size(c) = wrapping_sub(c.nxt, c.una)
      /\ flight_size(d) = wrapping_sub(c.nxt, a)
  BY DEF ConnOK, Connection, flight_size
<1>2. \A s \in c.retx : s.start \in SeqNum /\ s.end \in SeqNum
  BY <1>1 DEF Unacked
<1>3. /\ Disjoint(c.retx) /\ Short(c.retx) /\ Covered(c)
      /\ EndsInFlight(c.retx, c.una, flight_size(c))
  <2>1. c.state \notin Finished
    BY DEF SendOpen, Opening, Finished
  <2> QED BY <2>1 DEF Queued
<1>4. Disjoint(d.retx) /\ Short(d.retx)
  BY <1>3 DEF ack, Disjoint, Short
<1>5. flight_size(d) <= flight_size(c)
  <2>1. wrapping_sub(c.nxt, a) = wrapping_sub(c.nxt, c.una) - wrapping_sub(a, c.una)
    BY <1>1, AckPositions
  <2>2. wrapping_sub(c.nxt, c.una) \in Nat /\ wrapping_sub(a, c.una) \in Nat
    <3>1. wrapping_sub(c.nxt, c.una) \in SeqNum /\ wrapping_sub(a, c.una) \in SeqNum
      BY <1>1, SubIs
    <3> QED BY <3>1, CircleIs
  <2> QED BY <1>1, <2>1, <2>2
<1>6. ASSUME NEW y \in SeqNum, wrapping_sub(y, d.una) < flight_size(d)
      PROVE  \E s \in d.retx : Occupies(s, y)
  <2>1. wrapping_sub(y, c.una) < wrapping_sub(c.nxt, c.una)
    BY <1>1, <1>6, AckPositions
  <2>2. PICK s \in c.retx : Occupies(s, y)
    BY <1>1, <1>3, <2>1 DEF Covered
  <2>3. /\ wrapping_sub(s.end, c.una) \in 1 .. wrapping_sub(c.nxt, c.una)
        /\ wrapping_sub(s.end, s.start) < Half
        /\ wrapping_sub(y, s.start) < wrapping_sub(s.end, s.start)
    BY <1>1, <1>3, <2>2, CircleIs DEF EndsInFlight, Short, Occupies
  <2>4. before(a, s.end)
    <3> DEFINE b == s.start
               e == s.end
    <3>1. b \in SeqNum /\ e \in SeqNum
      BY <1>2
    <3> HIDE DEF b, e
    <3>2. /\ wrapping_sub(e, c.una) \in 1 .. wrapping_sub(c.nxt, c.una)
          /\ wrapping_sub(e, b) < Half /\ wrapping_sub(y, b) < wrapping_sub(e, b)
          /\ wrapping_sub(y, a) < wrapping_sub(c.nxt, a)
      BY <1>1, <1>6, <2>3 DEF b, e
    <3> QED BY <1>1, <3>1, <3>2, AckPositions, SMTT(40) DEF e
  <2> QED BY <2>2, <2>4 DEF ack
<1>7. ASSUME NEW s \in d.retx PROVE wrapping_sub(s.end, d.una) \in 1 .. flight_size(d)
  <2>1. s \in c.retx /\ before(a, s.end)
    BY DEF ack
  <2>2. wrapping_sub(s.end, c.una) \in 1 .. wrapping_sub(c.nxt, c.una)
    BY <1>1, <1>3, <2>1 DEF EndsInFlight
  <2> QED BY <1>1, <1>2, <2>1, <2>2, AckPositions
<1> QED BY <1>4, <1>5, <1>6, <1>7 DEF Queued, Covered, EndsInFlight

-----------------------------------------------------------------------------
(* Sending *)

\* Two moves forward are one.
LEMMA AddTwice ==
    ASSUME NEW p \in SeqNum, NEW k \in Nat, NEW l \in Nat, k + l < Half
    PROVE  wrapping_add(wrapping_add(p, k), l) = wrapping_add(p, k + l)
<1>1. k \in SeqNum /\ l \in SeqNum /\ k + l \in SeqNum
  BY CircleIs
<1> DEFINE r == wrapping_add(p, k)
<1>2. /\ r \in SeqNum /\ r = IF p + k < SeqMod THEN p + k ELSE (p + k) - SeqMod
      /\ wrapping_add(p, k + l) =
            IF p + (k + l) < SeqMod THEN p + (k + l) ELSE (p + (k + l)) - SeqMod
  BY <1>1, AddIs
<1> HIDE DEF r
<1>3. wrapping_add(r, l) = IF r + l < SeqMod THEN r + l ELSE (r + l) - SeqMod
  BY <1>1, <1>2, AddIs
<1>4. wrapping_add(r, l) = wrapping_add(p, k + l)
  BY <1>2, <1>3, CircleIs
<1> QED BY <1>4 DEF r

\* s occupies the l numbers from the k-th after p on.
At(s, p, k, l) ==
    k \in Nat /\ l \in Nat /\ l > 0 /\ s.start = wrapping_add(p, k) /\ s.end = wrapping_add(p, k + l)

\* The entries of E occupy the n numbers from p on, each number once.
Tiles(E, p, n) ==
    /\ \A s \in E : \E k, l : At(s, p, k, l) /\ k + l <= n
    /\ \A i \in 0 .. n - 1 : \E s \in E : \E k, l : At(s, p, k, l) /\ k + l <= n /\ k <= i /\ i < k + l
    /\ \A s, t \in E : s # t =>
          \E k, l, m, o : /\ At(s, p, k, l) /\ At(t, p, m, o) /\ k + l <= n /\ m + o <= n
                          /\ k + l <= m \/ m + o <= k

\* A single entry tiles the numbers it occupies.
LEMMA OneTile ==
    ASSUME NEW p \in SeqNum, NEW s, s.start = p, s.end = wrapping_add(p, 1)
    PROVE  Tiles({s}, p, 1)
<1>1. 0 \in SeqNum
  BY CircleIs
<1>2. wrapping_add(p, 0) = p
  BY <1>1, AddIs, CircleIs
<1>3. At(s, p, 0, 1) /\ 0 + 1 <= 1
  BY <1>2 DEF At
<1>4. \A i \in 0 .. 1 - 1 : 0 <= i /\ i < 0 + 1
  OBVIOUS
<1> QED BY <1>3, <1>4 DEF Tiles

\* SND.NXT after n numbers more.
LEMMA SendEnds ==
    ASSUME NEW u \in SeqNum, NEW p \in SeqNum, NEW k \in Nat, NEW l \in Nat,
           wrapping_sub(p, u) + k + l < Half
    PROVE  /\ wrapping_sub(wrapping_add(p, k + l), u) = wrapping_sub(p, u) + k + l
           /\ wrapping_sub(wrapping_add(p, k + l), wrapping_add(p, k)) = l
BY SendPositions

\* The numbers of a tile.
LEMMA TileHolds ==
    ASSUME NEW u \in SeqNum, NEW p \in SeqNum, NEW f, f = wrapping_sub(p, u),
           NEW n \in Nat, f + n < Half, NEW s, NEW k, NEW l, At(s, p, k, l), k + l <= n
    PROVE  /\ wrapping_sub(s.end, s.start) = l /\ l \in 1 .. Half - 1
           /\ wrapping_sub(s.end, u) \in 1 .. f + n
           /\ \A y \in SeqNum :
                 Occupies(s, y) <=> wrapping_sub(y, p) >= k /\ wrapping_sub(y, p) < k + l
<1>1. f \in SeqNum
  BY SubIs
<1>2. f \in Nat /\ Half \in Nat
  BY <1>1, CircleIs
<1>3. /\ k \in Nat /\ l \in Nat /\ l > 0 /\ k + l <= n
      /\ s.start = wrapping_add(p, k) /\ s.end = wrapping_add(p, k + l)
  BY DEF At
<1>4. f + k + l < Half /\ f + k + l <= f + n /\ l \in 1 .. Half - 1 /\ f + k + l \in 1 .. f + n
  BY <1>2, <1>3
<1>5. wrapping_sub(p, u) + k + l < Half
  BY <1>4
<1>6. /\ wrapping_sub(wrapping_add(p, k + l), u) = wrapping_sub(p, u) + k + l
      /\ wrapping_sub(wrapping_add(p, k + l), wrapping_add(p, k)) = l
  BY <1>3, <1>5, SendEnds
<1>7. ASSUME NEW y \in SeqNum
      PROVE  Occupies(s, y) <=> wrapping_sub(y, p) >= k /\ wrapping_sub(y, p) < k + l
  <2>1. wrapping_sub(y, wrapping_add(p, k)) < l
             <=> wrapping_sub(y, p) >= k /\ wrapping_sub(y, p) < k + l
    BY <1>3, <1>5, SendPositions
  <2> QED BY <1>3, <1>6, <2>1 DEF Occupies
<1> QED BY <1>3, <1>4, <1>6, <1>7

\* An entry [b, e) from before holds no new number, and every number is old or new.
LEMMA OldOrNew ==
    ASSUME NEW u \in SeqNum, NEW p \in SeqNum, NEW n \in Nat, wrapping_sub(p, u) + n < Half,
           NEW y \in SeqNum
    PROVE  /\ wrapping_sub(y, u) < wrapping_sub(p, u) + n =>
                 wrapping_sub(y, u) < wrapping_sub(p, u) \/ wrapping_sub(y, p) < n
           /\ \A b, e \in SeqNum :
                 wrapping_sub(e, u) \in 1 .. wrapping_sub(p, u) /\ wrapping_sub(e, b) < Half
                    => ~(wrapping_sub(y, b) < wrapping_sub(e, b) /\ wrapping_sub(y, p) < n)
           /\ wrapping_sub(wrapping_add(p, n), u) = wrapping_sub(p, u) + n
<1> DEFINE f == wrapping_sub(p, u)
<1>1. f \in SeqNum
  BY SubIs
<1>2. f \in Nat
  BY <1>1, CircleIs
<1>3. f + 0 + n = f + n /\ 0 + n = n /\ 0 \in Nat
  BY <1>2
<1>4. wrapping_sub(p, u) + 0 + n < Half
  BY <1>3
<1>5. /\ wrapping_sub(y, u) < wrapping_sub(p, u) + 0 + n =>
            wrapping_sub(y, u) < wrapping_sub(p, u) \/ wrapping_sub(y, p) < 0 + n
      /\ \A b, e \in SeqNum :
            wrapping_sub(e, u) \in 1 .. wrapping_sub(p, u) /\ wrapping_sub(e, b) < Half
               => ~(wrapping_sub(y, b) < wrapping_sub(e, b) /\ wrapping_sub(y, p) < 0 + n)
      /\ wrapping_sub(wrapping_add(p, 0 + n), u) = wrapping_sub(p, u) + 0 + n
  BY <1>3, <1>4, SendPositions
<1> QED BY <1>3, <1>5

\* Entries that tile the numbers after SND.NXT extend the queue.
LEMMA AppendQueued ==
    ASSUME NEW c, ConnOK(c), Queued(c), c.state \in SendOpen,
           NEW n \in Nat, flight_size(c) + n < Half, NEW E, Tiles(E, c.nxt, n),
           NEW d, d.una = c.una, d.nxt = wrapping_add(c.nxt, n), d.retx = c.retx \cup E,
           d.state \in SendOpen \cup FinPending
    PROVE  Queued(d)
<1> DEFINE u == c.una
           p == c.nxt
           f == flight_size(c)
<1>1. /\ u \in SeqNum /\ p \in SeqNum /\ f = wrapping_sub(p, u) /\ f \in Nat
      /\ \A s \in c.retx : s.start \in SeqNum /\ s.end \in SeqNum
      /\ Half \in Nat /\ wrapping_sub(p, u) + n < Half
      /\ Tiles(E, p, n)
  BY FlightType, HalfAssumption DEF ConnOK, Connection, flight_size, Unacked
<1>2. /\ Disjoint(c.retx) /\ Short(c.retx) /\ Covered(c) /\ EndsInFlight(c.retx, u, f)
  <2>1. c.state \notin Finished
    BY DEF SendOpen, Finished
  <2> QED BY <2>1 DEF Queued
<1>a. /\ d.una = u /\ d.nxt = wrapping_add(p, n) /\ f = flight_size(c)
      /\ \A y \in SeqNum : wrapping_sub(y, u) < f => \E s \in c.retx : Occupies(s, y)
  BY <1>2 DEF Covered
<1> HIDE DEF f, u, p
<1>3. flight_size(d) = f + n
  <2>1. wrapping_sub(wrapping_add(p, n), u) = wrapping_sub(p, u) + n
    BY <1>1, OldOrNew
  <2> QED BY <1>1, <1>a, <2>1 DEF flight_size
\* an entry of E
<1>4. ASSUME NEW s, NEW k, NEW l, At(s, p, k, l), k + l <= n
      PROVE  /\ wrapping_sub(s.end, s.start) = l /\ l \in 1 .. Half - 1
             /\ wrapping_sub(s.end, u) \in 1 .. f + n
             /\ \A y \in SeqNum :
                   Occupies(s, y) <=> wrapping_sub(y, p) >= k /\ wrapping_sub(y, p) < k + l
  BY <1>1, <1>4, TileHolds
\* an entry from before holds no new number
<1>5. ASSUME NEW s \in c.retx, NEW y \in SeqNum, Occupies(s, y), wrapping_sub(y, p) < n PROVE FALSE
  <2> DEFINE b == s.start
             e == s.end
  <2>1. /\ wrapping_sub(e, u) \in 1 .. wrapping_sub(p, u) /\ wrapping_sub(e, b) < Half
        /\ b \in SeqNum /\ e \in SeqNum /\ wrapping_sub(y, b) < wrapping_sub(e, b)
    BY <1>1, <1>2, <1>5 DEF EndsInFlight, Short, Occupies
  <2> HIDE DEF b, e
  <2> QED BY <1>1, <1>5, <2>1, OldOrNew
<1>6. ASSUME NEW s \in E, NEW y \in SeqNum, Occupies(s, y) PROVE wrapping_sub(y, p) < n
  <2>1. PICK k, l : At(s, p, k, l) /\ k + l <= n
    BY <1>1 DEF Tiles
  <2>2. wrapping_sub(y, p) < k + l
    BY <1>4, <1>6, <2>1
  <2>3. wrapping_sub(y, p) \in Int /\ k \in Int /\ l \in Int
    <3>1. wrapping_sub(y, p) \in SeqNum
      BY <1>1, SubIs
    <3>2. wrapping_sub(y, p) \in Int
      BY <3>1, SeqNumInt
    <3>3. k \in Nat /\ l \in Nat
      BY <2>1 DEF At
    <3> QED BY <3>2, <3>3
  <2> QED BY <2>1, <2>2, <2>3
<1>7. Disjoint(d.retx)
  <2> SUFFICES ASSUME NEW s \in c.retx \cup E, NEW t \in c.retx \cup E, s # t,
                      NEW y \in SeqNum, Occupies(s, y), Occupies(t, y)
               PROVE  FALSE
    <3>1. d.retx = c.retx \cup E
      OBVIOUS
    <3> QED BY <3>1 DEF Disjoint
  <2>1. CASE s \in c.retx /\ t \in c.retx
    BY <1>2, <2>1 DEF Disjoint
  <2>2. CASE s \in c.retx /\ t \in E
    BY <1>5, <1>6, <2>2
  <2>3. CASE s \in E /\ t \in c.retx
    BY <1>5, <1>6, <2>3
  <2>4. CASE s \in E /\ t \in E
    <3>1. PICK k, l, m, o : /\ At(s, p, k, l) /\ At(t, p, m, o) /\ k + l <= n /\ m + o <= n
                            /\ k + l <= m \/ m + o <= k
      <4>1. \A s1, t1 \in E : s1 # t1 =>
               \E k, l, m, o : /\ At(s1, p, k, l) /\ At(t1, p, m, o) /\ k + l <= n /\ m + o <= n
                               /\ k + l <= m \/ m + o <= k
        BY <1>1 DEF Tiles
      <4> QED BY <2>4, <4>1
    <3>2. /\ wrapping_sub(y, p) >= k /\ wrapping_sub(y, p) < k + l
          /\ wrapping_sub(y, p) >= m /\ wrapping_sub(y, p) < m + o
      BY <1>4, <3>1
    <3>3. wrapping_sub(y, p) \in Int
      <4>1. wrapping_sub(y, p) \in SeqNum
        BY <1>1, SubIs
      <4> QED BY <4>1, SeqNumInt
    <3> QED BY <3>1, <3>2, <3>3 DEF At
  <2> QED BY <2>1, <2>2, <2>3, <2>4
<1>8. Short(d.retx)
  <2>1. ASSUME NEW s \in E PROVE wrapping_sub(s.end, s.start) \in 1 .. Half - 1
    <3>1. PICK k, l : At(s, p, k, l) /\ k + l <= n
      BY <1>1 DEF Tiles
    <3> QED BY <1>4, <3>1
  <2> QED BY <1>2, <2>1 DEF Short
<1>9. Covered(d)
  <2> SUFFICES ASSUME NEW y \in SeqNum, wrapping_sub(y, u) < f + n
               PROVE  \E s \in c.retx \cup E : Occupies(s, y)
    BY <1>3, <1>a DEF Covered
  <2>1. wrapping_sub(y, u) < f \/ wrapping_sub(y, p) < n
    BY <1>1, OldOrNew
  <2>2. CASE wrapping_sub(y, u) < f
    BY <1>a, <2>2
  <2>3. CASE wrapping_sub(y, p) < n
    <3> DEFINE i == wrapping_sub(y, p)
    <3>1. i \in SeqNum
      BY <1>1, SubIs
    <3> HIDE DEF i
    <3>2. i \in 0 .. n - 1
      BY <2>3, <3>1, CircleIs DEF i
    <3>3. PICK s \in E : \E k, l : At(s, p, k, l) /\ k + l <= n /\ k <= i /\ i < k + l
      BY <1>1, <3>2 DEF Tiles
    <3>4. PICK k, l : At(s, p, k, l) /\ k + l <= n /\ k <= i /\ i < k + l
      BY <3>3
    <3>5. i >= k /\ i < k + l
      BY <3>2, <3>4 DEF At
    <3>6. Occupies(s, y) <=> i >= k /\ i < k + l
      BY <1>4, <3>4 DEF i
    <3> QED BY <3>5, <3>6
  <2> QED BY <2>1, <2>2, <2>3
<1>10. EndsInFlight(d.retx, d.una, flight_size(d))
  <2>1. ASSUME NEW s \in E PROVE wrapping_sub(s.end, u) \in 1 .. f + n
    <3>1. PICK k, l : At(s, p, k, l) /\ k + l <= n
      BY <1>1 DEF Tiles
    <3> QED BY <1>4, <3>1
  <2>2. ASSUME NEW s \in c.retx PROVE wrapping_sub(s.end, u) \in 1 .. f + n
    <3>1. wrapping_sub(s.end, u) \in 1 .. f
      BY <1>2 DEF EndsInFlight
    <3> QED BY <1>1, <3>1
  <2> QED BY <1>3, <1>a, <2>1, <2>2 DEF EndsInFlight
<1> QED BY <1>7, <1>8, <1>9, <1>10 DEF Queued

-----------------------------------------------------------------------------
(* SendBytes *)

\* A short segment: the bytes from i * Mss to the next cut or to n.
LEMMA ChunkLen ==
    ASSUME NEW b \in Seq(Byte), NEW n \in Nat, n <= Len(b), NEW k \in Nat, NEW m \in Nat,
           k < m, m <= n
    PROVE  Len(SubSeq(b, k + 1, m)) = m - k
<1>1. Len(b) \in Nat /\ \A i \in k + 1 .. m : i \in 1 .. Len(b)
  BY LenProperties
<1>2. \A i \in k + 1 .. m : b[i] \in Byte
  BY <1>1, ElementOfSeq
<1>3. k + 1 <= m + 1
  OBVIOUS
<1>4. Len(SubSeq(b, k + 1, m)) = IF k + 1 <= m THEN (m - (k + 1)) + 1 ELSE 0
  BY <1>2, SubSeqProperties
<1> QED BY <1>4

\* Cut number i is at i * Mss; the cuts lie Mss apart.
LEMMA CutsApart ==
    ASSUME NEW i \in Nat, NEW j \in Nat
    PROVE  /\ i * Mss \in Nat /\ (i + 1) * Mss = i * Mss + Mss
           /\ i < j => i * Mss + Mss <= j * Mss
<1>1. Mss \in Nat /\ Mss > 0
  BY ConnectionAssumption
<1>2. i * Mss \in Nat /\ (i + 1) * Mss = i * Mss + Mss
  BY <1>1
<1>3. ASSUME i < j PROVE i * Mss + Mss <= j * Mss
  <2>1. PICK e \in Nat : j = (i + 1) + e
    <3>1. j - (i + 1) \in Nat /\ j = (i + 1) + (j - (i + 1))
      BY <1>3
    <3> QED BY <3>1
  <2>2. j * Mss = (i + 1) * Mss + e * Mss
    BY <1>1, <2>1
  <2>3. e * Mss \in Nat
    BY <1>1, <2>1
  <2> QED BY <1>1, <1>2, <2>2, <2>3
<1> QED BY <1>2, <1>3

\* Every number below n lies in the piece between two cuts.
LEMMA CutBelow ==
    ASSUME NEW n \in Nat, NEW x \in 0 .. n - 1
    PROVE  \E i \in 0 .. n - 1 : i * Mss < n /\ i * Mss <= x /\ x < i * Mss + Mss
<1> DEFINE i == x \div Mss
           r == x % Mss
<1>1. Mss \in Nat \ {0} /\ x \in Nat
  BY ConnectionAssumption
<1>2. i \in Nat /\ r \in 0 .. Mss - 1 /\ x = Mss * i + r
  BY <1>1
<1> HIDE DEF i, r
<1>3. Mss * i = i * Mss /\ i * Mss \in Nat
  BY <1>1, <1>2
<1>4. i * Mss <= x /\ x < i * Mss + Mss /\ i * Mss < n
  BY <1>1, <1>2, <1>3
<1>5. i <= i * Mss
  <2>1. i * Mss = i + i * (Mss - 1)
    BY <1>1, <1>2
  <2>2. i * (Mss - 1) \in Nat
    BY <1>1, <1>2
  <2> QED BY <1>2, <2>1, <2>2
<1>6. i \in 0 .. n - 1
  BY <1>2, <1>3, <1>4, <1>5
<1> QED BY <1>4, <1>6

\* The entry of piece i.
Piece(c, n, now, i) ==
    LET pkt == segment(c, wrapping_add(c.nxt, i * Mss), c.rcv_nxt, {"ACK"},
                       SubSeq(c.send_buf, i * Mss + 1, AtMost(n, (i + 1) * Mss)), now)
    IN  [start |-> wrapping_add(c.nxt, i * Mss), end |-> fin_seq(pkt), pkt |-> pkt,
         retried |-> FALSE, sacked |-> FALSE]

\* The entries for the first n bytes of the buffer.
Pieces(c, n, now) == {Piece(c, n, now, i) : i \in {i \in 0 .. n - 1 : i * Mss < n}}

\* What SendBytes does to the send side.
LEMMA SendBytesIs ==
    ASSUME NEW c, ConnOK(c), NEW n, NEW now
    PROVE  LET d == SendBytes(c, n, now).tcb
           IN  /\ d.una = c.una /\ d.nxt = wrapping_add(c.nxt, n) /\ d.state = c.state
               /\ d.retx = c.retx \cup Pieces(c, n, now)
BY DEF SendBytes, Result, ConnOK, Connection, Pieces, Piece

\* Piece i lies where its cut is.
LEMMA PieceAt ==
    ASSUME NEW c, ConnOK(c), NEW n \in Nat, n <= Len(c.send_buf), n < Half, NEW now,
           NEW i \in 0 .. n - 1, i * Mss < n
    PROVE  LET m == AtMost(n, (i + 1) * Mss)
           IN  m \in Nat /\ i * Mss < m /\ m <= n
               /\ At(Piece(c, n, now, i), c.nxt, i * Mss, m - i * Mss)
<1> DEFINE k == i * Mss
           m == AtMost(n, (i + 1) * Mss)
           start == wrapping_add(c.nxt, k)
           data == SubSeq(c.send_buf, k + 1, m)
           pkt == segment(c, start, c.rcv_nxt, {"ACK"}, data, now)
           s == Piece(c, n, now, i)
<1>1. c.nxt \in SeqNum /\ c.send_buf \in Seq(Byte) /\ Mss \in Nat /\ Mss > 0 /\ Half \in Nat
  BY ConnectionAssumption, HalfAssumption DEF ConnOK, Connection
<1>2. k \in Nat /\ (i + 1) * Mss = k + Mss
  BY CutsApart
<1>3. m \in Nat /\ k < m /\ m <= n
  <2> HIDE DEF k
  <2> QED BY <1>1, <1>2 DEF AtMost, k
<1>4. s.start = start /\ s.end = fin_seq(pkt)
  BY DEF Piece
<1>5. fin_seq(pkt) = wrapping_add(start, Len(data))
  BY DEF fin_seq, segment
<1> HIDE DEF k, m, s
<1>6. Len(data) = m - k
  BY <1>1, <1>2, <1>3, ChunkLen
<1>7. m - k \in Nat /\ m - k > 0 /\ k + (m - k) = m /\ k + (m - k) < Half
  BY <1>1, <1>2, <1>3
<1>8. wrapping_add(start, m - k) = wrapping_add(c.nxt, k + (m - k))
  BY <1>1, <1>2, <1>7, AddTwice
<1>9. At(s, c.nxt, k, m - k)
  BY <1>2, <1>4, <1>5, <1>6, <1>7, <1>8 DEF At
<1> QED BY <1>3, <1>9 DEF k, m, s

\* The pieces occupy the n numbers from SND.NXT on, each once.
LEMMA PiecesTile ==
    ASSUME NEW c, ConnOK(c), NEW n \in Nat, n <= Len(c.send_buf), n < Half, NEW now
    PROVE  Tiles(Pieces(c, n, now), c.nxt, n)
<1> DEFINE I == {i \in 0 .. n - 1 : i * Mss < n}
           P(i) == Piece(c, n, now, i)
           M(i) == AtMost(n, (i + 1) * Mss)
           K(i) == i * Mss
           p == c.nxt
<1>1. \A i \in I : M(i) \in Nat /\ K(i) \in Nat /\ K(i) < M(i) /\ M(i) <= n
                   /\ At(P(i), p, K(i), M(i) - K(i))
  <2> TAKE i \in I
  <2>1. i \in 0 .. n - 1 /\ i * Mss < n /\ i \in Nat
    OBVIOUS
  <2>2. LET m == AtMost(n, (i + 1) * Mss)
        IN  m \in Nat /\ i * Mss < m /\ m <= n
            /\ At(Piece(c, n, now, i), c.nxt, i * Mss, m - i * Mss)
    BY <2>1, PieceAt
  <2>3. i * Mss \in Nat
    BY <2>1, CutsApart
  <2> QED BY <2>2, <2>3
<1>2. \A i \in I : K(i) + (M(i) - K(i)) = M(i)
  <2> HIDE DEF K, M, I
  <2> QED BY <1>1
<1>3. \A i, j \in I : i < j => M(i) <= K(j)
  <2> TAKE i \in I, j \in I
  <2> HAVE i < j
  <2>1. i \in Nat /\ j \in Nat /\ Mss \in Nat
    BY ConnectionAssumption
  <2>2. i * Mss \in Nat /\ j * Mss \in Nat /\ (i + 1) * Mss = i * Mss + Mss /\ i * Mss + Mss <= j * Mss
    BY <2>1, CutsApart
  <2>3. (i + 1) * Mss \in Nat /\ (i + 1) * Mss <= j * Mss
    BY <2>1, <2>2
  <2>4. M(i) <= (i + 1) * Mss /\ M(i) \in Nat
    <3> DEFINE z == (i + 1) * Mss
    <3>1. z \in Nat
      BY <2>3
    <3> HIDE DEF z
    <3>2. AtMost(n, z) \in Nat /\ AtMost(n, z) <= z
      BY <3>1, AtMostType
    <3> QED BY <3>2 DEF z
  <2> HIDE DEF M
  <2> QED BY <2>2, <2>3, <2>4
<1>4. \A x \in 0 .. n - 1 : \E i \in I : K(i) <= x /\ x < M(i)
  <2> TAKE x \in 0 .. n - 1
  <2>1. PICK i \in 0 .. n - 1 : i * Mss < n /\ i * Mss <= x /\ x < i * Mss + Mss
    BY CutBelow
  <2>2. (i + 1) * Mss = i * Mss + Mss /\ i * Mss \in Nat
    <3>1. i \in Nat
      OBVIOUS
    <3> QED BY <3>1, CutsApart
  <2>3. x < n /\ x < (i + 1) * Mss
    BY <2>1, <2>2
  <2>4. x < M(i)
    <3> DEFINE z == (i + 1) * Mss
    <3> HIDE DEF z
    <3>1. x < AtMost(n, z)
      BY <2>3 DEF AtMost, z
    <3> QED BY <3>1 DEF z
  <2> QED BY <2>1, <2>4
<1>5. Pieces(c, n, now) = {P(i) : i \in I}
  BY DEF Pieces
<1>6. \A i \in I, j \in I : i \in Int /\ j \in Int
  OBVIOUS
<1> DEFINE E == {P(i) : i \in I}
<1> HIDE DEF P, M, K, I, p
<1>7. \A s \in E : \E k, l : At(s, p, k, l) /\ k + l <= n
  <2> TAKE s \in E
  <2>1. PICK i \in I : s = P(i)
    OBVIOUS
  <2>2. At(s, p, K(i), M(i) - K(i)) /\ K(i) + (M(i) - K(i)) <= n
    BY <1>1, <1>2, <2>1
  <2> QED BY <2>2
<1>8. \A x \in 0 .. n - 1 : \E s \in E : \E k, l : At(s, p, k, l) /\ k + l <= n /\ k <= x /\ x < k + l
  <2> TAKE x \in 0 .. n - 1
  <2>1. PICK i \in I : K(i) <= x /\ x < M(i)
    BY <1>4
  <2>2. /\ At(P(i), p, K(i), M(i) - K(i)) /\ K(i) + (M(i) - K(i)) <= n
        /\ K(i) <= x /\ x < K(i) + (M(i) - K(i))
    BY <1>1, <1>2, <2>1
  <2>3. P(i) \in E
    BY <2>1
  <2> QED BY <2>2, <2>3
<1>9. \A s, t \in E : s # t =>
          \E k, l, m, o : /\ At(s, p, k, l) /\ At(t, p, m, o) /\ k + l <= n /\ m + o <= n
                          /\ k + l <= m \/ m + o <= k
  <2> TAKE s, t \in E
  <2> HAVE s # t
  <2>1. PICK i \in I, j \in I : s = P(i) /\ t = P(j)
    OBVIOUS
  <2>2. i < j \/ j < i
    BY <1>6, <2>1
  <2>3. K(i) + (M(i) - K(i)) <= K(j) \/ K(j) + (M(j) - K(j)) <= K(i)
    BY <1>2, <1>3, <2>2
  <2>4. /\ At(s, p, K(i), M(i) - K(i)) /\ At(t, p, K(j), M(j) - K(j))
        /\ K(i) + (M(i) - K(i)) <= n /\ K(j) + (M(j) - K(j)) <= n
    BY <1>1, <1>2, <2>1
  <2> QED BY <2>3, <2>4
<1> QED BY <1>5, <1>7, <1>8, <1>9 DEF Tiles, p

\* New data enters the queue as it leaves the buffer.
LEMMA SendBytesQueued ==
    ASSUME NEW c, ConnOK(c), Queued(c), c.state \in SendOpen,
           NEW n \in Nat, n <= Len(c.send_buf), flight_size(c) + n < Half, NEW now
    PROVE  Queued(SendBytes(c, n, now).tcb)
<1>1. n < Half
  BY FlightType, HalfAssumption
<1>2. Tiles(Pieces(c, n, now), c.nxt, n)
  BY <1>1, PiecesTile
<1> DEFINE d == SendBytes(c, n, now).tcb
<1>3. /\ d.una = c.una /\ d.nxt = wrapping_add(c.nxt, n) /\ d.state = c.state
      /\ d.retx = c.retx \cup Pieces(c, n, now)
  BY SendBytesIs
<1> HIDE DEF d
<1>4. d.state \in SendOpen \cup FinPending
  BY <1>3
<1>5. Queued(d)
  BY <1>2, <1>3, <1>4, AppendQueued
<1> QED BY <1>5 DEF d

-----------------------------------------------------------------------------
(* Methods *)

\* The send side and the state as they were.
LEMMA SameQueued ==
    ASSUME NEW c, NEW d, Queued(c), d.una = c.una, d.nxt = c.nxt, d.retx = c.retx,
           d.state = c.state \/ (c.state \in SendOpen /\ d.state \in SendOpen)
              \/ (c.state \in FinPending /\ d.state \in FinPending) \/ d.state \in Finished
    PROVE  Queued(d)
<1>1. Disjoint(d.retx)
  BY DEF Queued
<1>2. Within(d.retx, c.retx) /\ Within(c.retx, d.retx)
  BY WithinReflexive
<1>3. Marks(c, d)
  BY <1>1, <1>2 DEF Marks
<1> QED BY <1>3, MarksQueued

\* Entries that go out again.
LEMMA ResendQueued ==
    ASSUME NEW c, ConnOK(c), Queued(c), NEW R \in SUBSET c.retx,
           NEW d, d.una = c.una, d.nxt = c.nxt, d.state = c.state, d.retx = Resend(c.retx, R)
    PROVE  Queued(d)
<1>1. c.retx \in SUBSET Unacked /\ Disjoint(c.retx)
  BY DEF ConnOK, Connection, Queued
<1>2. Within(d.retx, c.retx) /\ Within(c.retx, d.retx) /\ Disjoint(d.retx)
  BY <1>1, ResendWithin, ResendDisjoint
<1>3. Marks(c, d)
  BY <1>2 DEF Marks
<1> QED BY <1>3, MarksQueued

\* The data half of an open connection leaves the queue alone.
LEMMA OnOpenDataRetx ==
    ASSUME NEW c, ConnOK(c), NEW s \in Segment, NEW now
    PROVE  OnOpenData(c, s, now).tcb.retx = c.retx
<1> DEFINE c1  == DeliverData(c, s).tcb
           c2  == IF "FIN" \in s.flags /\ c1.state = "Established" /\ ~before(fin_seq(s), c1.rcv_nxt)
                  THEN [c1 EXCEPT !.pending_fin = fin_seq(s)] ELSE c1
           c3  == [ConsumeFin(c2, "CloseWait") EXCEPT !.pending_fin = NoFin]
<1>1. ConnOK(c1) /\ c1.retx = c.retx
  BY DeliverDataType, DeliverDataEffect
<1>2. ConnOK(c2) /\ c2.retx = c.retx
  <2> HIDE DEF c1
  <2> QED BY <1>1, SegmentFields DEF ConnOK, Connection
<1>3. c3.retx = c.retx
  <2> DEFINE cf == ConsumeFin(c2, "CloseWait")
  <2> HIDE DEF c2
  <2>1. ConnOK(cf)
    BY <1>2, ConsumeFinType DEF State
  <2>2. cf.retx = c.retx
    BY <1>2, ConsumeFinEffect
  <2> HIDE DEF cf
  <2>3. c3 = [cf EXCEPT !.pending_fin = NoFin]
    BY DEF cf
  <2> HIDE DEF c3
  <2> QED BY <2>1, <2>2, <2>3 DEF ConnOK, Connection
<1>4. OnOpenData(c, s, now).tcb \in {c1, c2, c3}
  BY DEF OnOpenData, DeliverData, Result, FinDue
<1> HIDE DEF c1, c2, c3
<1> QED BY <1>1, <1>2, <1>3, <1>4

\* It therefore keeps it.
LEMMA OnOpenDataQueued ==
    ASSUME NEW c, ConnOK(c), Queued(c), c.state \in SendOpen, NEW s \in Segment, NEW now
    PROVE  Queued(OnOpenData(c, s, now).tcb)
<1> DEFINE d == OnOpenData(c, s, now).tcb
<1>1. Consumes(c, d) /\ d.retx = c.retx
  BY OnOpenDataEffect, OnOpenDataRetx
<1> HIDE DEF d
<1>2. d.una = c.una /\ d.nxt = c.nxt /\ d.state \in SendOpen
  BY <1>1 DEF Consumes, SendOpen
<1>3. Queued(d)
  BY <1>1, <1>2, SameQueued
<1> QED BY <1>3 DEF d

\* A fast retransmit resends the first hole; otherwise the data is processed.
LEMMA FastRetransmitOrQueued ==
    ASSUME NEW c, ConnOK(c), Queued(c), c.state \in SendOpen, NEW s \in Segment, NEW now
    PROVE  Queued(FastRetransmitOr(c, s, now).tcb)
<1> DEFINE R == FirstHole(c.retx)
           d == [c EXCEPT !.retx = Resend(@, R)]
<1>1. R \in SUBSET c.retx
  BY DEF FirstHole, Holes
<1>2. d.una = c.una /\ d.nxt = c.nxt /\ d.state = c.state /\ d.retx = Resend(c.retx, R)
  BY DEF ConnOK, Connection
<1>3. FastRetransmitOr(c, s, now).tcb \in {OnOpenData(c, s, now).tcb, d}
  BY DEF FastRetransmitOr, Result
<1> HIDE DEF d, R
<1>4. Queued(d)
  BY <1>1, <1>2, ResendQueued
<1> QED BY <1>3, <1>4, OnOpenDataQueued

\* A number between SND.UNA and SND.NXT is in flight.
LEMMA BetweenIsInFlight ==
    ASSUME NEW u \in SeqNum, NEW a \in SeqNum, NEW n \in SeqNum,
           wrapping_sub(n, u) < Half, between(u, a, n)
    PROVE  wrapping_sub(a, u) <= wrapping_sub(n, u)
<1>1. /\ wrapping_sub(n, u) = IF u <= n THEN n - u ELSE (n - u) + SeqMod
      /\ wrapping_sub(a, u) = IF u <= a THEN a - u ELSE (a - u) + SeqMod
      /\ wrapping_sub(u, a) = IF a <= u THEN u - a ELSE (u - a) + SeqMod
      /\ wrapping_sub(n, a) = IF a <= n THEN n - a ELSE (n - a) + SeqMod
  BY SubIs
<1>2. /\ u \in Int /\ 0 <= u /\ u < SeqMod /\ a \in Int /\ 0 <= a /\ a < SeqMod
      /\ n \in Int /\ 0 <= n /\ n < SeqMod
      /\ Half \in Int /\ Half > 0 /\ SeqMod = 2 * Half
  BY CircleIs
<1>3. wrapping_sub(u, a) >= Half /\ ~(wrapping_sub(n, a) >= Half)
  BY DEF between, after, before
<1> QED BY <1>1, <1>2, <1>3

\* The branches for an acknowledgement in Established and CloseWait.
LEMMA OnOpenAckQueued ==
    ASSUME NEW c, ConnOK(c), Queued(c), c.state \in SendOpen, flight_size(c) < Half,
           NEW prev_wnd, NEW s \in Segment, NEW now
    PROVE  Queued(OnOpenAck(c, prev_wnd, s, now).tcb)
<1> DEFINE acked   == [c EXCEPT !.una = s.ack, !.retx = ack(@, s.ack), !.dup_acks = 0]
           count   == IF c.dup_acks > DupThresh THEN c.dup_acks ELSE c.dup_acks + 1
           counted == [c EXCEPT !.dup_acks = count]
           started == [counted EXCEPT !.in_recovery = TRUE, !.recover = c.nxt]
           ended   == [acked EXCEPT !.in_recovery = FALSE]
           Same(d) == d.nxt = c.nxt /\ d.state = c.state
           Acked(d) == Same(d) /\ d.una = s.ack /\ d.retx = ack(c.retx, s.ack)
           Unmoved(d) == Same(d) /\ d.una = c.una /\ d.retx = c.retx
<1>1. s.ack \in SeqNum /\ ack(c.retx, s.ack) \in SUBSET Unacked /\ 0 \in 0 .. DupThresh + 1
  BY SegmentFields, AckType, DupThreshAssumption DEF ConnOK, Connection
<1>2. ConnOK(acked) /\ Acked(acked)
  BY <1>1 DEF ConnOK, Connection
<1>3. ConnOK(ended) /\ Acked(ended)
  <2> HIDE DEF acked
  <2> QED BY <1>2 DEF ConnOK, Connection
<1>4. count \in 0 .. DupThresh + 1
  BY DupThreshAssumption DEF ConnOK, Connection
<1>5. ConnOK(counted) /\ Unmoved(counted)
  <2> HIDE DEF count
  <2> QED BY <1>4 DEF ConnOK, Connection
<1>6. ConnOK(started) /\ Unmoved(started)
  <2>1. c.nxt \in SeqNum
    BY DEF ConnOK, Connection
  <2> HIDE DEF counted
  <2> QED BY <1>5, <2>1 DEF ConnOK, Connection
<1>7. \/ /\ between(c.una, s.ack, c.nxt)
         /\ OnOpenAck(c, prev_wnd, s, now) \in
               {FastRetransmitOr(acked, s, now), OnOpenData(ended, s, now)}
      \/ OnOpenAck(c, prev_wnd, s, now) \in
            {FastRetransmitOr(started, s, now), OnOpenData(counted, s, now), OnOpenData(c, s, now)}
  BY DEF OnOpenAck, AcksNewData
<1> HIDE DEF acked, counted, started, ended, count
<1>8. Queued(counted) /\ Queued(started)
  BY <1>5, <1>6, SameQueued
<1>9. ASSUME between(c.una, s.ack, c.nxt) PROVE Queued(acked) /\ Queued(ended)
  <2>1. c.una \in SeqNum /\ c.nxt \in SeqNum /\ flight_size(c) = wrapping_sub(c.nxt, c.una)
    BY DEF ConnOK, Connection, flight_size
  <2>2. wrapping_sub(s.ack, c.una) <= flight_size(c)
    BY <1>1, <1>9, <2>1, BetweenIsInFlight
  <2> QED BY <1>1, <1>2, <1>3, <2>2, AckQueued
<1>10. /\ acked.state \in SendOpen /\ ended.state \in SendOpen
       /\ counted.state \in SendOpen /\ started.state \in SendOpen
  BY <1>2, <1>3, <1>5, <1>6
<1>11. CASE between(c.una, s.ack, c.nxt)
  BY <1>2, <1>3, <1>5, <1>6, <1>7, <1>8, <1>9, <1>10, <1>11, FastRetransmitOrQueued, OnOpenDataQueued
<1>12. CASE ~between(c.una, s.ack, c.nxt)
  BY <1>5, <1>6, <1>7, <1>8, <1>10, <1>12, FastRetransmitOrQueued, OnOpenDataQueued
<1> QED BY <1>11, <1>12

\* The whole handler of Established and CloseWait: SACK marks, ACK, data.
LEMMA OnOpenQueued ==
    ASSUME NEW c, ConnOK(c), Queued(c), c.state \in SendOpen, flight_size(c) < Half,
           NEW s \in Segment, NEW throttled, NEW now
    PROVE  Queued(OnOpen(c, s, throttled, now).tcb)
<1> DEFINE ts    == c.ts_enabled /\ "TS" \in s.opts
           fresh == [c EXCEPT
                       !.ts_recent = IF ts /\ UpdatesTsRecent(c, s) THEN s.tsval ELSE @,
                       !.wnd = s.window,
                       !.max_snd_wnd = IF s.window > @ THEN s.window ELSE @]
           q == mark_sacked(fresh.retx, s.sack)
           marks == [fresh EXCEPT !.retx = q]
           marked == IF c.sack_ok THEN [fresh EXCEPT !.retx = mark_sacked(@, s.sack)] ELSE fresh
<1>1. /\ ConnOK(fresh) /\ fresh.nxt = c.nxt /\ fresh.una = c.una /\ fresh.state = c.state
      /\ fresh.retx = c.retx
  <2> HIDE DEF ts
  <2> QED BY SegmentFields DEF ConnOK, Connection
<1>2. OnOpen(c, s, throttled, now) \in
         {OnOpenData(fresh, s, now), OnOpenAck(marked, c.wnd, s, now),
          maybe_challenge(fresh, throttled, now), Result(c, {AckNow(c, now)})}
  BY DEF OnOpen
<1> HIDE DEF fresh
<1>3. Queued(fresh)
  BY <1>1, SameQueued
<1>4. q \in SUBSET Unacked
  BY <1>1, MarkSackedType DEF ConnOK, Connection
<1>5. /\ ConnOK(marks) /\ marks.nxt = c.nxt /\ marks.una = c.una /\ marks.state = c.state
      /\ marks.retx = q
  <2> HIDE DEF q
  <2> QED BY <1>1, <1>4 DEF ConnOK, Connection
<1>6. Queued(marks)
  <2>1. c.retx \in SUBSET Unacked /\ Disjoint(c.retx)
    BY DEF ConnOK, Connection, Queued
  <2>2. Within(q, c.retx) /\ Within(c.retx, q) /\ Disjoint(q)
    BY <1>1, <2>1, MarkDisjoint
  <2> HIDE DEF marks, q
  <2>3. Marks(c, marks)
    BY <1>5, <2>2 DEF Marks
  <2> QED BY <2>3, MarksQueued
<1>7. marked \in {marks, fresh}
  OBVIOUS
<1> HIDE DEF marks, marked
<1>8. ConnOK(marked) /\ Queued(marked) /\ marked.state = c.state /\ flight_size(marked) < Half
  BY <1>1, <1>3, <1>5, <1>6, <1>7 DEF flight_size
<1>9. /\ maybe_challenge(fresh, throttled, now).tcb = fresh
      /\ Result(c, {AckNow(c, now)}).tcb = c
  BY DEF maybe_challenge, Result
<1>10. Queued(OnOpenData(fresh, s, now).tcb)
  BY <1>1, <1>3, OnOpenDataQueued
<1>11. Queued(OnOpenAck(marked, c.wnd, s, now).tcb)
  BY <1>8, OnOpenAckQueued
<1> QED BY <1>2, <1>3, <1>9, <1>10, <1>11

\* FIN-WAIT-1 and FIN-WAIT-2: only the ACK of the FIN trims the queue, and then our half is over.
LEMMA OnFinWaitQueued ==
    ASSUME NEW c, ConnOK(c), Queued(c), NEW s \in Segment, NEW now, c.state \in {"FinWait1", "FinWait2"}
    PROVE  Queued(OnFinWait(c, s, now).tcb)
<1> DEFINE finAcked == c.state = "FinWait1" /\ AcksNxt(c, s)
           c0 == IF finAcked THEN [c EXCEPT !.retx = ack(@, s.ack)] ELSE c
           c1 == DeliverData(c0, s).tcb
           next == IF finAcked \/ c.state = "FinWait2" THEN "TimeWait" ELSE "Closing"
           c2 == ConsumeFin(c1, next)
           c3 == IF finAcked THEN [c1 EXCEPT !.state = "FinWait2"] ELSE c1
           Sub(d) == d.una = c.una /\ d.nxt = c.nxt /\ d.retx \subseteq c.retx
                      /\ (~finAcked => d.retx = c.retx)
<1>1. ConnOK(c0) /\ Sub(c0) /\ c0.state = c.state
  <2> HIDE DEF finAcked
  <2>1. ack(c.retx, s.ack) \in SUBSET Unacked /\ ack(c.retx, s.ack) \subseteq c.retx
    BY AckType DEF ConnOK, Connection, ack
  <2> QED BY <2>1 DEF ConnOK, Connection
<1>2. ConnOK(c1) /\ Sub(c1) /\ c1.state = c.state
  <2> HIDE DEF c0, finAcked
  <2> QED BY <1>1, DeliverDataType, DeliverDataEffect
<1>3. Sub(c2) /\ c2.state = next
  <2> HIDE DEF c1, finAcked, next
  <2> QED BY <1>2, ConsumeFinEffect
<1>4. Sub(c3) /\ c3.state = (IF finAcked THEN "FinWait2" ELSE c.state)
  <2> HIDE DEF c1, finAcked
  <2> QED BY <1>2 DEF ConnOK, Connection
<1>5. OnFinWait(c, s, now).tcb \in {c2, c3}
  BY DEF OnFinWait, DeliverData, Result
<1>6. Queued(c2)
  <2> HIDE DEF c2, finAcked
  <2>1. CASE finAcked \/ c.state = "FinWait2"
    BY <1>3, <2>1, FinishedQueued DEF Finished
  <2>2. CASE ~(finAcked \/ c.state = "FinWait2")
    BY <1>3, <2>2, SameQueued DEF FinPending
  <2> QED BY <2>1, <2>2
<1>7. Queued(c3)
  <2> HIDE DEF c3, finAcked
  <2>1. CASE finAcked
    BY <1>4, <2>1, FinishedQueued DEF Finished
  <2>2. CASE ~finAcked
    BY <1>4, <2>2, SameQueued
  <2> QED BY <2>1, <2>2
<1> QED BY <1>5, <1>6, <1>7

\* LAST-ACK and CLOSING wait for the ACK of the FIN only.
LEMMA OnFinAckOnlyQueued ==
    ASSUME NEW c, ConnOK(c), Queued(c), NEW s
    PROVE  Queued(OnFinAckOnly(c, s).tcb)
<1> DEFINE next == IF c.state = "LastAck" THEN "Closed" ELSE "TimeWait"
           d == [c EXCEPT !.retx = ack(@, s.ack), !.state = next]
<1>1. d.state = next /\ d.retx \subseteq c.retx
  BY DEF ConnOK, Connection, ack
<1>2. OnFinAckOnly(c, s).tcb \in {c, d}
  BY DEF OnFinAckOnly, Result
<1> HIDE DEF d
<1>3. Queued(d)
  BY <1>1, FinishedQueued DEF Finished
<1> QED BY <1>2, <1>3

\* Dispatch on the state.
LEMMA OnSynchronizedQueued ==
    ASSUME NEW c, ConnOK(c), Queued(c), flight_size(c) < Half, NEW s \in Segment, NEW throttled, NEW now
    PROVE  Queued(OnSynchronized(c, s, throttled, now).tcb)
<1> DEFINE d == OnSynchronized(c, s, throttled, now).tcb
<1>1. CASE c.state \in SendOpen
  <2>1. d = OnOpen(c, s, throttled, now).tcb
    BY <1>1 DEF OnSynchronized, SendOpen
  <2> QED BY <1>1, <2>1, OnOpenQueued
<1>2. CASE c.state \in {"FinWait1", "FinWait2"}
  <2>1. d = OnFinWait(c, s, now).tcb
    BY <1>2 DEF OnSynchronized, SendOpen
  <2> QED BY <1>2, <2>1, OnFinWaitQueued
<1>3. CASE c.state \in {"LastAck", "Closing"}
  <2>1. d = OnFinAckOnly(c, s).tcb
    BY <1>3 DEF OnSynchronized, SendOpen
  <2> QED BY <1>3, <2>1, OnFinAckOnlyQueued
<1>4. CASE c.state \notin SendOpen \cup {"FinWait1", "FinWait2", "LastAck", "Closing"}
  <2>1. d = c
    BY <1>4 DEF OnSynchronized, SendOpen, Result
  <2> QED BY <2>1
<1> QED BY <1>1, <1>2, <1>3, <1>4

\* The ACK that ends the handshake covers all that was sent.
LEMMA EstablishedQueued ==
    ASSUME NEW c, ConnOK(c), Queued(c), flight_size(c) < Half, c.state \in Opening,
           NEW d, d.una = c.nxt, d.nxt = c.nxt, d.retx = ack(c.retx, c.nxt), d.state \in SendOpen
    PROVE  Queued(d) /\ flight_size(d) < Half
<1>1. c.nxt \in SeqNum /\ c.una \in SeqNum /\ flight_size(c) = wrapping_sub(c.nxt, c.una)
  BY DEF ConnOK, Connection, flight_size
<1>2. wrapping_sub(c.nxt, c.una) <= flight_size(c) /\ flight_size(c) \in Nat /\ Half \in Nat
  BY <1>1, FlightType, HalfAssumption
<1>3. Queued(d) /\ flight_size(d) <= flight_size(c)
  BY <1>1, <1>2, AckQueued
<1>4. flight_size(d) \in SeqNum
  BY <1>1, SubIs DEF flight_size
<1>5. flight_size(d) \in Int
  BY <1>4, SeqNumInt
<1> QED BY <1>2, <1>3, <1>5

\* SYN-SENT: the SYN-ACK empties the queue.
LEMMA OnSynSentQueued ==
    ASSUME NEW c, ConnOK(c), Queued(c), flight_size(c) < Half, c.state = "SynSent",
           NEW s \in Segment, NEW now
    PROVE  Queued(OnSynSent(c, s, now).tcb)
<1> DEFINE d == OnSynSent(c, s, now).tcb
<1>1. \/ d = c
      \/ d.una = c.nxt /\ d.nxt = c.nxt /\ d.retx = ack(c.retx, c.nxt) /\ d.state = "Established"
  BY DEF OnSynSent, AcksNxt, Result, ConnOK, Connection
<1> HIDE DEF d
<1>2. Queued(d)
  BY <1>1, EstablishedQueued DEF Opening, SendOpen
<1> QED BY <1>2 DEF d

\* SYN-RCVD: the ACK of our SYN, with the data it carries.
LEMMA OnSynRcvdQueued ==
    ASSUME NEW c, ConnOK(c), Queued(c), flight_size(c) < Half, c.state = "SynRcvd",
           NEW s \in Segment, NEW throttled, NEW now
    PROVE  Queued(OnSynRcvd(c, s, throttled, now).tcb)
<1> DEFINE est == [c EXCEPT !.una = s.ack, !.retx = ack(@, s.ack), !.state = "Established"]
<1>1. ConnOK(est)
  <2>1. s.ack \in SeqNum /\ ack(c.retx, s.ack) \in SUBSET Unacked
    BY SegmentFields, AckType DEF ConnOK, Connection
  <2> QED BY <2>1 DEF ConnOK, Connection, State
<1>2. est.una = s.ack /\ est.nxt = c.nxt /\ est.state = "Established" /\ est.retx = ack(c.retx, s.ack)
  BY DEF ConnOK, Connection
<1>3. \/ OnSynRcvd(c, s, throttled, now).tcb = c
      \/ s.ack = c.nxt /\ OnSynRcvd(c, s, throttled, now).tcb = OnSynchronized(est, s, throttled, now).tcb
  BY DEF OnSynRcvd, AcksNxt, Result
<1> HIDE DEF est
<1>4. ASSUME s.ack = c.nxt PROVE Queued(est) /\ flight_size(est) < Half
  BY <1>2, <1>4, EstablishedQueued DEF Opening, SendOpen
<1> QED BY <1>1, <1>3, <1>4, OnSynchronizedQueued

\* A reset ends the connection or is challenged.
LEMMA OnRstQueued ==
    ASSUME NEW c, ConnOK(c), Queued(c), NEW s, NEW throttled, NEW now
    PROVE  Queued(on_rst(c, s, throttled, now).tcb)
<1> DEFINE d == [c EXCEPT !.state = "Closed"]
<1>1. on_rst(c, s, throttled, now).tcb \in {c, d}
  BY DEF on_rst, maybe_challenge, Result
<1>2. d.state = "Closed" /\ d.retx = c.retx
  BY DEF ConnOK, Connection
<1> HIDE DEF d
<1>3. Queued(d)
  BY <1>2, FinishedQueued DEF Finished
<1> QED BY <1>1, <1>3

\* Any segment, in any state.
LEMMA OnSegmentQueued ==
    ASSUME NEW c0, ConnOK(c0), Queued(c0), flight_size(c0) < Half,
           NEW s \in Segment, NEW throttled, NEW now
    PROVE  Queued(on_segment(c0, s, throttled, now).tcb)
<1> DEFINE c == [c0 EXCEPT !.keepalive_probes_sent = 0]
           d == on_segment(c0, s, throttled, now).tcb
<1>1. ConnOK(c)
  BY ConnectionAssumption DEF ConnOK, Connection
<1>2. c.una = c0.una /\ c.nxt = c0.nxt /\ c.state = c0.state /\ c.retx = c0.retx
  BY DEF ConnOK, Connection
<1>3. d \in {on_rst(c, s, throttled, now).tcb, maybe_challenge(c, throttled, now).tcb,
             OnSynchronized(c, s, throttled, now).tcb}
      \/ (c.state = "SynSent" /\ d = OnSynSent(c, s, now).tcb)
      \/ (c.state = "SynRcvd" /\ d = OnSynRcvd(c, s, throttled, now).tcb)
  <2> HIDE DEF c
  <2> QED BY DEF on_segment, c
<1> HIDE DEF c, d
<1>4. maybe_challenge(c, throttled, now).tcb = c
  BY DEF maybe_challenge, Result
<1>5. Queued(c) /\ flight_size(c) < Half
  BY <1>2, SameQueued DEF flight_size
<1>6. Queued(d)
  BY <1>1, <1>3, <1>4, <1>5, OnRstQueued, OnSynchronizedQueued, OnSynSentQueued, OnSynRcvdQueued
<1> QED BY <1>6 DEF d

-----------------------------------------------------------------------------
(* Closing, transmission and timers *)

\* One number sent, SYN, FIN or the byte of a probe, is one entry.
LEMMA SentOneQueued ==
    ASSUME NEW c, ConnOK(c), Queued(c), c.state \in SendOpen, flight_size(c) + 1 < Half, NEW pkt,
           NEW d, d.una = c.una, d.nxt = wrapping_add(c.nxt, 1),
           d.retx = record(c.retx, c.nxt, wrapping_add(c.nxt, 1), pkt),
           d.state \in SendOpen \cup FinPending
    PROVE  Queued(d)
<1> DEFINE u == [start |-> c.nxt, end |-> wrapping_add(c.nxt, 1), pkt |-> pkt,
                 retried |-> FALSE, sacked |-> FALSE]
<1>1. d.retx = c.retx \cup {u} /\ u.start = c.nxt /\ u.end = wrapping_add(c.nxt, 1)
  BY DEF record
<1>2. c.nxt \in SeqNum
  BY DEF ConnOK, Connection
<1> HIDE DEF u
<1>3. Tiles({u}, c.nxt, 1)
  BY <1>1, <1>2, OneTile
<1> QED BY <1>1, <1>3, AppendQueued

\* close queues the FIN.
LEMMA CloseQueued ==
    ASSUME NEW c, ConnOK(c), Queued(c), flight_size(c) + 1 < Half, NEW now
    PROVE  Queued(close(c, now).tcb)
<1> DEFINE fin == segment(c, c.nxt, c.rcv_nxt, {"FIN", "ACK"}, << >>, now)
           next == IF c.state = "Established" THEN "FinWait1" ELSE "LastAck"
           d == [Sent(c, c.nxt, 1, fin) EXCEPT !.state = next]
<1>1. CASE c.state \in SendOpen
  <2>1. close(c, now).tcb = d
    BY <1>1 DEF close, Result
  <2> HIDE DEF fin
  <2>2. /\ d.una = c.una /\ d.nxt = wrapping_add(c.nxt, 1) /\ d.state = next
        /\ d.retx = record(c.retx, c.nxt, wrapping_add(c.nxt, 1), fin)
    BY DEF Sent, ConnOK, Connection
  <2> HIDE DEF d
  <2>3. d.state \in SendOpen \cup FinPending
    BY <2>2 DEF FinPending
  <2> QED BY <1>1, <2>1, <2>2, <2>3, SentOneQueued
<1>2. CASE c.state \notin SendOpen
  <2>1. close(c, now).tcb = c
    BY <1>2 DEF close, Result
  <2> QED BY <2>1
<1> QED BY <1>1, <1>2

\* poll_transmit resends what is lost and sends what fits.
LEMMA PollTransmitQueued ==
    ASSUME NEW c, ConnOK(c), Queued(c), flight_size(c) + Len(c.send_buf) < Half,
           NEW cwnd \in Nat, NEW now
    PROVE  Queued(poll_transmit(c, cwnd, now).tcb)
<1> DEFINE limit == AtMost(c.wnd, cwnd)
           lost  == LostWithin(c.retx, limit)
           c1    == [c EXCEPT !.retx = Resend(@, lost)]
           room  == IF limit > pipe(c1.retx) THEN limit - pipe(c1.retx) ELSE 0
           n     == AtMost(room, Len(c.send_buf))
           new   == SendBytes(c1, n, now)
           f     == flight_size(c)
           len   == Len(c.send_buf)
<1>1. len \in Nat /\ c.wnd \in Nat /\ f \in Nat /\ Half \in Nat
  BY LenProperties, FlightType, HalfAssumption DEF ConnOK, Connection
<1>2. limit \in Nat
  BY <1>1, AtMostType
<1>3. lost \in SUBSET c.retx
  BY DEF LostWithin
<1>4. ConnOK(c1) /\ c1.send_buf = c.send_buf /\ c1.una = c.una /\ c1.nxt = c.nxt
         /\ c1.state = c.state /\ c1.retx = Resend(c.retx, lost)
  <2> HIDE DEF lost
  <2>1. ConnOK(c1)
    BY <1>3, ResendConnType
  <2>2. c1.send_buf = c.send_buf /\ c1.una = c.una /\ c1.nxt = c.nxt
           /\ c1.state = c.state /\ c1.retx = Resend(c.retx, lost)
    BY DEF ConnOK, Connection
  <2> QED BY <2>1, <2>2
<1>5. poll_transmit(c, cwnd, now).tcb \in {c}
      \/ (c.state \in SendOpen
            /\ poll_transmit(c, cwnd, now).tcb \in {new.tcb, SendBytes(c, Sendable(c, cwnd), now).tcb})
  BY DEF poll_transmit, Result, SendBytes
<1>6. room \in Nat
  <2> HIDE DEF limit, c1
  <2>1. pipe(c1.retx) \in Nat
    BY <1>4, PipeType DEF ConnOK, Connection
  <2> QED BY <1>2, <2>1
<1>7. n \in Nat /\ n <= len
  <2> HIDE DEF room
  <2> QED BY <1>1, <1>6, AtMostType
<1> HIDE DEF c1, n, lost
<1>8. Queued(c1) /\ flight_size(c1) = f
  BY <1>3, <1>4, ResendQueued DEF flight_size
<1>9. ASSUME NEW m \in Nat, m <= len PROVE f + m < Half
  <2> HIDE DEF f, len
  <2>1. f + len < Half
    BY DEF f, len
  <2> QED BY <1>1, <1>9, <2>1
<1>10. c.state \in SendOpen => Queued(new.tcb)
  BY <1>4, <1>7, <1>8, <1>9, SendBytesQueued
<1>11. c.state \in SendOpen => Queued(SendBytes(c, Sendable(c, cwnd), now).tcb)
  BY <1>9, SendableType, SendBytesQueued
<1> QED BY <1>5, <1>10, <1>11

\* The persist timer queues the byte of its probe.
LEMMA PersistTickQueued ==
    ASSUME NEW c, ConnOK(c), Queued(c), flight_size(c) + 1 < Half, NEW elapsed, NEW now
    PROVE  Queued(PersistTick(c, elapsed, now).tcb)
<1> DEFINE shut  == c.state \in SendOpen /\ c.wnd = 0 /\ c.send_buf # << >> /\ flight_size(c) = 0
           probe == segment(c, c.nxt, c.rcv_nxt, {"ACK"}, SubSeq(c.send_buf, 1, 1), now)
           d     == [Sent(c, c.nxt, 1, probe) EXCEPT !.send_buf = Tail(@), !.persist = FALSE]
           e     == [c EXCEPT !.persist = shut]
<1>1. /\ d.una = c.una /\ d.state = c.state /\ d.nxt = wrapping_add(c.nxt, 1)
      /\ d.retx = record(c.retx, c.nxt, wrapping_add(c.nxt, 1), probe)
      /\ e.una = c.una /\ e.state = c.state /\ e.nxt = c.nxt /\ e.retx = c.retx
  <2> HIDE DEF probe, shut
  <2> QED BY DEF Sent, ConnOK, Connection
<1>2. \/ c.state \in SendOpen /\ PersistTick(c, elapsed, now).tcb = d
      \/ PersistTick(c, elapsed, now).tcb = e
  BY DEF PersistTick, Result
<1> HIDE DEF d, e, probe
<1>3. Queued(e)
  BY <1>1, SameQueued
<1>4. c.state \in SendOpen => Queued(d)
  BY <1>1, SentOneQueued
<1> QED BY <1>2, <1>3, <1>4

\* The keepalive timer queues nothing.
LEMMA KeepaliveTickQueued ==
    ASSUME NEW c, ConnOK(c), Queued(c), NEW due, NEW now
    PROVE  Queued(KeepaliveTick(c, due, now).tcb)
<1> DEFINE d == [c EXCEPT !.state = "Closed"]
           e == [c EXCEPT !.keepalive_probes_sent = @ + 1]
<1>1. KeepaliveTick(c, due, now).tcb \in {c, d, e}
  BY DEF KeepaliveTick, Result
<1>2. /\ d.state = "Closed" /\ d.retx = c.retx
      /\ e.una = c.una /\ e.nxt = c.nxt /\ e.retx = c.retx /\ e.state = c.state
  BY DEF ConnOK, Connection
<1> HIDE DEF d, e
<1>3. Queued(d) /\ Queued(e)
  BY <1>2, FinishedQueued, SameQueued DEF Finished
<1> QED BY <1>1, <1>3

\* All the timers of a tick.
LEMMA OnTickQueued ==
    ASSUME NEW c, ConnOK(c), Queued(c), flight_size(c) + 1 < Half,
           NEW t, t.resend \in SUBSET c.retx, t.rto \in BOOLEAN, NEW now \in SeqNum
    PROVE  Queued(on_tick(c, t, now).tcb)
<1> DEFINE z  == [c EXCEPT !.state = "Closed"]
           c0 == Expire(c, t.expired)
           c1 == Retransmit(c0, t.resend, t.rto)
           p  == PersistTick(c1, t.persist, now)
           k  == KeepaliveTick(p.tcb, t.keepalive, now)
<1>8. on_tick(c, t, now).tcb = k.tcb
  BY DEF on_tick, Result
<1>1. ConnOK(c0) /\ c0.retx = c.retx /\ c0.una = c.una /\ c0.nxt = c.nxt
         /\ c0.state \in {c.state, "Closed"}
  <2>1. c0 \in {c, z}
    BY DEF Expire
  <2>2. z.una = c.una /\ z.nxt = c.nxt /\ z.state = "Closed"
    BY DEF ConnOK, Connection
  <2> QED BY <2>1, <2>2, ExpireQuiet
<1> HIDE DEF c0
<1>2. Queued(c0)
  BY <1>1, SameQueued DEF Finished
<1>3. /\ c1.una = c.una /\ c1.nxt = c.nxt /\ c1.state = c0.state
      /\ c1.retx = Resend(c0.retx, t.resend)
  BY <1>1 DEF Retransmit, ConnOK, Connection
<1>4. ConnOK(c1)
  BY <1>1, RetransmitType
<1> HIDE DEF c1
<1>5. Queued(c1) /\ flight_size(c1) + 1 < Half
  BY <1>1, <1>2, <1>3, ResendQueued DEF flight_size
<1>6. ConnOK(p.tcb) /\ Queued(p.tcb)
  BY <1>4, <1>5, PersistTickType, PersistTickQueued
<1> HIDE DEF p
<1>7. Queued(k.tcb)
  BY <1>6, KeepaliveTickQueued
<1> QED BY <1>7, <1>8

\* Nothing is in flight: every queue without entries will do.
LEMMA EmptyQueued ==
    ASSUME NEW d, d.retx = {}, d.una \in SeqNum, d.nxt = d.una
    PROVE  Queued(d)
<1>1. flight_size(d) = 0
  <2> DEFINE u == d.una
  <2>1. u \in SeqNum /\ flight_size(d) = wrapping_sub(u, u)
    BY DEF flight_size
  <2> HIDE DEF u
  <2>2. wrapping_sub(u, u) = (IF u <= u THEN u - u ELSE (u - u) + SeqMod) /\ u \in Int
    BY <2>1, SubIs, SeqNumInt
  <2> QED BY <2>1, <2>2
<1>2. \A y \in SeqNum : ~(wrapping_sub(y, d.una) < 0)
  <2> TAKE y \in SeqNum
  <2>1. wrapping_sub(y, d.una) \in SeqNum
    BY SubIs
  <2> QED BY <2>1, CircleIs
<1> QED BY <1>1, <1>2 DEF Queued, Disjoint, Short, Covered, EndsInFlight

\* The SYN or SYN-ACK of a new connection.
LEMMA OpeningQueued ==
    ASSUME NEW iss \in SeqNum, 1 < Half, NEW pkt,
           NEW d, d.una = iss, d.nxt = wrapping_add(iss, 1),
           d.retx = {[start |-> iss, end |-> wrapping_add(iss, 1), pkt |-> pkt,
                      retried |-> FALSE, sacked |-> FALSE]}
    PROVE  Queued(d)
<1> DEFINE u == [start |-> iss, end |-> wrapping_add(iss, 1), pkt |-> pkt,
                 retried |-> FALSE, sacked |-> FALSE]
<1>1. d.retx = {u} /\ u.start = iss /\ u.end = wrapping_add(iss, 1)
  OBVIOUS
<1> HIDE DEF u
<1>2. 1 \in SeqNum
  BY CircleIs
<1>3. wrapping_sub(wrapping_add(iss, 1), iss) = 1 /\ flight_size(d) = 1
  BY <1>2, RoundTrip DEF flight_size
<1>4. Disjoint({u})
  BY DEF Disjoint
<1>5. Short({u}) /\ EndsInFlight({u}, iss, 1)
  BY <1>1, <1>3, HalfAssumption DEF Short, EndsInFlight
<1>6. Covered(d)
  BY <1>1, <1>3 DEF Covered, Occupies
<1> QED BY <1>1, <1>3, <1>4, <1>5, <1>6 DEF Queued

=============================================================================
