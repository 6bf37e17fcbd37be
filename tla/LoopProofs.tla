----------------------------- MODULE LoopProofs -----------------------------
(***************************************************************************)
(* The event loop of src/main.rs, for any number of clients, any scripts   *)
(* and windows, any backlog and any cookie table: the table of connections *)
(* stays bounded and every cookie connection is genuine.                   *)
(*                                                                         *)
(* The bytes that the loop writes are what the reassembler and the         *)
(* responder produce, of which no more is known here than that they are    *)
(* sequences; so the connections are shown to keep their shape (Kept in    *)
(* ConnectionProofs), not the type ConnOK.                                 *)
(***************************************************************************)
EXTENDS EventLoop, ConnectionProofs, Arithmetic

-----------------------------------------------------------------------------
(* Sequences of whatever it may be *)

LEMMA SubSeqIsSeq == ASSUME NEW s, NEW m \in Int, NEW n \in Int PROVE IsSeq(SubSeq(s, m, n))
<1> DEFINE S == {s[i] : i \in m .. n}
<1>1. \A i \in m .. n : s[i] \in S
  OBVIOUS
<1> HIDE DEF S
<1> QED BY <1>1, SubSeqProperties DEF IsSeq

LEMMA ConcatIsSeq == ASSUME NEW s, NEW t, IsSeq(s), IsSeq(t) PROVE IsSeq(s \o t)
<1>1. PICK S : s \in Seq(S)
  BY DEF IsSeq
<1>2. PICK R : t \in Seq(R)
  BY DEF IsSeq
<1>3. ASSUME NEW U, NEW V, NEW u \in Seq(U), U \subseteq V PROVE u \in Seq(V)
  <2>1. Len(u) \in Nat /\ u \in [1 .. Len(u) -> U]
    BY LenProperties
  <2>2. u \in [1 .. Len(u) -> V]
    BY <1>3, <2>1
  <2> QED BY <2>1, <2>2, SeqDef
<1>4. S \subseteq S \cup R /\ R \subseteq S \cup R
  OBVIOUS
<1>5. s \in Seq(S \cup R) /\ t \in Seq(S \cup R)
  BY <1>1, <1>2, <1>3, <1>4
<1> QED BY <1>5, ConcatProperties DEF IsSeq

LEMMA LenIsNat == ASSUME NEW s, IsSeq(s) PROVE Len(s) \in Nat
BY LenProperties DEF IsSeq

-----------------------------------------------------------------------------
(* Writing, transmission, closing and timers *)

\* A connection of the loop, between two of its calls.
Live(c) ==
    Kept(c) /\ c.in_recovery = FALSE /\ IsSeq(c.send_buf) /\ c.state # "SynSent"

\* d is c later, with our half as it was.
Same(c, d) == d.iss = c.iss /\ d.reasm.base = c.reasm.base /\ d.state = c.state

LEMMA WriteKeeps ==
    ASSUME NEW c, Live(c), NEW data, IsSeq(data)
    PROVE  Live(write(c, data)) /\ Same(c, write(c, data))
<1> DEFINE buf == c.send_buf \o data
<1>1. IsSeq(buf)
  BY ConcatIsSeq DEF Live
<1>2. write(c, data) = [c EXCEPT !.send_buf = buf]
  BY DEF write
<1> HIDE DEF buf
<1> QED BY <1>1, <1>2 DEF Live, Kept, Same, Field

LEMMA FlightIsNat == ASSUME NEW c, Kept(c) PROVE flight_size(c) \in Nat /\ flight_size(c) \in SeqNum
<1>1. flight_size(c) \in SeqNum
  BY SubType, SeqNumInt DEF flight_size, Kept
<1> QED BY <1>1, SeqModType DEF SeqNum

\* The loop never is in recovery, so only the window and Nagle decide what is sent.
LEMMA PollTransmitKeeps ==
    ASSUME NEW c, Live(c), NEW cwnd \in Nat, NEW now
    PROVE  LET d == poll_transmit(c, cwnd, now).tcb IN Live(d) /\ Same(c, d)
<1> DEFINE n == Sendable(c, cwnd)
           d == SendBytes(c, n, now).tcb
           w == usable_window(c, cwnd)
           avail == AtMost(w, Len(c.send_buf))
           tail  == avail % Mss
<1>1. n \in Int
  <2>1. flight_size(c) \in Nat /\ Len(c.send_buf) \in Nat /\ c.wnd \in Nat
    BY FlightIsNat, LenIsNat DEF Live, Kept
  <2>2. w \in Nat
    BY <2>1 DEF usable_window, AtMost
  <2>3. avail \in Nat
    <3> HIDE DEF w
    <3> QED BY <2>1, <2>2 DEF AtMost
  <2>4. tail \in Int
    <3> HIDE DEF avail
    <3> QED BY <2>3, ConnectionAssumption
  <2>5. n \in {avail, avail - tail}
    BY DEF Sendable
  <2> HIDE DEF avail, tail, n
  <2> QED BY <2>3, <2>4, <2>5
<1>2. wrapping_add(c.nxt, n) \in SeqNum
  <2> HIDE DEF n
  <2> QED BY <1>1, AddType DEF Live, Kept
<1>3. IsSeq(SubSeq(c.send_buf, n + 1, Len(c.send_buf)))
  <2>1. Len(c.send_buf) \in Int /\ n + 1 \in Int
    <3> HIDE DEF n
    <3> QED BY <1>1, LenIsNat DEF Live
  <2> HIDE DEF n
  <2> QED BY <2>1, SubSeqIsSeq
<1>4. Live(d) /\ Same(c, d)
  <2> HIDE DEF n
  <2> QED BY <1>2, <1>3 DEF SendBytes, Result, Live, Kept, Same, Field
<1>5. poll_transmit(c, cwnd, now).tcb \in {c, d}
  BY DEF poll_transmit, Result, Live
<1> HIDE DEF d
<1> QED BY <1>4, <1>5 DEF Same

\* close sends what it sends with an empty hand: it looks at the state alone.
LEMMA CloseKeeps ==
    ASSUME NEW c, Live(c), NEW now
    PROVE  LET d == close(c, now).tcb
           IN  /\ Live(d) /\ d.iss = c.iss /\ d.reasm.base = c.reasm.base
               /\ d.send_buf = c.send_buf
               /\ IF c.state \in SendOpen THEN d.state \in {"FinWait1", "LastAck"} ELSE d = c
<1> DEFINE fin == segment(c, c.nxt, c.rcv_nxt, {"FIN", "ACK"}, << >>, now)
           next == IF c.state = "Established" THEN "FinWait1" ELSE "LastAck"
           d   == [Sent(c, c.nxt, 1, fin) EXCEPT !.state = next]
<1>1. CASE c.state \notin SendOpen
  BY <1>1 DEF close, Result
<1>2. CASE c.state \in SendOpen
  <2>1. wrapping_add(c.nxt, 1) \in SeqNum
    BY AddType DEF Live, Kept
  <2>2. close(c, now).tcb = d
    BY <1>2 DEF close, Result
  <2>3. /\ Live(d) /\ d.iss = c.iss /\ d.reasm.base = c.reasm.base
        /\ d.send_buf = c.send_buf /\ d.state \in {"FinWait1", "LastAck"}
    <3> HIDE DEF fin
    <3> QED BY <2>1 DEF Sent, Live, Kept, Field, State
  <2> HIDE DEF d
  <2> QED BY <1>2, <2>2, <2>3
<1> QED BY <1>1, <1>2

\* The timers keep a connection or close it.
LEMMA OnTickKeeps ==
    ASSUME NEW c, Live(c), NEW t, t.keepalive = FALSE, NEW now
    PROVE  LET d == on_tick(c, t, now).tcb
           IN  /\ Live(d) /\ d.iss = c.iss /\ d.reasm.base = c.reasm.base
               /\ d.state \in {c.state, "Closed"}
<1> DEFINE Ok(e, d) == /\ Live(d) /\ d.iss = e.iss /\ d.reasm.base = e.reasm.base
                       /\ d.state \in {e.state, "Closed"}
           c0 == Expire(c, t.expired)
           c1 == Retransmit(c0, t.resend, t.rto)
           p  == PersistTick(c1, t.persist, now).tcb
<1>1. Ok(c, c0)
  BY DEF Expire, Live, Kept, Field, State
<1> HIDE DEF c0
<1>2. Ok(c0, c1)
  BY <1>1 DEF Retransmit, Live, Kept, Field
<1> HIDE DEF c1
<1>3. Ok(c1, p)
  <2> DEFINE shut  == /\ c1.state \in SendOpen /\ c1.wnd = 0 /\ c1.send_buf # << >>
                      /\ flight_size(c1) = 0
             probe == segment(c1, c1.nxt, c1.rcv_nxt, {"ACK"}, SubSeq(c1.send_buf, 1, 1), now)
             d     == [Sent(c1, c1.nxt, 1, probe) EXCEPT !.send_buf = Tail(@), !.persist = FALSE]
             e     == [c1 EXCEPT !.persist = shut]
  <2>1. Ok(c1, e)
    <3> HIDE DEF shut
    <3> QED BY <1>2 DEF Live, Kept, Field
  <2>2. ASSUME shut PROVE Ok(c1, d)
    <3>1. wrapping_add(c1.nxt, 1) \in SeqNum
      BY <1>2, AddType DEF Live, Kept
    <3>2. IsSeq(Tail(c1.send_buf))
      <4>1. PICK S : c1.send_buf \in Seq(S)
        BY <1>2 DEF Live, IsSeq
      <4>2. Tail(c1.send_buf) \in Seq(S)
        BY <2>2, <4>1, HeadTailProperties
      <4> QED BY <4>2 DEF IsSeq
    <3> HIDE DEF probe
    <3> QED BY <1>2, <3>1, <3>2 DEF Sent, Live, Kept, Field
  <2>3. p = e \/ (shut /\ p = d)
    BY DEF PersistTick, Result
  <2> HIDE DEF d, e
  <2> QED BY <2>1, <2>2, <2>3
<1>4. on_tick(c, t, now).tcb = p
  BY DEF on_tick, KeepaliveTick, Result, c1, c0
<1> HIDE DEF p
<1> QED BY <1>1, <1>2, <1>3, <1>4

-----------------------------------------------------------------------------
(* The application *)

\* The head of a request ends inside the buffer.
LEMMA HeadLength == ASSUME NEW buf, IsSeq(buf) PROVE request_head_len(buf) \in 0 .. Len(buf)
<1> DEFINE found == {i \in 1 .. Len(buf) : buf[i] \in {END}}
<1>1. Len(buf) \in Nat
  BY LenIsNat
<1>2. request_head_len(buf) =
         IF found = {} THEN 0 ELSE CHOOSE i \in found : \A j \in found : i <= j
  BY DEF request_head_len, FirstOf
<1>3. found \in SUBSET Nat /\ found \subseteq 1 .. Len(buf)
  BY <1>1
<1> HIDE DEF found
<1>4. found # {} => \E i \in found : \A j \in found : i <= j
  BY <1>3, LeastNumber
<1>5. CASE found = {}
  BY <1>1, <1>2, <1>5
<1>6. CASE found # {}
  <2> DEFINE h == CHOOSE i \in found : \A j \in found : i <= j
  <2>1. h \in found
    BY <1>4, <1>6
  <2> HIDE DEF h
  <2>2. request_head_len(buf) = h
    BY <1>2, <1>6 DEF h
  <2>3. h \in 1 .. Len(buf)
    BY <1>3, <2>1
  <2> QED BY <1>1, <2>2, <2>3
<1> QED BY <1>5, <1>6

\* What the loop over complete requests writes and leaves behind are sequences.
LEMMA ServeKeeps ==
    ASSUME NEW buf, IsSeq(buf)
    PROVE  IsSeq(Serve(buf).reply) /\ IsSeq(Serve(buf).rest)
<1> DEFINE N == Len(buf)
           b0 == [rest |-> buf, reply |-> << >>, closing |-> FALSE]
           Req(b) == parse_request(SubSeq(b.rest, 1, request_head_len(b.rest)))
           Turn(b) == IF b.closing \/ request_head_len(b.rest) = 0 THEN b
                      ELSE [rest |-> SubSeq(b.rest, request_head_len(b.rest) + 1, Len(b.rest)),
                            reply |-> b.reply \o (IF Req(b).ok THEN response(Req(b)) ELSE << >>),
                            closing |-> ~Req(b).keep_alive]
           Ok(b) == IsSeq(b.reply) /\ IsSeq(b.rest)
           Is(f, m) == f = [n \in 0 .. m |-> IF n = 0 THEN b0 ELSE Turn(f[n - 1])]
<1>1. Serve(buf) = (CHOOSE f : Is(f, N))[N]
  BY DEF Serve
<1>2. \A b : Ok(b) => Ok(Turn(b))
  <2> SUFFICES ASSUME NEW b, Ok(b) PROVE Ok(Turn(b))
    OBVIOUS
  <2> DEFINE more == IF Req(b).ok THEN response(Req(b)) ELSE << >>
  <2>1. IsSeq(more)
    <3>1. ASSUME NEW req PROVE IsSeq(response(req))
      <4>1. /\ << IF req.keep_alive THEN OK_KEEP ELSE OK_CLOSE >> \in Seq(Int)
            /\ (IF req.body THEN << BODY >> ELSE << >>) \in Seq(Int)
        BY DEF OK_KEEP, OK_CLOSE, BODY
      <4> QED BY <4>1, ConcatProperties DEF response, IsSeq
    <3> HIDE DEF Req
    <3> QED BY <3>1, EmptyIsSeq
  <2>2. IsSeq(b.reply \o more)
    <3> HIDE DEF more
    <3> QED BY <2>1, ConcatIsSeq
  <2> DEFINE left == SubSeq(b.rest, request_head_len(b.rest) + 1, Len(b.rest))
  <2>3. IsSeq(left)
    <3>1. request_head_len(b.rest) + 1 \in Int /\ Len(b.rest) \in Int
      BY HeadLength, LenIsNat
    <3> QED BY <3>1, SubSeqIsSeq
  <2>4. Turn(b).reply \in {b.reply, b.reply \o more} /\ Turn(b).rest \in {b.rest, left}
    <3> HIDE DEF Req
    <3> QED OBVIOUS
  <2> HIDE DEF Turn, more, left
  <2> QED BY <2>2, <2>3, <2>4
<1>3. N \in Nat
  BY LenIsNat
<1>4. b0.reply = << >> /\ b0.rest = buf
  OBVIOUS
<1> HIDE DEF Turn, N, b0
<1>5. \E f : Is(f, N)
  <2> DEFINE S == {m \in 0 .. N : \E f : Is(f, m)}
  <2>1. 0 \in S
    <3> DEFINE g == [n \in 0 .. 0 |-> b0]
    <3>1. Is(g, 0)
      OBVIOUS
    <3> HIDE DEF g
    <3> QED BY <1>3, <3>1
  <2>2. ASSUME NEW m \in 0 .. N - 1, m \in S PROVE m + 1 \in S
    <3>1. PICK f : Is(f, m)
      BY <2>2
    <3> DEFINE g == [n \in 0 .. m + 1 |-> IF n <= m THEN f[n] ELSE Turn(f[m])]
    <3>2. \A n \in 0 .. m : g[n] = f[n]
      OBVIOUS
    <3>3. \A n \in 0 .. m : f[n] = IF n = 0 THEN b0 ELSE Turn(f[n - 1])
      BY <3>1
    <3>4. g[m + 1] = Turn(g[m])
      BY <1>3
    <3>5. \A n \in 0 .. m + 1 : g[n] = IF n = 0 THEN b0 ELSE Turn(g[n - 1])
      <4> SUFFICES ASSUME NEW n \in 0 .. m + 1
                   PROVE  g[n] = IF n = 0 THEN b0 ELSE Turn(g[n - 1])
        OBVIOUS
      <4> HIDE DEF g
      <4>1. CASE n = m + 1
        BY <1>3, <3>4, <4>1
      <4>2. CASE n \in 0 .. m /\ n # 0
        <5>1. n - 1 \in 0 .. m
          BY <4>2
        <5> QED BY <3>2, <3>3, <4>2, <5>1
      <4>3. CASE n = 0
        BY <3>2, <3>3, <4>3
      <4> QED BY <1>3, <4>1, <4>2, <4>3
    <3>6. g = [n \in 0 .. m + 1 |-> g[n]]
      OBVIOUS
    <3> HIDE DEF g
    <3>7. Is(g, m + 1)
      BY <3>5, <3>6
    <3> QED BY <1>3, <3>7
  <2>3. 0 .. N \subseteq S
    <3> HIDE DEF S
    <3> QED BY <1>3, <2>1, <2>2, SetInduction
  <2> QED BY <1>3, <2>3
<1> DEFINE F == CHOOSE f : Is(f, N)
<1>6. Is(F, N)
  BY <1>5
<1> HIDE DEF F
<1>7. \A n \in 0 .. N : F[n] = IF n = 0 THEN b0 ELSE Turn(F[n - 1])
  BY <1>6
<1>8. \A n \in 0 .. N : Ok(F[n])
  <2> DEFINE S == {n \in 0 .. N : Ok(F[n])}
  <2>1. 0 \in S
    BY <1>3, <1>4, <1>7, EmptyIsSeq
  <2>2. ASSUME NEW m \in 0 .. N - 1, m \in S PROVE m + 1 \in S
    <3>1. m + 1 \in 0 .. N /\ m + 1 # 0 /\ (m + 1) - 1 = m
      BY <1>3
    <3>2. F[m + 1] = Turn(F[m])
      BY <1>7, <3>1
    <3> QED BY <1>2, <2>2, <3>1, <3>2
  <2>3. 0 .. N \subseteq S
    <3> HIDE DEF S
    <3> QED BY <1>3, <2>1, <2>2, SetInduction
  <2> QED BY <2>3
<1> QED BY <1>1, <1>3, <1>8 DEF F

\* Whatever the application writes is a sequence.
LEMMA ApplicationKeeps ==
    ASSUME NEW q, NEW received, IsSeq(received),
           q \in DOMAIN http_bufs => IsSeq(http_bufs[q])
    PROVE  LET app == Application(q, received)
           IN  IsSeq(app.reply) /\ IsSeq(app.rest)
<1> DEFINE served == Serve(Buffered(q, received))
           a == [http |-> TRUE, reply |-> served.reply, rest |-> served.rest,
                 closing |-> served.closing]
           b == [http |-> FALSE, reply |-> received, rest |-> << >>, closing |-> FALSE]
<1>1. IsSeq(Buffered(q, received))
  BY EmptyIsSeq, ConcatIsSeq DEF Buffered
<1>2. IsSeq(served.reply) /\ IsSeq(served.rest)
  BY <1>1, ServeKeeps
<1>3. Application(q, received) \in {a, b}
  BY DEF Application
<1>4. IsSeq(a.reply) /\ IsSeq(a.rest)
  <2> HIDE DEF served
  <2> QED BY <1>2
<1>5. IsSeq(b.reply) /\ IsSeq(b.rest)
  BY EmptyIsSeq
<1> HIDE DEF a, b
<1> QED BY <1>3, <1>4, <1>5

-----------------------------------------------------------------------------
(* The table *)

Gate == {"none", "ready", "hold"}

\* What is known of a cookie that was sent.
Issued(i) ==
    /\ i.quad \in Quads /\ i.isn = PeerIsn /\ i.mss \in Nat /\ i.tick \in 0 .. tick
    /\ i.synack.seq = syn_cookie(i.quad, i.isn, i.mss, i.tick)
    /\ i.synack.ack = wrapping_add(i.isn, 1)

(***************************************************************************)
(* Every row of the table is a live connection: of the right shape, not in *)
(* recovery, with a sequence to send; and every cookie ever sent was       *)
(* computed from a SYN.                                                    *)
(***************************************************************************)
RowsInv ==
    /\ scenario \in DOMAIN Scenarios
    /\ DOMAIN conns \subseteq Quads /\ IsFiniteSet(DOMAIN conns)
    /\ \A q \in DOMAIN conns : Live(conns[q])
    /\ \A q \in DOMAIN http_bufs : IsSeq(http_bufs[q])
    /\ pace \in [Quads -> Gate]
    /\ DOMAIN httpFrom = Quads /\ DOMAIN origin = Quads
    /\ tick \in 0 .. MaxTick
    /\ \A i \in issued : Issued(i)

\* What a client sends on its connection are segments.
LEMMA FromClientType ==
    ASSUME RowsInv, NEW q \in DOMAIN conns, q \in DOMAIN Now.script
    PROVE  FromClient(q) \subseteq Segment
<1> DEFINE c == conns[q]
           L == Len(Script(q))
           next == AtMost(Taken(c), L)
           start == {0, next, AtMost(next + 1, L)}
<1>1. Script(q) \in Seq(Byte) /\ Now.windows \subseteq Nat
  BY LoopAssumption DEF RowsInv, Now, Script, Byte
<1>2. /\ c.rcv_nxt \in SeqNum /\ c.nxt \in SeqNum /\ c.una \in SeqNum /\ c.wnd \in Nat
      /\ c.reasm.base \in SeqNum
  BY DEF RowsInv, Live, Kept, ReasmOK, Reasm
<1>3. L \in Nat
  BY <1>1, LenProperties
<1>4. start \subseteq Nat
  <2>1. Taken(c) \in SeqNum
    BY <1>2, SubType, SeqNumInt DEF Taken
  <2>2. Taken(c) \in Nat
    BY <2>1, SeqModType DEF SeqNum
  <2> HIDE DEF c, L
  <2> QED BY <1>3, <2>2 DEF AtMost
<1>5. ASSUME NEW p \in Slices(q)
      PROVE  /\ wrapping_add(PeerIsn, 1 + p[1]) \in SeqNum
             /\ SubSeq(Script(q), p[1] + 1, p[2]) \in Seq(Byte)
  <2>1. p \in start \X (0 .. L)
    BY <1>5 DEF Slices
  <2>2. p[1] \in Nat /\ p[2] \in Nat /\ p[2] <= L
    <3> HIDE DEF start, L
    <3>1. p[1] \in start /\ p[2] \in 0 .. L
      BY <2>1
    <3>2. p[1] \in Nat
      BY <1>4, <3>1, Zenon
    <3>3. ASSUME NEW x \in 0 .. L PROVE x \in Nat /\ x <= L
      BY <1>3
    <3> QED BY <3>1, <3>2, <3>3, Zenon
  <2>3. PeerIsn \in SeqNum
    BY LoopAssumption
  <2> HIDE DEF start
  <2> QED BY <1>1, <2>2, <2>3, AddType, SubSeqType
<1>6. ASSUME NEW seq \in SeqNum, NEW ackno \in SeqNum, NEW flags \in SUBSET Flag,
             NEW window \in Nat, NEW data \in Seq(Byte)
      PROVE  Seg(seq, ackno, flags, window, data) \in Segment
  BY SeqNumInt DEF Seg, Segment
<1>7. << >> \in Seq(Byte) /\ 0 \in SeqNum /\ {{"ACK"}, {"FIN", "ACK"}, {"RST"}} \subseteq SUBSET Flag
  BY EmptySeq, SeqNumInt DEF Flag
<1>8. ASSUME NEW s \in FromClient(q) PROVE s \in Segment
  <2> HIDE DEF start
  <2>1. \/ s = Ack(q)
        \/ \E p \in Slices(q), a \in {c.una, c.nxt}, w \in Now.windows :
              s = Seg(wrapping_add(PeerIsn, 1 + p[1]), a, {"ACK"}, w,
                      SubSeq(Script(q), p[1] + 1, p[2]))
        \/ \E p \in Slices(q), w \in Now.windows :
              s = Seg(wrapping_add(PeerIsn, 1 + p[1]), c.nxt, {"FIN", "ACK"}, w,
                      SubSeq(Script(q), p[1] + 1, p[2]))
        \/ s \in Resets(c)
    BY <1>8 DEF FromClient
  <2>2. Ack(q) = Seg(c.rcv_nxt, c.nxt, {"ACK"}, c.wnd, << >>)
    BY DEF Ack
  <2> HIDE DEF c
  <2>3. CASE s = Ack(q)
    BY <1>2, <1>6, <1>7, <2>2, <2>3
  <2>4. ASSUME NEW p \in Slices(q), NEW a \in SeqNum, NEW w \in Nat,
               NEW f \in {{"ACK"}, {"FIN", "ACK"}}
        PROVE  Seg(wrapping_add(PeerIsn, 1 + p[1]), a, f, w,
                   SubSeq(Script(q), p[1] + 1, p[2])) \in Segment
    BY <1>5, <1>6, <1>7
  <2>5. CASE s \in Resets(c)
    <3>1. PICK a \in {c.rcv_nxt, wrapping_sub(c.rcv_nxt, 1)} :
             s = build_rst(Seg(c.nxt, a, {"ACK"}, 0, << >>))
      BY <2>5 DEF Resets
    <3>2. s = Seg(a, 0, {"RST"}, 0, << >>)
      BY <3>1 DEF build_rst, Seg
    <3>3. a \in SeqNum
      BY <1>2, <3>1, SubType
    <3> QED BY <1>6, <1>7, <3>2, <3>3
  <2> QED BY <1>1, <1>2, <2>1, <2>3, <2>4, <2>5
<1> QED BY <1>8

\* The pacing gate leaves a live connection.
LEMMA PacedKeeps ==
    ASSUME NEW c, Live(c), NEW p \in Gate
    PROVE  Live(Paced(c, p)) /\ Same(c, Paced(c, p))
<1> DEFINE w == AtMost(flight_size(c) + Mss, Cwnd)
<1>1. Cwnd \in Nat /\ w \in Nat
  BY LoopAssumption, ConnectionAssumption, FlightIsNat DEF Live, AtMost
<1>2. Paced(c, p) \in {poll_transmit(c, Cwnd, 0).tcb, poll_transmit(c, w, 0).tcb, c}
  BY DEF Paced, Gate
<1> HIDE DEF w
<1> QED BY <1>1, <1>2, PollTransmitKeeps DEF Same

\* What Handle makes of the connection c of a 4-tuple.
Handled(c, d) ==
    /\ Live(d) /\ d.iss = c.iss /\ d.reasm.base = c.reasm.base
    /\ d.state = "SynRcvd" => c.state = "SynRcvd"

\* CloseIf keeps a live connection.
LEMMA CloseIfKeeps ==
    ASSUME NEW c, Live(c), NEW cond
    PROVE  LET d == CloseIf(c, cond)
           IN  /\ Live(d) /\ d.iss = c.iss /\ d.reasm.base = c.reasm.base
               /\ d = c \/ d.state \in {"FinWait1", "LastAck"}
<1>1. CloseIf(c, cond) = IF cond THEN close(c, 0).tcb ELSE c
  BY DEF CloseIf
<1>2. CASE cond
  BY <1>1, <1>2, CloseKeeps
<1>3. CASE ~cond
  BY <1>1, <1>3
<1> QED BY <1>2, <1>3

LEMMA HandleKeeps ==
    ASSUME RowsInv, NEW q \in DOMAIN conns, NEW s \in Segment, Handle(q, s)
    PROVE  \E d :
              /\ Handled(conns[q], d)
              /\ conns' = IF d.state = "Closed" THEN Without(conns, {q})
                          ELSE [conns EXCEPT ![q] = d]
              /\ DOMAIN http_bufs' \subseteq
                    IF d.state = "Closed" THEN DOMAIN http_bufs \ {q} ELSE DOMAIN http_bufs \cup {q}
              /\ \A x \in DOMAIN http_bufs' : IsSeq(http_bufs'[x])
              /\ pace' \in [Quads -> Gate] /\ DOMAIN httpFrom' = Quads
              /\ UNCHANGED << tick, scenario, issued, origin >>
<1> DEFINE r   == UnderBbr(on_segment(conns[q], s, FALSE, 0))
           app == Application(q, r.data)
           c1  == write(r.tcb, app.reply)
           C2(p) == Paced(c1, p)
           C3(p) == CloseIf(C2(p), app.closing)
           C4(p) == AnswerFin(C3(p))
<1>1. PICK p \in Learned(conns[q], s, pace[q]) :
         Store(q, r, app, p, C2(p).nxt # c1.nxt, C4(p))
  BY ZenonT(40) DEF Handle
<1>2. q \in Quads /\ Live(conns[q]) /\ pace[q] \in Gate /\ DOMAIN pace = Quads
  BY DEF RowsInv
<1>3. p \in Gate
  BY <1>1, <1>2 DEF Learned, Gate
<1> DEFINE c2 == C2(p)
           c3 == C3(p)
           c4 == C4(p)
<1>4. Live(r.tcb) /\ Follows(conns[q], r.tcb) /\ IsSeq(r.data)
  <2> DEFINE r0 == on_segment(conns[q], s, FALSE, 0)
  <2>1. Answers(conns[q], r0)
    BY <1>2, OnSegmentKeeps DEF Live
  <2>2. r.tcb = [r0.tcb EXCEPT !.in_recovery = FALSE] /\ r.data = r0.data
    <3>1. r = UnderBbr(r0)
      OBVIOUS
    <3> HIDE DEF r0, r
    <3> QED BY <2>1, <3>1 DEF UnderBbr, Answers
  <2> HIDE DEF r0, r
  <2> QED BY <1>2, <2>1, <2>2 DEF Answers, Follows, Kept, Live, Field, Steps
<1>5. IsSeq(app.reply) /\ IsSeq(app.rest)
  <2> HIDE DEF r
  <2> QED BY <1>4, ApplicationKeeps DEF RowsInv
<1> HIDE DEF r, app
<1>6. Live(c1) /\ Same(r.tcb, c1)
  BY <1>4, <1>5, WriteKeeps
<1> HIDE DEF c1
<1>7. Live(c2) /\ Same(c1, c2)
  BY <1>3, <1>6, PacedKeeps
<1>8. Handled(conns[q], c4)
  <2>1. c3 = CloseIf(c2, app.closing)
        /\ c4 = CloseIf(c3, c3.state = "CloseWait" /\ c3.send_buf = << >>)
    BY DEF AnswerFin
  <2> HIDE DEF c2, c3, c4
  <2>2. /\ Live(c3) /\ c3.iss = c2.iss /\ c3.reasm.base = c2.reasm.base
        /\ c3 = c2 \/ c3.state \in {"FinWait1", "LastAck"}
    BY <1>7, <2>1, CloseIfKeeps
  <2>3. /\ Live(c4) /\ c4.iss = c3.iss /\ c4.reasm.base = c3.reasm.base
        /\ c4 = c3 \/ c4.state \in {"FinWait1", "LastAck"}
    BY <2>1, <2>2, CloseIfKeeps
  <2>4. Steps(conns[q].state, c2.state) /\ c2.iss = conns[q].iss
        /\ c2.reasm.base = conns[q].reasm.base
    BY <1>4, <1>6, <1>7 DEF Same, Follows
  <2> QED BY <2>2, <2>3, <2>4 DEF Handled, Steps
<1> HIDE DEF c2, c3, c4
<1>9.  /\ conns' = IF c4.state = "Closed" THEN Without(conns, {q}) ELSE [conns EXCEPT ![q] = c4]
       /\ UNCHANGED << tick, scenario, issued, origin >>
  BY <1>1 DEF Store, Remove, c4
<1>10. http_bufs' \in
          IF c4.state = "Closed" THEN {Without(http_bufs, {q})}
          ELSE {Without(http_bufs, {q}), With(http_bufs, q, app.rest), http_bufs}
  BY <1>1 DEF Store, Remove, c4
<1>11. /\ DOMAIN http_bufs' \subseteq
             IF c4.state = "Closed" THEN DOMAIN http_bufs \ {q} ELSE DOMAIN http_bufs \cup {q}
       /\ \A x \in DOMAIN http_bufs' : IsSeq(http_bufs'[x])
  <2>1. CASE http_bufs' = Without(http_bufs, {q})
    BY <2>1 DEF Without, RowsInv
  <2>2. CASE http_bufs' = With(http_bufs, q, app.rest) /\ c4.state # "Closed"
    BY <1>5, <2>2 DEF With, RowsInv
  <2>3. CASE http_bufs' = http_bufs /\ c4.state # "Closed"
    BY <2>3 DEF RowsInv
  <2> QED BY <1>10, <2>1, <2>2, <2>3
<1>12. pace' \in [Quads -> Gate]
  <2>1. PICK g \in {"hold", p} : pace' = [pace EXCEPT ![q] = g]
    BY <1>1 DEF Store
  <2> QED BY <1>3, <2>1 DEF RowsInv, Gate
<1>13. DOMAIN httpFrom' = Quads
  BY <1>1 DEF Store, RowsInv
<1> QED BY <1>8, <1>9, <1>11, <1>12, <1>13

\* A connection enters the table.
LEMMA InsertKeeps ==
    ASSUME RowsInv, NEW q \in Quads, NEW c, Live(c), NEW kind, Insert(q, c, kind), UNCHANGED issued
    PROVE  /\ DOMAIN conns' = DOMAIN conns \cup {q} /\ conns'[q] = c
           /\ \A x \in DOMAIN conns \ {q} : conns'[x] = conns[x] /\ origin'[x] = origin[x]
           /\ origin'[q] = [kind |-> kind, tick |-> tick]
           /\ UNCHANGED << http_bufs, tick, scenario >>
           /\ RowsInv'
<1>1. /\ conns' = With(conns, q, c)
      /\ pace' = [pace EXCEPT ![q] = "none"]
      /\ origin' = [origin EXCEPT ![q] = [kind |-> kind, tick |-> tick]]
      /\ httpFrom' = [httpFrom EXCEPT ![q] = NotHttp]
      /\ UNCHANGED << http_bufs, tick, scenario >>
  BY DEF Insert
<1>2. /\ DOMAIN conns' = DOMAIN conns \cup {q} /\ conns'[q] = c
      /\ \A x \in DOMAIN conns \ {q} : conns'[x] = conns[x]
  BY <1>1 DEF With
<1>3. IsFiniteSet(DOMAIN conns')
  BY <1>2, FS_AddElement DEF RowsInv
<1>4. /\ \A x \in DOMAIN conns \ {q} : origin'[x] = origin[x]
      /\ origin'[q] = [kind |-> kind, tick |-> tick]
      /\ DOMAIN origin' = Quads /\ DOMAIN httpFrom' = Quads
  BY <1>1 DEF RowsInv
<1>5. pace' \in [Quads -> Gate]
  BY <1>1 DEF RowsInv, Gate
<1>6. \A i \in issued' : Issued(i)'
  BY <1>1 DEF RowsInv, Issued
<1> QED BY <1>1, <1>2, <1>3, <1>4, <1>5, <1>6 DEF RowsInv

\* A connection that has just been opened is live, and neither closed nor half closed.
LEMMA ConnOKIsLive ==
    ASSUME NEW c, ConnOK(c), c.in_recovery = FALSE, c.state # "SynSent"
    PROVE  Live(c)
<1>1. IsSeq(c.send_buf)
  BY DEF ConnOK, Connection, IsSeq
<1>2. DOMAIN c = Field
  BY DEF ConnOK, Connection, Field
<1>3. ReasmOK(c.reasm)
  BY DEF ConnOK, Connection, ReasmOK
<1> QED BY <1>1, <1>2, <1>3 DEF ConnOK, Connection, Live, Kept

LEMMA AcceptLive ==
    ASSUME NEW s \in Segment
    PROVE  Live(accept(s, Iss, 0).tcb) /\ accept(s, Iss, 0).tcb.state = "SynRcvd"
<1> DEFINE c == accept(s, Iss, 0).tcb
<1>1. ConnOK(c)
  BY AcceptType, LoopAssumption, SeqNumInt
<1>2. c.in_recovery = FALSE /\ c.state = "SynRcvd"
  BY DEF accept, NewConnection, Sent, Result
<1> HIDE DEF c
<1>3. Live(c)
  BY <1>1, <1>2, ConnOKIsLive
<1> QED BY <1>2, <1>3 DEF c

LEMMA CookieLive ==
    ASSUME NEW isn \in SeqNum, NEW cookie \in SeqNum
    PROVE  LET c == from_syn_cookie(isn, cookie)
           IN  /\ Live(c) /\ c.state = "Established" /\ c.iss = cookie
               /\ c.reasm.base = wrapping_add(isn, 1)
<1> DEFINE c == from_syn_cookie(isn, cookie)
<1>1. ConnOK(c)
  BY CookieType
<1>2. /\ c.in_recovery = FALSE /\ c.state = "Established" /\ c.iss = cookie
      /\ c.reasm.base = wrapping_add(isn, 1)
  BY DEF from_syn_cookie, NewConnection, NewReassembler
<1> HIDE DEF c
<1>3. Live(c)
  BY <1>1, <1>2, ConnOKIsLive
<1> QED BY <1>2, <1>3 DEF c

-----------------------------------------------------------------------------
(* Cookies *)

\* A number of two digits, the second below n, is below the product of their ranges.
LEMMA TwoDigits ==
    ASSUME NEW m \in Nat \ {0}, NEW n \in Nat \ {0}, NEW a \in 0 .. m - 1, NEW b \in 0 .. n - 1
    PROVE  a * n + b \in 0 .. m * n - 1 /\ m * n \in Nat \ {0}
<1>1. a * n \in Nat /\ m * n \in Nat
  OBVIOUS
<1>2. (a + 1) * n <= m * n
  OBVIOUS
<1>3. (a + 1) * n = a * n + n
  OBVIOUS
<1> QED BY <1>1, <1>2, <1>3

\* The table of sizes: its index is the last size that fits, or the first.
LEMMA MssIndexFits ==
    ASSUME NEW mss \in Nat
    PROVE  /\ MssIndex(mss) \in Nat /\ MssIndex(mss) \in 0 .. Len(MssTable) - 1
           /\ MssIndex(mss) > 0 => MssTable[MssIndex(mss) + 1] <= mss
<1> DEFINE L == Len(MssTable)
           K == {i \in 2 .. L : MssTable[i] <= mss}
           Beyond == {j \in 2 .. L + 1 : j \notin K}
<1>1. /\ MssTable \in Seq(Nat) /\ L \in Nat \ {0}
      /\ \A i \in 1 .. L : MssTable[i] \in Nat
      /\ \A i, j \in 1 .. L : i < j => MssTable[i] < MssTable[j]
  <2>1. /\ MssTable \in Seq(Nat) /\ L > 0
        /\ \A i, j \in 1 .. L : i < j => MssTable[i] < MssTable[j]
    BY LoopAssumption DEF CookieAssumption
  <2>2. L \in Nat /\ MssTable \in [1 .. L -> Nat]
    BY <2>1, LenProperties
  <2> QED BY <2>1, <2>2
<1>2. MssIndex(mss) = Cardinality(K)
  BY DEF MssIndex
<1> HIDE DEF L
<1>3. Beyond \in SUBSET Nat /\ L + 1 \in Beyond
  BY <1>1
<1>4. PICK x \in Beyond : \A y \in Beyond : x <= y
  <2> HIDE DEF Beyond
  <2> QED BY <1>3, LeastNumber
<1>5. x \in 2 .. L + 1 /\ x \notin K
  OBVIOUS
<1>6. K = 2 .. x - 1
  <2>1. ASSUME NEW k \in K PROVE k \in 2 .. x - 1
    <3>1. k \in 2 .. L /\ MssTable[k] <= mss
      OBVIOUS
    <3>2. CASE x < k
      <4>1. x \in 1 .. L /\ k \in 1 .. L
        BY <1>1, <1>5, <3>1, <3>2
      <4>2. MssTable[x] < MssTable[k] /\ MssTable[x] \in Nat /\ MssTable[k] \in Nat
        BY <1>1, <3>2, <4>1
      <4>3. MssTable[x] <= mss
        BY <3>1, <4>2
      <4> QED BY <1>5, <1>1, <3>1, <3>2, <4>3
    <3> QED BY <1>1, <1>5, <3>1, <3>2
  <2>2. ASSUME NEW k \in 2 .. x - 1 PROVE k \in K
    <3>1. k \in 2 .. L + 1 /\ ~(x <= k)
      BY <1>1, <1>5
    <3>2. k \notin Beyond
      BY <1>4, <3>1
    <3> QED BY <3>1, <3>2
  <2> HIDE DEF K
  <2> QED BY <2>1, <2>2
<1> HIDE DEF K, Beyond
<1>7. Cardinality(K) = x - 2
  <2>1. x - 1 >= 2 => Cardinality(2 .. x - 1) = (x - 1) - 2 + 1
    BY <1>1, <1>5, FS_Interval
  <2>2. ~(x - 1 >= 2) => 2 .. x - 1 = {}
    BY <1>1, <1>5
  <2> QED BY <1>1, <1>5, <1>6, <2>1, <2>2, FS_EmptySet
<1>8. x - 2 > 0 => x - 1 \in K
  BY <1>1, <1>5, <1>6
<1>9. x - 2 > 0 => MssTable[x - 1] <= mss
  BY <1>8 DEF K
<1>10. x - 2 \in Nat /\ x - 2 \in 0 .. L - 1 /\ (x - 2) + 1 = x - 1
  BY <1>1, <1>5
<1> QED BY <1>2, <1>7, <1>9, <1>10 DEF L

\* What a cookie says is what was put in it.
LEMMA CookieDigits ==
    ASSUME NEW q \in Quads, NEW mss \in Nat, NEW at \in 0 .. MaxTick
    PROVE  LET cookie == syn_cookie(q, PeerIsn, mss, at)
           IN  /\ cookie \in SeqNum
               /\ Mac(cookie) = cookie_mix(q, PeerIsn, at)
               /\ EncodedMss(cookie) = MssTable[MssIndex(mss) + 1]
<1> DEFINE C == CounterRange
           L == Len(MssTable)
           R == MacRange
           a == at % C
           i == MssIndex(mss)
           m == cookie_mix(q, PeerIsn, at)
           cookie == syn_cookie(q, PeerIsn, mss, at)
<1>1. C \in Nat \ {0} /\ L \in Nat \ {0} /\ R \in Nat \ {0} /\ C * L * R <= SeqMod
  BY LoopAssumption, LenProperties DEF CookieAssumption
<1>2. m \in 0 .. R - 1
  <2>1. << q, PeerIsn, at >> \in Handshake(Quads, {PeerIsn, wrapping_sub(PeerIsn, 1)}, Counts)
    BY DEF Handshake, Counts
  <2> QED BY <2>1, LoopAssumption DEF CookieAssumption
<1>3. i \in 0 .. L - 1
  BY MssIndexFits
<1>4. cookie = (a * L + i) * R + m
  BY DEF syn_cookie
<1>5. /\ Mac(cookie) = cookie % R
      /\ EncodedMss(cookie) = MssTable[((cookie \div R) % L) + 1]
  BY DEF Mac, EncodedMss
<1>6. MaxTick \in Nat
  BY LoopAssumption
<1> HIDE DEF C, L, R, i, m, cookie
<1>7. a \in 0 .. C - 1
  BY <1>1, <1>6
<1> HIDE DEF a
<1> DEFINE k == a * L + i
<1>8. k \in 0 .. C * L - 1 /\ C * L \in Nat \ {0}
  BY <1>1, <1>3, <1>7, TwoDigits
<1>9. cookie \in 0 .. (C * L) * R - 1
  <2> DEFINE CL == C * L
  <2> HIDE DEF k, CL
  <2>1. k * R + m \in 0 .. CL * R - 1
    BY <1>1, <1>2, <1>8, TwoDigits DEF CL
  <2> QED BY <1>4, <2>1 DEF k, CL
<1>10. cookie \in SeqNum
  BY <1>1, <1>9, SeqModType DEF SeqNum
<1>11. cookie \div R = k /\ cookie % R = m
  <2>1. k \in Int
    BY <1>8
  <2> HIDE DEF k
  <2> QED BY <1>1, <1>2, <1>4, <2>1, Digits DEF k
<1>12. k % L = i
  BY <1>1, <1>3, <1>7, Digits
<1> HIDE DEF k
<1> QED BY <1>5, <1>10, <1>11, <1>12 DEF L, R, i, m, cookie

\* Back where it was.
LEMMA AddThenSub == ASSUME NEW x \in SeqNum PROVE wrapping_sub(wrapping_add(x, 1), 1) = x
<1> DEFINE m == SeqMod
<1>1. m \in Nat \ {0} /\ m > 1 /\ x \in 0 .. m - 1
  BY SeqModType DEF SeqNum
<1>2. wrapping_sub(wrapping_add(x, 1), 1) = (((x + 1) % m) - 1) % m
  BY DEF wrapping_sub, wrapping_add
<1> HIDE DEF m
<1>3. CASE x + 1 < m
  <2>1. x + 1 \in 0 .. m - 1 /\ (x + 1) - 1 = x
    BY <1>1, <1>3
  <2>2. (x + 1) % m = x + 1 /\ x % m = x
    BY <1>1, <2>1, NearMod
  <2> QED BY <1>2, <2>1, <2>2
<1>4. CASE x + 1 = m
  <2>1. m \in m .. 2 * m - 1 /\ 0 - 1 \in -m .. -1 /\ m - m = 0 /\ (0 - 1) + m = x
    BY <1>1, <1>4
  <2>2. m % m = m - m /\ (0 - 1) % m = (0 - 1) + m
    BY <1>1, <2>1, NearMod
  <2> QED BY <1>2, <1>4, <2>1, <2>2
<1> QED BY <1>1, <1>3, <1>4

\* A cookie that comes back and checks was sent to this client, not long ago.
LEMMA ReturnedIsIssued ==
    ASSUME RowsInv, NEW q \in Quads, NEW i \in issued,
           NEW seq \in {PeerIsn, wrapping_add(PeerIsn, 1)}, NEW cookie,
           cookie = wrapping_sub(wrapping_add(i.synack.seq, 1), 1),
           check_syn_cookie(q, wrapping_sub(seq, 1), cookie, tick)
    PROVE  /\ i.quad = q /\ i.synack.seq = cookie /\ cookie \in SeqNum
           /\ wrapping_sub(seq, 1) \in SeqNum
           /\ i.synack.ack = wrapping_add(wrapping_sub(seq, 1), 1)
           /\ tick - i.tick \in 0 .. 2
           /\ EncodedMss(cookie) <= i.mss \/ EncodedMss(cookie) = MssTable[1]
<1> DEFINE isn == wrapping_sub(seq, 1)
           Isns == {PeerIsn, wrapping_sub(PeerIsn, 1)}
           H == Handshake(Quads, Isns, Counts)
<1>1. Issued(i) /\ tick \in 0 .. MaxTick /\ MaxTick \in Nat /\ PeerIsn \in SeqNum
  BY LoopAssumption DEF RowsInv
<1>2. isn \in Isns /\ isn \in SeqNum
  BY <1>1, AddThenSub, SubType
<1>3. i.tick \in 0 .. MaxTick /\ i.mss \in Nat /\ i.quad \in Quads
  BY <1>1 DEF Issued
<1>4. /\ i.synack.seq \in SeqNum
      /\ Mac(i.synack.seq) = cookie_mix(i.quad, PeerIsn, i.tick)
      /\ EncodedMss(i.synack.seq) = MssTable[MssIndex(i.mss) + 1]
  BY <1>1, <1>3, CookieDigits DEF Issued
<1>5. cookie = i.synack.seq
  BY <1>4, AddThenSub
<1>6. PICK back \in 0 .. 2 :
         Mac(cookie) = cookie_mix(q, isn, (tick - back) % CounterMod)
  BY DEF check_syn_cookie
<1> HIDE DEF isn
<1> DEFINE at == (tick - back) % CounterMod
<1>7. at \in Counts /\ (at <= MaxTick => at = tick - back)
  <2>1. CounterMod \in Nat \ {0} /\ MaxTick + 2 < CounterMod
    BY <1>1, LoopAssumption DEF CookieAssumption
  <2>2. CASE back <= tick
    <3>1. tick - back \in 0 .. MaxTick /\ tick - back \in 0 .. CounterMod - 1
      BY <1>1, <2>1, <2>2
    <3>2. at = tick - back
      BY <2>1, <3>1, NearMod
    <3> QED BY <3>1, <3>2 DEF Counts
  <2>3. CASE back > tick
    <3>1. tick - back \in {-2, -1} /\ tick - back \in -CounterMod .. -1
      BY <1>1, <2>1, <2>3
    <3>2. at = tick - back + CounterMod
      BY <2>1, <3>1, NearMod
    <3>3. at \in {CounterMod - 2, CounterMod - 1}
      BY <2>1, <3>1, <3>2
    <3> QED BY <1>1, <2>1, <3>3 DEF Counts
  <2> QED BY <1>1, <2>2, <2>3
<1>8. << q, isn, at >> \in H /\ << i.quad, PeerIsn, i.tick >> \in H
  BY <1>1, <1>2, <1>3, <1>7 DEF Handshake, Counts
<1>9. \A h, k \in H : cookie_mix(h[1], h[2], h[3]) = cookie_mix(k[1], k[2], k[3]) => h = k
  BY LoopAssumption DEF CookieAssumption
<1> HIDE DEF H, at
<1>10. << q, isn, at >> = << i.quad, PeerIsn, i.tick >>
  BY <1>4, <1>5, <1>6, <1>8, <1>9 DEF at
<1>11. i.quad = q /\ isn = PeerIsn /\ i.tick = tick - back
  BY <1>1, <1>3, <1>7, <1>10
<1>12. tick - i.tick \in 0 .. 2
  BY <1>1, <1>6, <1>11
<1>13. MssIndex(i.mss) \in Nat /\ (MssIndex(i.mss) > 0 => MssTable[MssIndex(i.mss) + 1] <= i.mss)
  BY <1>3, MssIndexFits
<1>14. EncodedMss(cookie) <= i.mss \/ EncodedMss(cookie) = MssTable[1]
  BY <1>4, <1>5, <1>13
<1> QED BY <1>1, <1>2, <1>4, <1>5, <1>11, <1>12, <1>14 DEF Issued, isn

-----------------------------------------------------------------------------
(* The invariant and its steps *)

(***************************************************************************)
(* The inductive invariant.  The shape of the rows is what makes the other *)
(* two survive a step: no row is in recovery, so poll_transmit obeys the   *)
(* window; none returns to SYN_RCVD; the ISNs of a row never change.       *)
(***************************************************************************)
LoopInv == RowsInv /\ TableIsBounded /\ CookieIsGenuine

\* What is in the table after a step is what was there, later.
Later(c, d) ==
    /\ Live(d) /\ d.iss = c.iss /\ d.reasm.base = c.reasm.base /\ d.state # "Closed"
    /\ d.state = "SynRcvd" => c.state = "SynRcvd"

\* A row that stays as it is.
LEMMA SameRow == ASSUME LoopInv, NEW q \in DOMAIN conns PROVE Later(conns[q], conns[q])
BY DEF LoopInv, RowsInv, TableIsBounded, Later

\* A step that opens nothing.
LEMMA NothingOpened ==
    ASSUME LoopInv, DOMAIN conns' \subseteq DOMAIN conns,
           \A q \in DOMAIN conns' : Later(conns[q], conns'[q]),
           DOMAIN http_bufs' \subseteq DOMAIN conns',
           \A q \in DOMAIN http_bufs' : IsSeq(http_bufs'[q]),
           pace' \in [Quads -> Gate], DOMAIN httpFrom' = Quads,
           UNCHANGED << tick, scenario, issued, origin >>
    PROVE  LoopInv'
<1>1. RowsInv'
  <2>1. IsFiniteSet(DOMAIN conns')
    BY FS_Subset DEF LoopInv, RowsInv
  <2>2. \A i \in issued' : Issued(i)'
    BY DEF LoopInv, RowsInv, Issued
  <2> QED BY <2>1, <2>2 DEF LoopInv, RowsInv, Later
<1>2. TableIsBounded'
  <2>1. HalfOpen' \subseteq HalfOpen
    BY DEF HalfOpen, Later
  <2>2. IsFiniteSet(HalfOpen)
    <3>1. HalfOpen \subseteq DOMAIN conns
      BY DEF HalfOpen
    <3> QED BY <3>1, FS_Subset DEF LoopInv, RowsInv
  <2>3. Cardinality(HalfOpen') <= Cardinality(HalfOpen) /\ Cardinality(HalfOpen') \in Nat
        /\ Cardinality(HalfOpen) \in Nat
    BY <2>1, <2>2, FS_Subset, FS_CardinalityType
  <2>4. Cardinality(HalfOpen) <= SynBacklog /\ SynBacklog \in Nat
    BY LoopAssumption DEF LoopInv, TableIsBounded
  <2>5. Cardinality(HalfOpen') <= SynBacklog
    BY <2>3, <2>4
  <2> QED BY <2>5 DEF TableIsBounded, Later
<1>3. CookieIsGenuine'
  <2> SUFFICES ASSUME NEW q \in DOMAIN conns', origin'[q].kind = "cookie"
               PROVE  \E i \in issued' :
                         /\ i.quad = q
                         /\ i.synack.seq = conns'[q].iss
                         /\ i.synack.ack = conns'[q].reasm.base
                         /\ origin'[q].tick - i.tick \in 0 .. 2
                         /\ EncodedMss(conns'[q].iss) <= i.mss
                               \/ EncodedMss(conns'[q].iss) = MssTable[1]
    BY DEF CookieIsGenuine
  <2>1. q \in DOMAIN conns /\ origin[q].kind = "cookie"
    OBVIOUS
  <2>2. conns'[q].iss = conns[q].iss /\ conns'[q].reasm.base = conns[q].reasm.base
    BY DEF Later
  <2> QED BY <2>1, <2>2 DEF LoopInv, CookieIsGenuine
<1> QED BY <1>1, <1>2, <1>3 DEF LoopInv

\* The timers.
LEMMA TimersStep == ASSUME LoopInv, Timers PROVE LoopInv'
<1>1. PICK e \in SUBSET {q \in DOMAIN conns : "reap" \in Now.may},
           r \in SUBSET {x \in Resendable : "resend" \in Now.may},
           p \in SUBSET {q \in DOMAIN conns : conns[q].persist} :
         \E rto \in SUBSET {x[1] : x \in r} : \E f \in {Ticked(e, r, rto, p)} :
            Remove(f, {q \in DOMAIN f : f[q].state = "Closed"})
  BY DEF Timers
<1>1a. PICK rto \in SUBSET {x[1] : x \in r} :
         \E f \in {Ticked(e, r, rto, p)} : Remove(f, {q \in DOMAIN f : f[q].state = "Closed"})
  BY <1>1
<1>2. UNCHANGED << pace, tick, scenario, issued, origin, httpFrom >>
  BY DEF Timers
<1> DEFINE f == Ticked(e, r, rto, p)
           gone == {q \in DOMAIN f : f[q].state = "Closed"}
<1>3. DOMAIN f = DOMAIN conns
  BY DEF Ticked
<1>4. ASSUME NEW q \in DOMAIN conns, f[q].state # "Closed" PROVE Later(conns[q], f[q])
  <2> DEFINE t == [expired |-> q \in e,
                   resend |-> {u \in Holes(conns[q].retx) : << q, u >> \in r},
                   rto |-> q \in rto, persist |-> q \in p, keepalive |-> FALSE]
             d == on_tick(conns[q], t, 0).tcb
  <2>1. f[q] = d
    BY DEF Ticked
  <2>2. t.keepalive = FALSE
    OBVIOUS
  <2>3. Live(conns[q]) /\ Later(conns[q], conns[q])
    BY SameRow DEF LoopInv, RowsInv
  <2> HIDE DEF t, f
  <2>4. /\ Live(d) /\ d.iss = conns[q].iss /\ d.reasm.base = conns[q].reasm.base
        /\ d.state \in {conns[q].state, "Closed"}
    BY <2>2, <2>3, OnTickKeeps
  <2> HIDE DEF d
  <2> QED BY <1>4, <2>1, <2>3, <2>4 DEF Later
<1>5. conns' = Without(f, gone) /\ http_bufs' = Without(http_bufs, gone)
  BY <1>1a DEF Remove
<1> HIDE DEF f
<1>6. /\ DOMAIN conns' = DOMAIN conns \ gone
      /\ \A q \in DOMAIN conns' : conns'[q] = f[q] /\ f[q].state # "Closed"
      /\ DOMAIN http_bufs' = DOMAIN http_bufs \ gone
      /\ \A q \in DOMAIN http_bufs' : http_bufs'[q] = http_bufs[q]
  BY <1>3, <1>5 DEF Without
<1> HIDE DEF gone
<1>7. DOMAIN http_bufs \subseteq DOMAIN conns
  BY DEF LoopInv, TableIsBounded
<1>8. \A q \in DOMAIN conns' : Later(conns[q], conns'[q])
  BY <1>4, <1>6
<1>9. DOMAIN http_bufs' \subseteq DOMAIN conns' /\ \A q \in DOMAIN http_bufs' : IsSeq(http_bufs'[q])
  BY <1>6, <1>7 DEF LoopInv, RowsInv
<1>10. pace' \in [Quads -> Gate] /\ DOMAIN httpFrom' = Quads
  BY <1>2 DEF LoopInv, RowsInv
<1> QED BY <1>2, <1>6, <1>8, <1>9, <1>10, NothingOpened

\* A packet of a known connection.
LEMMA HandleStep ==
    ASSUME LoopInv, NEW q \in DOMAIN conns, NEW s \in Segment, Handle(q, s)
    PROVE  LoopInv'
<1>1. RowsInv /\ TableIsBounded
  BY DEF LoopInv
<1>2. PICK d :
         /\ Handled(conns[q], d)
         /\ conns' = IF d.state = "Closed" THEN Without(conns, {q}) ELSE [conns EXCEPT ![q] = d]
         /\ DOMAIN http_bufs' \subseteq
               IF d.state = "Closed" THEN DOMAIN http_bufs \ {q} ELSE DOMAIN http_bufs \cup {q}
         /\ \A x \in DOMAIN http_bufs' : IsSeq(http_bufs'[x])
         /\ pace' \in [Quads -> Gate] /\ DOMAIN httpFrom' = Quads
         /\ UNCHANGED << tick, scenario, issued, origin >>
  BY <1>1, HandleKeeps
<1>3. DOMAIN http_bufs \subseteq DOMAIN conns
  BY <1>1 DEF TableIsBounded
<1>4. CASE d.state = "Closed"
  <2>1. DOMAIN conns' = DOMAIN conns \ {q} /\ \A x \in DOMAIN conns' : conns'[x] = conns[x]
    BY <1>2, <1>4 DEF Without
  <2>2. \A x \in DOMAIN conns' : Later(conns[x], conns'[x])
    BY <2>1, SameRow
  <2>3. DOMAIN http_bufs' \subseteq DOMAIN conns'
    BY <1>2, <1>3, <1>4, <2>1
  <2> QED BY <1>2, <2>1, <2>2, <2>3, NothingOpened
<1>5. CASE d.state # "Closed"
  <2>1. /\ DOMAIN conns' = DOMAIN conns /\ conns'[q] = d
        /\ \A x \in DOMAIN conns \ {q} : conns'[x] = conns[x]
    BY <1>2, <1>5
  <2>2. Later(conns[q], d)
    BY <1>2, <1>5 DEF Handled, Later
  <2>3. \A x \in DOMAIN conns' : Later(conns[x], conns'[x])
    BY <2>1, <2>2, SameRow
  <2>4. DOMAIN http_bufs' \subseteq DOMAIN conns'
    BY <1>2, <1>3, <1>5, <2>1
  <2> QED BY <1>2, <2>1, <2>3, <2>4, NothingOpened
<1> QED BY <1>4, <1>5

\* The clock.
LEMMA ClockStep == ASSUME LoopInv, Clock PROVE LoopInv'
<1>1. /\ DOMAIN http_bufs \subseteq DOMAIN conns
      /\ \A q \in DOMAIN http_bufs : IsSeq(http_bufs[q])
      /\ pace \in [Quads -> Gate] /\ DOMAIN httpFrom = Quads
      /\ tick \in 0 .. MaxTick /\ scenario \in DOMAIN Scenarios
  BY DEF LoopInv, TableIsBounded, RowsInv
<1>2. CASE /\ \E q \in Quads : pace[q] = "hold" /\ pace' = [pace EXCEPT ![q] = "ready"]
           /\ UNCHANGED << conns, http_bufs, tick, scenario, issued, origin, httpFrom >>
  <2>1. pace' \in [Quads -> Gate]
    BY <1>1, <1>2 DEF Gate
  <2>2. \A q \in DOMAIN conns' : Later(conns[q], conns'[q])
    BY <1>2, SameRow
  <2> QED BY <1>1, <1>2, <2>1, <2>2, NothingOpened
<1>3. CASE /\ tick < Now.ticks /\ tick' = tick + 1
           /\ UNCHANGED << conns, http_bufs, pace, scenario, issued, origin, httpFrom >>
  <2>1. Now.ticks \in 0 .. MaxTick /\ MaxTick \in Nat
    BY <1>1, LoopAssumption DEF Now
  <2>2. tick' \in 0 .. MaxTick /\ 0 .. tick \subseteq 0 .. tick'
    BY <1>1, <1>3, <2>1
  <2>3. \A i \in issued' : Issued(i)'
    BY <1>3, <2>2 DEF LoopInv, RowsInv, Issued
  <2>4. RowsInv'
    BY <1>3, <2>2, <2>3 DEF LoopInv, RowsInv
  <2>5. TableIsBounded' /\ CookieIsGenuine'
    BY <1>3 DEF LoopInv, TableIsBounded, HalfOpen, CookieIsGenuine
  <2> QED BY <2>4, <2>5 DEF LoopInv
<1> QED BY <1>2, <1>3 DEF Clock

\* A cookie for a SYN that finds the backlog full.
LEMMA SendCookieStep ==
    ASSUME LoopInv, NEW q \in Quads, NEW s, s.seq = PeerIsn, SendCookie(q, s)
    PROVE  LoopInv'
<1>1. PICK mss \in Offers :
         issued' = issued \cup
             {[quad |-> q, isn |-> s.seq, mss |-> mss, tick |-> tick,
               synack |-> build_syn_cookie_synack(s, syn_cookie(q, s.seq, mss, tick))]}
  BY DEF SendCookie
<1>2. UNCHANGED << conns, http_bufs, pace, tick, scenario, opens, origin, heard, wrote, httpFrom >>
  BY DEF SendCookie
<1> DEFINE new == [quad |-> q, isn |-> s.seq, mss |-> mss, tick |-> tick,
                   synack |-> build_syn_cookie_synack(s, syn_cookie(q, s.seq, mss, tick))]
<1>3. mss \in Nat
  BY LoopAssumption
<1>4. tick \in 0 .. tick
  BY LoopAssumption DEF LoopInv, RowsInv
<1>5. Issued(new)
  BY <1>3, <1>4 DEF Issued, build_syn_cookie_synack
<1>6. \A i \in issued' : Issued(i)'
  <2> HIDE DEF new
  <2>1. issued' = issued \cup {new}
    BY <1>1 DEF new
  <2>2. \A i \in issued' : Issued(i)
    BY <1>5, <2>1 DEF LoopInv, RowsInv
  <2> QED BY <1>2, <2>2 DEF Issued
<1>7. RowsInv'
  BY <1>2, <1>6 DEF LoopInv, RowsInv
<1>8. CookieIsGenuine'
  <2>1. issued \subseteq issued'
    BY <1>1
  <2> QED BY <1>2, <2>1 DEF LoopInv, CookieIsGenuine
<1>9. TableIsBounded'
  BY <1>2 DEF LoopInv, TableIsBounded, HalfOpen
<1> QED BY <1>7, <1>8, <1>9 DEF LoopInv

\* What a new row needs for the invariant.
LEMMA InsertStep ==
    ASSUME LoopInv, NEW q \in Quads, q \notin DOMAIN conns, NEW c, Live(c), NEW kind,
           Insert(q, c, kind), UNCHANGED issued,
           c.state \in {"SynRcvd", "Established"},
           c.state = "SynRcvd" => Cardinality(HalfOpen) < SynBacklog,
           kind = "cookie" => \E i \in issued :
                                 /\ i.quad = q
                                 /\ i.synack.seq = c.iss
                                 /\ i.synack.ack = c.reasm.base
                                 /\ tick - i.tick \in 0 .. 2
                                 /\ EncodedMss(c.iss) <= i.mss \/ EncodedMss(c.iss) = MssTable[1]
    PROVE  LoopInv'
<1>1. /\ DOMAIN conns' = DOMAIN conns \cup {q} /\ conns'[q] = c
      /\ \A x \in DOMAIN conns \ {q} : conns'[x] = conns[x] /\ origin'[x] = origin[x]
      /\ origin'[q] = [kind |-> kind, tick |-> tick]
      /\ UNCHANGED << http_bufs, tick, scenario >>
      /\ RowsInv'
  <2>1. RowsInv
    BY DEF LoopInv
  <2> QED BY <2>1, InsertKeeps
<1>3. Cardinality(HalfOpen') <= SynBacklog
  <2>1. IsFiniteSet(HalfOpen)
    <3>1. HalfOpen \subseteq DOMAIN conns
      BY DEF HalfOpen
    <3> QED BY <3>1, FS_Subset DEF LoopInv, RowsInv
  <2>2. Cardinality(HalfOpen) \in Nat /\ Cardinality(HalfOpen) <= SynBacklog /\ SynBacklog \in Nat
    BY <2>1, FS_CardinalityType, LoopAssumption DEF LoopInv, TableIsBounded
  <2>3. CASE c.state = "SynRcvd"
    <3>1. HalfOpen' = HalfOpen \cup {q} /\ q \notin HalfOpen
      BY <1>1, <2>3 DEF HalfOpen
    <3>2. Cardinality(HalfOpen') = Cardinality(HalfOpen) + 1
      BY <2>1, <3>1, FS_AddElement
    <3> QED BY <2>2, <2>3, <3>2
  <2>4. CASE c.state # "SynRcvd"
    <3>1. HalfOpen' = HalfOpen
      BY <1>1, <2>4 DEF HalfOpen
    <3> QED BY <2>2, <3>1
  <2> QED BY <2>3, <2>4
<1>4. TableIsBounded'
  BY <1>1, <1>3 DEF LoopInv, TableIsBounded
<1>5. CookieIsGenuine'
  <2> SUFFICES ASSUME NEW x \in DOMAIN conns', origin'[x].kind = "cookie"
               PROVE  \E i \in issued :
                         /\ i.quad = x
                         /\ i.synack.seq = conns'[x].iss
                         /\ i.synack.ack = conns'[x].reasm.base
                         /\ origin'[x].tick - i.tick \in 0 .. 2
                         /\ EncodedMss(conns'[x].iss) <= i.mss
                               \/ EncodedMss(conns'[x].iss) = MssTable[1]
    BY DEF CookieIsGenuine
  <2>1. CASE x = q
    BY <1>1, <2>1
  <2>2. CASE x # q
    BY <1>1, <2>2 DEF LoopInv, CookieIsGenuine
  <2> QED BY <2>1, <2>2
<1> QED BY <1>1, <1>4, <1>5 DEF LoopInv

\* What arrives for no connection: the SYN, or a cookie that came back.
LEMMA StraysType ==
    ASSUME LoopInv, NEW s \in Strays
    PROVE  \/ s = Seg(PeerIsn, 0, {"SYN"}, 1, << >>) /\ s \in Segment
           \/ \E seq \in {PeerIsn, wrapping_add(PeerIsn, 1)} : \E i \in issued :
                 s = Seg(seq, wrapping_add(i.synack.seq, 1), {"ACK"}, 1, << >>)
<1>1. Seg(PeerIsn, 0, {"SYN"}, 1, << >>) \in Segment
  BY LoopAssumption, EmptySeq, SeqNumInt DEF Seg, Segment, Flag
<1> QED BY <1>1 DEF Strays

\* A packet of no connection.
LEMMA StrayStep ==
    ASSUME LoopInv, NEW q \in Quads, q \notin DOMAIN conns, NEW s \in Strays,
           PassiveOpen(q, s) \/ SendCookie(q, s) \/ ReturnedCookie(q, s)
    PROVE  LoopInv'
<1>1. CASE s = Seg(PeerIsn, 0, {"SYN"}, 1, << >>) /\ s \in Segment
  <2>1. s.seq = PeerIsn /\ "ACK" \notin s.flags
    BY <1>1 DEF Seg
  <2>2. CASE PassiveOpen(q, s)
    <3> DEFINE c == accept(s, Iss, 0).tcb
    <3>1. Live(c) /\ c.state = "SynRcvd"
      BY <1>1, AcceptLive
    <3>2. Insert(q, c, "syn") /\ UNCHANGED issued /\ Cardinality(HalfOpen) < SynBacklog
      BY <2>2 DEF PassiveOpen, HasRoom
    <3> HIDE DEF c
    <3> QED BY <3>1, <3>2, InsertStep
  <2>3. CASE SendCookie(q, s)
    BY <2>1, <2>3, SendCookieStep
  <2>4. ~ReturnedCookie(q, s)
    BY <2>1 DEF ReturnedCookie
  <2> QED BY <2>2, <2>3, <2>4
<1>2. ASSUME NEW seq \in {PeerIsn, wrapping_add(PeerIsn, 1)}, NEW i \in issued,
             s = Seg(seq, wrapping_add(i.synack.seq, 1), {"ACK"}, 1, << >>)
      PROVE  LoopInv'
  <2>1. s.flags = {"ACK"} /\ s.seq = seq /\ s.ack = wrapping_add(i.synack.seq, 1)
    BY <1>2 DEF Seg
  <2>2. ReturnedCookie(q, s)
    BY <2>1 DEF PassiveOpen, SendCookie
  <2> DEFINE isn == wrapping_sub(seq, 1)
             cookie == wrapping_sub(wrapping_add(i.synack.seq, 1), 1)
             c == from_syn_cookie(isn, cookie)
  <2>3. /\ check_syn_cookie(q, isn, cookie, tick)
        /\ Insert(q, c, "cookie") /\ UNCHANGED issued
    BY <2>1, <2>2 DEF ReturnedCookie
  <2>4. /\ i.quad = q /\ i.synack.seq = cookie /\ cookie \in SeqNum /\ isn \in SeqNum
        /\ i.synack.ack = wrapping_add(isn, 1)
        /\ tick - i.tick \in 0 .. 2
        /\ EncodedMss(cookie) <= i.mss \/ EncodedMss(cookie) = MssTable[1]
    BY <2>3, ReturnedIsIssued DEF LoopInv
  <2> HIDE DEF isn, cookie
  <2>5. /\ Live(c) /\ c.state = "Established" /\ c.iss = cookie
        /\ c.reasm.base = wrapping_add(isn, 1)
    BY <2>4, CookieLive
  <2> HIDE DEF c
  <2> QED BY <2>3, <2>4, <2>5, InsertStep
<1> QED BY <1>1, <1>2, StraysType

LEMMA LoopInitInv == ASSUME LoopInit PROVE LoopInv
<1>1. DOMAIN conns = {} /\ DOMAIN http_bufs = {}
  BY DEF LoopInit
<1>2. HalfOpen = {}
  BY <1>1 DEF HalfOpen
<1>3. Cardinality(HalfOpen) <= SynBacklog
  BY <1>2, FS_EmptySet, LoopAssumption
<1>4. RowsInv
  BY <1>1, FS_EmptySet, LoopAssumption DEF LoopInit, RowsInv, Gate
<1> QED BY <1>1, <1>3, <1>4 DEF LoopInv, TableIsBounded, CookieIsGenuine

LEMMA LoopStep == ASSUME LoopInv, [LoopNext]_loopVars PROVE LoopInv'
<1>1. CASE Packet
  <2>1. PICK q \in DOMAIN Now.script :
           IF q \in DOMAIN conns
           THEN \E s \in FromClient(q) : Handle(q, s)
           ELSE \E s \in Strays : PassiveOpen(q, s) \/ SendCookie(q, s) \/ ReturnedCookie(q, s)
    BY <1>1 DEF Packet
  <2>2. RowsInv /\ q \in Quads
    BY LoopAssumption DEF LoopInv, RowsInv, Now
  <2>3. CASE q \in DOMAIN conns
    <3>1. PICK s \in FromClient(q) : Handle(q, s)
      BY <2>1, <2>3
    <3>2. s \in Segment
      BY <2>2, <2>3, FromClientType
    <3> QED BY <2>3, <3>1, <3>2, HandleStep
  <2>4. CASE q \notin DOMAIN conns
    BY <2>1, <2>2, <2>4, StrayStep
  <2> QED BY <2>3, <2>4
<1>2. CASE UNCHANGED loopVars
  BY <1>2 DEF loopVars, LoopInv, RowsInv, Issued, TableIsBounded, HalfOpen, CookieIsGenuine
<1> QED BY <1>1, <1>2, TimersStep, ClockStep DEF LoopNext

-----------------------------------------------------------------------------
(* The results *)

(***************************************************************************)
(* Every row of main's table keeps its shape, and the two invariants       *)
(* below hold together: what one step of the loop relies on.               *)
(***************************************************************************)
THEOREM LoopInvariant == LoopSpec => []LoopInv
<1> QED BY LoopInitInv, LoopStep, PTL DEF LoopSpec

(***************************************************************************)
(* The half-open connections never exceed the backlog of main, no CLOSED   *)
(* connection stays in the table and no request buffer outlives its        *)
(* connection.                                                             *)
(***************************************************************************)
THEOREM TableIsBoundedHolds == LoopSpec => []TableIsBounded
<1>1. LoopInv => TableIsBounded
  BY DEF LoopInv
<1> QED BY <1>1, LoopInvariant, PTL

(***************************************************************************)
(* A connection that check_syn_cookie let in goes back to a SYN of the     *)
(* same client, answered at most two ticks before, and its MSS is one that *)
(* the client can take or the smallest of the table.                       *)
(***************************************************************************)
THEOREM CookieIsGenuineHolds == LoopSpec => []CookieIsGenuine
<1>1. LoopInv => CookieIsGenuine
  BY DEF LoopInv
<1> QED BY <1>1, LoopInvariant, PTL

=============================================================================
