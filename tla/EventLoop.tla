----------------------------- MODULE EventLoop -----------------------------
(***************************************************************************)
(* The live stack, main in src/main.rs: one thread that fires the timers   *)
(* of every connection, reads one packet, routes it by 4-tuple, serves     *)
(* HTTP or echoes, and answers what belongs to no connection with a        *)
(* passive open, a SYN cookie or a RST.                                    *)
(*                                                                         *)
(* Every connection runs BBR, so it never is in recovery and its new data  *)
(* is paced.  pace[q] is what the pacing gate of poll_transmit sees:       *)
(* "none" until a bandwidth is known, "hold" while now < next_send_ms.     *)
(* An I/O error ends the program: the behaviour stops.                     *)
(***************************************************************************)
EXTENDS Connection, Http, SynCookie

CONSTANTS
    Quads,        \* the 4-tuples that clients use
    SynBacklog,   \* half-open connections held before cookies are used: 128 in the code
    PeerIsn,      \* the clients' initial sequence number
    Iss,          \* ours (random in the code)
    Cwnd,         \* BBR's window, never below four segments
    Offers,       \* the MSS values that a SYN may offer
    MaxTick,      \* bound on the cookie counter
    MaxSeg,       \* bound on the tokens in one segment
    Scenarios     \* Scenarios[s]: what each client sends, its windows, what may happen

\* The counter values that a cookie is made or checked with: just after the start, two ticks
\* back lies on the other side of the wrap.
Counts == (0 .. MaxTick) \cup {CounterMod - 2, CounterMod - 1}

ASSUME LoopAssumption ==
    /\ SynBacklog \in Nat /\ PeerIsn \in SeqNum /\ Iss \in SeqNum
    /\ Cwnd \in Nat /\ Cwnd >= 4 * Mss
    /\ Offers \subseteq Nat /\ MaxTick \in Nat
    /\ CookieAssumption(Quads, {PeerIsn, wrapping_sub(PeerIsn, 1)}, Counts)
    /\ MaxTick + 2 < CounterMod
    /\ \A s \in DOMAIN Scenarios :
          /\ DOMAIN Scenarios[s].script \subseteq Quads
          /\ \A q \in DOMAIN Scenarios[s].script : Scenarios[s].script[q] \in Seq(Nat)
          /\ Scenarios[s].windows \subseteq Nat
          /\ Scenarios[s].opens \in Nat /\ Scenarios[s].cookies \in Nat
          /\ Scenarios[s].ticks \in 0 .. MaxTick
          /\ Scenarios[s].may \subseteq {"reset", "resend", "reap", "keepalive"}

VARIABLES
    conns,      \* HashMap<Quad, Connection>
    http_bufs,  \* HashMap<Quad, Vec<u8>>
    pace,       \* what the pacing gate of each connection sees
    tick,       \* now / COOKIE_TICK
    scenario,   \* the scenario of this behaviour, chosen in Init
    opens,      \* connections opened so far
    issued,     \* every cookie sent: for whom, when, for which MSS
    origin,     \* how the connection of a quad came to be, and when
    heard,      \* what the application has taken from it, and
    wrote,      \* what it has written, while its own half was open
    httpFrom    \* how many of its bytes came before the first HTTP request; NotHttp

loopVars == << conns, http_bufs, pace, tick, scenario, opens, issued, origin, heard, wrote, httpFrom >>

NotHttp == -1

Now == Scenarios[scenario]
Script(q) == Now.script[q]

\* How many sequence numbers of the client a connection has taken in.
Taken(c) == wrapping_sub(c.rcv_nxt, c.reasm.base)

LoopInit ==
    /\ conns = << >>
    /\ http_bufs = << >>
    /\ pace = [q \in Quads |-> "none"]
    /\ tick = 0
    /\ scenario \in DOMAIN Scenarios
    /\ opens = 0
    /\ issued = {}
    /\ origin = [q \in Quads |-> [kind |-> "none", tick |-> 0]]
    /\ heard = [q \in Quads |-> << >>]
    /\ wrote = [q \in Quads |-> << >>]
    /\ httpFrom = [q \in Quads |-> NotHttp]

\* HashMap::insert and HashMap::remove.
With(f, q, v) == [x \in DOMAIN f \cup {q} |-> IF x = q THEN v ELSE f[x]]

Without(f, S) == [x \in DOMAIN f \ S |-> f[x]]

-----------------------------------------------------------------------------
(* Timers: on_tick for every connection, then the closed ones are removed. *)

\* Queued segments, with their 4-tuple, that a timer may resend.
Resendable == UNION {{q} \X Holes(conns[q].retx) : q \in DOMAIN conns}

\* RACK and the tail loss probe resend without a timeout; an RTO resends at least one hole.
Ticked(e, r, rto, p) ==
    [q \in DOMAIN conns |-> on_tick(conns[q],
        [expired |-> q \in e, resend |-> {u \in Holes(conns[q].retx) : << q, u >> \in r},
         rto |-> q \in rto, persist |-> q \in p, keepalive |-> FALSE], 0).tcb]

Remove(f, gone) ==
    /\ conns' = Without(f, gone)
    /\ http_bufs' = Without(http_bufs, gone)

Timers ==
    /\ \E e \in SUBSET {q \in DOMAIN conns : "reap" \in Now.may},
          r \in SUBSET {x \in Resendable : "resend" \in Now.may},
          p \in SUBSET {q \in DOMAIN conns : conns[q].persist} :
       \E rto \in SUBSET {x[1] : x \in r} :
       \E f \in {Ticked(e, r, rto, p)} :
          Remove(f, {q \in DOMAIN f : f[q].state = "Closed"})
    /\ UNCHANGED << pace, tick, scenario, opens, issued, origin, heard, wrote, httpFrom >>

\* Time passes: a pacing gap ends, or the cookie counter advances.
Clock ==
    \/ /\ \E q \in Quads : pace[q] = "hold" /\ pace' = [pace EXCEPT ![q] = "ready"]
       /\ UNCHANGED << conns, http_bufs, tick, scenario, opens, issued, origin, heard, wrote, httpFrom >>
    \/ /\ tick < Now.ticks
       /\ tick' = tick + 1
       /\ UNCHANGED << conns, http_bufs, pace, scenario, opens, issued, origin, heard, wrote, httpFrom >>

-----------------------------------------------------------------------------
(* A packet of a known connection *)

\* The loop that serves every complete request in the buffer, until one of them closes.
Serve(buf) ==
    LET served[n \in 0 .. Len(buf)] ==
            IF n = 0 THEN [rest |-> buf, reply |-> << >>, closing |-> FALSE]
            ELSE LET b   == served[n - 1]
                     len == request_head_len(b.rest)
                     req == parse_request(SubSeq(b.rest, 1, len))
                 IN  IF b.closing \/ len = 0 THEN b
                     ELSE [rest |-> SubSeq(b.rest, len + 1, Len(b.rest)),
                           reply |-> b.reply \o (IF req.ok THEN response(req) ELSE << >>),
                           closing |-> ~req.keep_alive]
    IN  served[Len(buf)]

\* Mutant: each segment is taken for a request of its own.
Latest(q, received) == received

\* The request buffer with what has just arrived.
Buffered(q, received) ==
    (IF q \in DOMAIN http_bufs THEN http_bufs[q] ELSE << >>) \o received

\* The application: what it writes, what is left in the request buffer, whether it closes.
Application(q, received) ==
    LET isHttp == received # << >> /\ (q \in DOMAIN http_bufs \/ looks_like_request(received))
        served == Serve(Buffered(q, received))
    IN  IF isHttp THEN [http |-> TRUE, reply |-> served.reply, rest |-> served.rest,
                        closing |-> served.closing]
        ELSE [http |-> FALSE, reply |-> received, rest |-> << >>, closing |-> FALSE]

\* Under BBR the recovery flag is never set: a duplicate ACK only resends.
UnderBbr(r) == [r EXCEPT !.tcb.in_recovery = FALSE]

\* Mutant: once a bandwidth is known the gate stays shut.
PacedShut(c, p) == IF p = "none" THEN poll_transmit(c, Cwnd, 0).tcb ELSE c

\* poll_transmit behind the pacing gate: at most one segment, then a gap.
Paced(c, p) ==
    CASE p = "none"  -> poll_transmit(c, Cwnd, 0).tcb
      [] p = "ready" -> poll_transmit(c, AtMost(flight_size(c) + Mss, Cwnd), 0).tcb
      [] p = "hold"  -> c

CloseIf(c, cond) == IF cond THEN close(c, 0).tcb ELSE c

\* Mutant: the peer's FIN is not answered.
NeverAnswerFin(c) == c

\* The peer has closed its half and nothing is left to send: close ours.
AnswerFin(c) == CloseIf(c, c.state = "CloseWait" /\ c.send_buf = << >>)

\* The first bandwidth sample: an ACK of new data may yield it.
Learned(c, s, p) ==
    IF p = "none" /\ c.state \in SendOpen /\ "ACK" \in s.flags /\ AcksNewData(c, s.ack)
    THEN {"none", "ready"} ELSE {p}

\* The tables after a packet: r is what on_segment returned, sent whether data left, c the result.
Store(q, r, app, p, sent, c) ==
    /\ IF c.state = "Closed" THEN Remove(conns, {q})
       ELSE /\ conns' = [conns EXCEPT ![q] = c]
            /\ http_bufs' = IF app.closing THEN Without(http_bufs, {q})
                            ELSE IF app.http THEN With(http_bufs, q, app.rest)
                            ELSE http_bufs
    /\ pace' = [pace EXCEPT ![q] = IF p = "ready" /\ sent THEN "hold" ELSE p]
    /\ IF r.tcb.state \in SendOpen
       THEN /\ heard' = [heard EXCEPT ![q] = @ \o r.data]
            /\ wrote' = [wrote EXCEPT ![q] = @ \o app.reply]
       ELSE UNCHANGED << heard, wrote >>
    /\ httpFrom' = [httpFrom EXCEPT ![q] = IF app.http /\ @ = NotHttp THEN Taken(conns[q]) ELSE @]
    /\ UNCHANGED << tick, scenario, opens, issued, origin >>

Handle(q, s) ==
    \E r0 \in {on_segment(conns[q], s, FALSE, 0)}, p \in Learned(conns[q], s, pace[q]) :
    \E r \in {UnderBbr(r0)} :
    \E app \in {Application(q, r.data)} :
    \E c1 \in {write(r.tcb, app.reply)} :
    \E c2 \in {Paced(c1, p)} :
    \E c3 \in {CloseIf(c2, app.closing)} :
    \E c4 \in {AnswerFin(c3)} : Store(q, r, app, p, c2.nxt # c1.nxt, c4)

-----------------------------------------------------------------------------
(* A packet of no connection *)

HalfOpen == {q \in DOMAIN conns : conns[q].state = "SynRcvd"}

\* Mutant: one more than the backlog holds.
HasRoomFor(n) == n <= SynBacklog

HasRoom(n) == n < SynBacklog

\* A connection enters the table.
Insert(q, c, kind) ==
    /\ opens < Now.opens
    /\ opens' = opens + 1
    /\ conns' = With(conns, q, c)
    /\ pace' = [pace EXCEPT ![q] = "none"]
    /\ origin' = [origin EXCEPT ![q] = [kind |-> kind, tick |-> tick]]
    /\ heard' = [heard EXCEPT ![q] = << >>]
    /\ wrote' = [wrote EXCEPT ![q] = << >>]
    /\ httpFrom' = [httpFrom EXCEPT ![q] = NotHttp]
    /\ UNCHANGED << http_bufs, tick, scenario >>

PassiveOpen(q, s) ==
    /\ s.flags \cap {"SYN", "ACK"} = {"SYN"}
    /\ HasRoom(Cardinality(HalfOpen))
    /\ Insert(q, accept(s, Iss, 0).tcb, "syn")
    /\ UNCHANGED issued

\* The backlog is full: a cookie and no connection.
SendCookie(q, s) ==
    /\ s.flags \cap {"SYN", "ACK"} = {"SYN"}
    /\ ~HasRoom(Cardinality(HalfOpen))
    /\ Cardinality(issued) < Now.cookies
    /\ \E mss \in Offers :
          issued' = issued \cup
              {[quad |-> q, isn |-> s.seq, mss |-> mss, tick |-> tick,
                synack |-> build_syn_cookie_synack(s, syn_cookie(q, s.seq, mss, tick))]}
    /\ UNCHANGED << conns, http_bufs, pace, tick, scenario, opens, origin, heard, wrote, httpFrom >>

\* An ACK that returns a cookie.  Its payload and its FIN are dropped.  Any other gets a RST.
ReturnedCookie(q, s) ==
    /\ "ACK" \in s.flags /\ s.flags \cap {"SYN", "RST"} = {}
    /\ check_syn_cookie(q, wrapping_sub(s.seq, 1), wrapping_sub(s.ack, 1), tick)
    /\ Insert(q, from_syn_cookie(wrapping_sub(s.seq, 1), wrapping_sub(s.ack, 1)), "cookie")
    /\ UNCHANGED issued

-----------------------------------------------------------------------------
(* The clients *)

Seg(seq, ackno, flags, window, data) ==
    [seq |-> seq, ack |-> ackno, flags |-> flags, window |-> window, opts |-> {}, tsval |-> 0,
     sack |-> {}, data |-> data]

\* Slices of the client's stream that start at the beginning, at the next byte or one beyond.
Slices(q) ==
    LET next  == AtMost(Taken(conns[q]), Len(Script(q)))
        start == {0, next, AtMost(next + 1, Len(Script(q)))}
    IN  {p \in start \X (0 .. Len(Script(q))) : p[1] <= p[2] /\ p[2] <= p[1] + MaxSeg}

\* The client acknowledges everything it has been sent and says nothing new.
Ack(q) ==
    LET c == conns[q] IN Seg(c.rcv_nxt, c.nxt, {"ACK"}, c.wnd, << >>)

\* A client that has forgotten the connection resets it: on our latest ACK, or on a segment that
\* was first sent before the last byte arrived and is repeated as it was.
Resets(c) ==
    {build_rst(Seg(c.nxt, a, {"ACK"}, 0, << >>)) : a \in {c.rcv_nxt, wrapping_sub(c.rcv_nxt, 1)}}

\* What the client of a known connection may send, old, new or ahead.
FromClient(q) ==
    LET c == conns[q]
    IN  {Ack(q)}
        \cup {Seg(wrapping_add(PeerIsn, 1 + p[1]), a, f, w, SubSeq(Script(q), p[1] + 1, p[2])) :
            p \in Slices(q), a \in {c.una, c.nxt}, f \in {{"ACK"}}, w \in Now.windows}
        \cup {Seg(wrapping_add(PeerIsn, 1 + p[1]), c.nxt, {"FIN", "ACK"}, w,
                  SubSeq(Script(q), p[1] + 1, p[2])) :
            p \in {p \in Slices(q) : p[2] = Len(Script(q))}, w \in Now.windows}
        \cup (IF "reset" \in Now.may THEN Resets(c) ELSE {})

\* What may arrive for no connection: a SYN, or the return of any cookie ever sent, unaltered.
Strays ==
    {Seg(PeerIsn, 0, {"SYN"}, 1, << >>)}
        \cup {Seg(seq, wrapping_add(i.synack.seq, 1), {"ACK"}, 1, << >>) :
                seq \in {PeerIsn, wrapping_add(PeerIsn, 1)}, i \in issued}

Packet ==
    \E q \in DOMAIN Now.script :
        IF q \in DOMAIN conns
        THEN \E s \in FromClient(q) : Handle(q, s)
        ELSE \E s \in Strays : PassiveOpen(q, s) \/ SendCookie(q, s) \/ ReturnedCookie(q, s)

LoopNext == Timers \/ Clock \/ Packet

LoopSpec == LoopInit /\ [][LoopNext]_loopVars

\* A packet: the client's acknowledgement of all it has been sent.
Acknowledge(q) == "keepalive" \in Now.may /\ q \in DOMAIN conns /\ Handle(q, Ack(q))

(***************************************************************************)
(* Time passes, and a client that uses keepalive keeps acknowledging what  *)
(* it has.                                                                 *)
(***************************************************************************)
LoopFairSpec ==
    LoopSpec /\ WF_loopVars(Clock) /\ \A q \in Quads : WF_loopVars(Acknowledge(q))

-----------------------------------------------------------------------------
(* Properties *)

(***************************************************************************)
(* The half-open connections never exceed the backlog, and the table holds *)
(* no CLOSED connection and no request buffer without its connection:      *)
(* neither a flood of SYNs nor clients that come and go pin memory.        *)
(***************************************************************************)
TableIsBounded ==
    /\ Cardinality(HalfOpen) <= SynBacklog
    /\ DOMAIN http_bufs \subseteq DOMAIN conns
    /\ \A q \in DOMAIN conns : conns[q].state # "Closed"

(***************************************************************************)
(* A connection that came from a cookie goes back to a SYN of the same     *)
(* client with the same ISN, answered at most two ticks before, and the    *)
(* MSS the cookie carries is one that client can take (or the smallest),   *)
(* as long as cookies come back unaltered: the MAC that check_syn_cookie   *)
(* compares does not cover the bits of the MSS.                            *)
(***************************************************************************)
CookieIsGenuine ==
    \A q \in DOMAIN conns : origin[q].kind = "cookie" =>
        \E i \in issued :
            /\ i.quad = q
            /\ i.synack.seq = conns[q].iss
            /\ i.synack.ack = conns[q].reasm.base
            /\ origin[q].tick - i.tick \in 0 .. 2
            /\ EncodedMss(conns[q].iss) <= i.mss \/ EncodedMss(conns[q].iss) = MssTable[1]

\* What a client is owed for its stream: the answers to its requests up to one that closes.
Owed(stream) ==
    LET ends  == {i \in 1 .. Len(stream) : stream[i] = END}
        From(e) == LET before_e == {d \in ends : d < e}
                   IN  IF before_e = {} THEN 1
                       ELSE 1 + CHOOSE d \in before_e : \A x \in before_e : x <= d
        Req(e) == parse_request(SubSeq(stream, From(e), e))
        due    == {e \in ends : \A d \in ends : d < e => Req(d).keep_alive}
        Reply(e) == IF Req(e).ok THEN response(Req(e)) ELSE << >>
        upTo[n \in 0 .. Len(stream)] ==
            IF n = 0 THEN << >> ELSE upTo[n - 1] \o (IF n \in due THEN Reply(n) ELSE << >>)
    IN  upTo[Len(stream)]

(***************************************************************************)
(* Until it closes, a connection has echoed every byte before the first    *)
(* request that it recognised, and from there on answered exactly the      *)
(* complete requests, pipelined or not, up to the one that closes, however *)
(* TCP cuts and reorders what follows.  Where that first request lies does *)
(* depend on the cuts: a method whose first piece is delivered alone is    *)
(* echoed, and so is the request after it.                                 *)
(***************************************************************************)
AnswersMatchStream ==
    \A q \in DOMAIN conns :
        LET echoed == IF httpFrom[q] = NotHttp THEN Len(heard[q]) ELSE httpFrom[q]
        IN  /\ heard[q] = SubSeq(Script(q), 1, Len(heard[q]))
            /\ wrote[q] = SubSeq(heard[q], 1, echoed)
                            \o Owed(SubSeq(heard[q], echoed + 1, Len(heard[q])))

\* Where in the stream of what was written sequence number n of c stands.
Place(c, n) == wrapping_sub(n, c.iss) - 1

(***************************************************************************)
(* Between the application and the wire nothing is lost, repeated or       *)
(* moved: every queued packet carries what was written at its sequence     *)
(* number, and while our half is open send_buf holds the rest.  Bytes      *)
(* leave send_buf in poll_transmit, paced or not and cut by Nagle and the  *)
(* window, and one at a time in the zero-window probe of on_tick.          *)
(***************************************************************************)
WireMatchesWritten ==
    \A q \in DOMAIN conns :
        LET c == conns[q]
        IN  /\ \A u \in c.retx :
                  u.pkt.data = SubSeq(wrote[q], Place(c, u.start) + 1,
                                      Place(c, u.start) + Len(u.pkt.data))
            /\ c.state \in SendOpen =>
                  c.send_buf = SubSeq(wrote[q], Place(c, c.nxt) + 1, Len(wrote[q]))

\* A step in which the loop closes its half of q.
Closes(q) ==
    /\ q \in DOMAIN conns /\ q \in DOMAIN conns'
    /\ conns[q].state \in SendOpen \cup {"SynRcvd"}
    /\ conns'[q].state \in {"FinWait1", "LastAck"}

(***************************************************************************)
(* "Actively close once it's on the wire": when the loop closes, all that  *)
(* was written to the connection has been sent.                            *)
(***************************************************************************)
NothingUnsentAtClose ==
    [][\A q \in Quads : Closes(q) => conns'[q].send_buf = << >>]_loopVars

(***************************************************************************)
(* Held data leaves: what pacing or Nagle kept back is sent in the end to  *)
(* a client that uses keepalive.  (It may wait for ever for one that falls *)
(* silent: only a segment makes the loop transmit.)                        *)
(***************************************************************************)
HeldDataLeaves ==
    \A q \in Quads :
        ("keepalive" \in Now.may /\ q \in DOMAIN conns /\ conns[q].state \in SendOpen
            /\ conns[q].send_buf # << >>)
            ~> (q \in DOMAIN conns => conns[q].state \notin SendOpen
                                        \/ conns[q].send_buf = << >> \/ conns[q].wnd = 0)

(***************************************************************************)
(* A half-close is answered: while a client that has closed its half and   *)
(* uses keepalive keeps its window open, the loop drains what it owes, on  *)
(* one segment after another, and closes its own half.  (For a client that *)
(* falls silent with paced data still held it is not: on_tick transmits    *)
(* nothing new, and only the idle reaper ends the connection.)             *)
(***************************************************************************)
HalfCloseAnswered ==
    \A q \in Quads :
        ("keepalive" \in Now.may /\ q \in DOMAIN conns /\ conns[q].state = "CloseWait")
            ~> (q \in DOMAIN conns => conns[q].state # "CloseWait" \/ conns[q].wnd = 0)

=============================================================================
