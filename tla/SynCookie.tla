----------------------------- MODULE SynCookie -----------------------------
(***************************************************************************)
(* SYN cookies (src/tcp.rs): a SYN-ACK whose initial sequence number is    *)
(* [counter][MSS index][MAC], so that nothing need be kept until the       *)
(* number comes back.  cookie_mix stands for the keyed hash; that it does  *)
(* not collide on the handshakes of a run is an assumption.                *)
(***************************************************************************)
EXTENDS Segment, FiniteSets

CONSTANTS
    cookie_mix(_, _, _),  \* the MAC of a 4-tuple, the peer's ISN and the counter
    MacRange,             \* MACs are below this: 2^24 in the code
    CounterRange,         \* the cookie carries the counter modulo this: 64 in the code
    CounterMod,           \* and the counter itself wraps at this: 2^32 in the code
    MssTable              \* the encodable segment sizes, ascending

\* What a SYN carries that the cookie depends on.
Handshake(Q, isns, ticks) == Q \X isns \X ticks

\* The table ascends, the cookie fits in a sequence number, and distinct handshakes have
\* distinct MACs.
CookieAssumption(Q, isns, ticks) ==
    /\ MssTable \in Seq(Nat) /\ Len(MssTable) > 0
    /\ \A i, j \in 1 .. Len(MssTable) : i < j => MssTable[i] < MssTable[j]
    /\ MacRange \in Nat \ {0} /\ CounterRange \in Nat \ {0} /\ CounterMod \in Nat
    /\ CounterRange * Len(MssTable) * MacRange <= SeqMod
    /\ \A h \in Handshake(Q, isns, ticks) :
          /\ cookie_mix(h[1], h[2], h[3]) \in 0 .. MacRange - 1
          /\ \A k \in Handshake(Q, isns, ticks) :
                cookie_mix(h[1], h[2], h[3]) = cookie_mix(k[1], k[2], k[3]) => h = k

\* The largest encodable size that the peer can take, or else the smallest there is.
MssIndex(mss) == Cardinality({i \in 2 .. Len(MssTable) : MssTable[i] <= mss})

syn_cookie(q, peer_isn, mss, tick) ==
    ((tick % CounterRange) * Len(MssTable) + MssIndex(mss)) * MacRange
        + cookie_mix(q, peer_isn, tick)

Mac(cookie) == cookie % MacRange

EncodedMss(cookie) == MssTable[((cookie \div MacRange) % Len(MssTable)) + 1]

CounterBits(cookie) == cookie \div (MacRange * Len(MssTable))

\* Mutant: a cookie never expires.
check_any_age(q, peer_isn, cookie, tick) ==
    \E c \in 0 .. tick : Mac(cookie) = cookie_mix(q, peer_isn, c)

\* check_syn_cookie: authentic, and of this counter tick or the two before it.
check_syn_cookie(q, peer_isn, cookie, tick) ==
    \E back \in 0 .. 2 :
        LET c == (tick - back) % CounterMod
        IN  c % CounterRange = CounterBits(cookie) /\ Mac(cookie) = cookie_mix(q, peer_isn, c)

\* The SYN-ACK of a cookie: no option survives but the MSS.
build_syn_cookie_synack(s, cookie) ==
    [seq |-> cookie, ack |-> wrapping_add(s.seq, 1), flags |-> {"SYN", "ACK"},
     window |-> 1024, opts |-> {}, tsval |-> 0, sack |-> {}, data |-> << >>]

(***************************************************************************)
(* The RST for a segment without a connection (RFC 9293, 3.10.7.1): at the *)
(* number the segment acknowledges or else acknowledging all it occupies.  *)
(***************************************************************************)
build_rst(s) ==
    LET len == Len(s.data) + Cardinality(s.flags \cap {"SYN", "FIN"})
        rst == [seq |-> s.ack, ack |-> 0, flags |-> {"RST"}, window |-> 0, opts |-> {},
                tsval |-> 0, sack |-> {}, data |-> << >>]
    IN  IF "ACK" \in s.flags THEN rst
        ELSE [rst EXCEPT !.seq = 0, !.ack = wrapping_add(s.seq, len), !.flags = {"RST", "ACK"}]

=============================================================================
