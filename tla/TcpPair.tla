------------------------------ MODULE TcpPair ------------------------------
(***************************************************************************)
(* Two TcpStreams (src/socket.rs) over a network that loses, duplicates    *)
(* and reorders datagrams: TcpStream::connect on one side,                 *)
(* TcpListener::poll_accept on the other, then each side's own event loop. *)
(*                                                                         *)
(* TcpStream::poll is three phases with I/O between them, so it is modelled *)
(* by the phase each side is in: PollBegin runs on_tick, Ingest one         *)
(* on_segment per ready datagram, PollEnd poll_transmit.  The application  *)
(* runs between polls.                                                     *)
(***************************************************************************)
EXTENDS Connection

CONSTANTS
    NoConn,      \* the listening side before a SYN arrives
    Iss,         \* Iss[e]: e's initial send sequence number
    Scenarios    \* Scenarios[s]: the bounds and choices of scenario s

Endpoint == {"client", "server"}

Peer(e) == IF e = "client" THEN "server" ELSE "client"

Scenario == DOMAIN Scenarios

ASSUME PairAssumption ==
    /\ Iss \in [Endpoint -> SeqNum]
    /\ NoConn \notin Connection
    /\ \A b \in {Scenarios[s] : s \in Scenario} :
          /\ b.cwnds \subseteq Nat
          /\ b.throttled \subseteq BOOLEAN
          /\ b.timers \subseteq {"rto", "timewait", "reaper"}
          /\ b.closers \subseteq Endpoint
          /\ b.chunk \in Nat \ {0}
          /\ b.written \in [Endpoint -> Nat]
          /\ b.clock \in [Endpoint -> 0 .. Half - 1] /\ b.listened \in 0 .. b.clock["server"]
          /\ b.lost \in Nat /\ b.dup \in Nat /\ b.skip \in Nat /\ b.early \in Nat

VARIABLES
    scenario,  \* the scenario of this behaviour, chosen in Init
    conn,      \* conn[e]: e's connection, or NoConn
    received,  \* received[e]: every byte e's recv_buf was given, in order; recv_all
               \* and read only drain a prefix of it
    written,   \* written[e]: bytes the application has written
    pc,        \* pc[e]: "app" between polls, "poll" inside one
    clock,     \* clock[e]: what e stamps its segments with
    net,       \* net[e]: the datagrams on their way to e
    lost, dups, early \* losses, duplications and premature timeouts so far

vars == << scenario, conn, received, written, pc, clock, net, lost, dups, early >>

Cwnds == Scenarios[scenario].cwnds            \* values of the congestion window
Throttled == Scenarios[scenario].throttled    \* outcomes of the challenge-ACK budget: TRUE when it is spent
Timers == Scenarios[scenario].timers          \* the timers that may elapse
Closers == Scenarios[scenario].closers        \* the sides whose application closes
ChunkSize == Scenarios[scenario].chunk        \* how many bytes the application writes at once
MaxWritten == Scenarios[scenario].written     \* MaxWritten[e]: bound on the bytes e's application writes
MaxClock == Scenarios[scenario].clock         \* MaxClock[e]: bound on e's timestamp clock
Listened == Scenarios[scenario].listened      \* the listener's clock when the SYN arrives
MaxLost == Scenarios[scenario].lost           \* bound on the datagrams the network loses
MaxDup == Scenarios[scenario].dup             \* bound on the datagrams the network duplicates
MaxSkip == Scenarios[scenario].skip           \* how many datagrams one may overtake
MaxEarly == Scenarios[scenario].early         \* bound on the resends of what is still on its way

Live(e) == conn[e] # NoConn

-----------------------------------------------------------------------------
(* The network (PacketIo): a copy of a datagram already on its way is not   *)
(* told apart from it, so that a timer that keeps resending one segment    *)
(* adds nothing new.                                                       *)

InNet(q) == {q[i] : i \in DOMAIN q}

Orderings(S) == {f \in [1 .. Cardinality(S) -> S] : \A x \in S : \E i \in DOMAIN f : f[i] = x}

\* e hands the datagrams of out to the network at once.
Sends(e, out, q) ==
    \E f \in Orderings(out \ InNet(q[Peer(e)])) :
        net' = [q EXCEPT ![Peer(e)] = @ \o f]

Without(q, i) == SubSeq(q, 1, i - 1) \o SubSeq(q, i + 1, Len(q))

\* Datagram i is ready for e, and what is left after e has taken it: a
\* duplicated one stays behind.
Ready(e, i, dup) ==
    /\ i \in DOMAIN net[e] /\ i <= MaxSkip + 1
    /\ dup => dups < MaxDup
    /\ dups' = IF dup THEN dups + 1 ELSE dups
    /\ UNCHANGED << scenario, lost, early >>

Left(e, i, dup) == IF dup THEN net ELSE [net EXCEPT ![e] = Without(@, i)]

Lose(e, i) ==
    /\ lost < MaxLost /\ i \in DOMAIN net[e]
    /\ net' = [net EXCEPT ![e] = Without(@, i)]
    /\ lost' = lost + 1
    /\ UNCHANGED << scenario, conn, received, written, pc, clock, dups, early >>

-----------------------------------------------------------------------------
(* The endpoints *)

Init ==
    /\ scenario \in Scenario
    /\ conn = [e \in Endpoint |-> IF e = "client" THEN connect(Iss[e], 0).tcb ELSE NoConn]
    /\ net = [e \in Endpoint |-> IF e = "server"
                                 THEN << CHOOSE p \in connect(Iss["client"], 0).out : TRUE >>
                                 ELSE << >>]
    /\ received = [e \in Endpoint |-> << >>]
    /\ written = [e \in Endpoint |-> 0]
    /\ pc = [e \in Endpoint |-> "app"]
    /\ clock = [e \in Endpoint |-> IF e = "client" THEN 0 ELSE Listened]
    /\ lost = 0 /\ dups = 0 /\ early = 0

(***************************************************************************)
(* TcpListener::poll_accept on one datagram: a SYN opens the connection,    *)
(* anything else is dropped.  The SYN-ACK is stamped with the clock of the *)
(* listener, which the blocking accept started when it was called; the     *)
(* stream it returns has a clock of its own, started now.  Listened = 0    *)
(* when the caller gives both the same clock.                              *)
(***************************************************************************)
PollAccept(e, i, dup) ==
    /\ ~Live(e) /\ Ready(e, i, dup)
    /\ IF "SYN" \in net[e][i].flags
       THEN \E r \in {accept(net[e][i], Iss[e], clock[e])} :
                /\ conn' = [conn EXCEPT ![e] = r.tcb]
                /\ clock' = [clock EXCEPT ![e] = 0]
                /\ Sends(e, r.out, Left(e, i, dup))
       ELSE UNCHANGED << conn, clock >> /\ net' = Left(e, i, dup)
    /\ UNCHANGED << received, written, pc >>

\* An entry of R, or an acknowledgement of one, is still on its way.
Premature(e, R) ==
    \E s \in R : \/ s.pkt \in InNet(net[Peer(e)])
                 \/ \E p \in InNet(net[e]) : "ACK" \in p.flags /\ ~before(p.ack, s.end)

\* poll, first phase: on_tick.  The RTO, RACK and the tail loss probe resend
\* the holes of R; an RTO is one of them.  Timers are longer than a round
\* trip, with at most MaxEarly exceptions.
PollBegin(e, R) ==
    /\ Live(e) /\ pc[e] = "app"
    /\ R # {} => "rto" \in Timers
    /\ early' = IF Premature(e, R) THEN early + 1 ELSE early
    /\ early' <= MaxEarly
    /\ \E expired, rto \in BOOLEAN, n \in {clock[e], clock[e] + 1} :
          /\ expired => \/ "timewait" \in Timers /\ conn[e].state = "TimeWait"
                        \/ "reaper" \in Timers /\ conn[e].state \in {"FinWait2", "CloseWait"}
          /\ rto => R # {}
          /\ n <= MaxClock[e]
          /\ \E r \in {on_tick(conn[e], [expired |-> expired, resend |-> R, rto |-> rto,
                                         persist |-> TRUE, keepalive |-> TRUE], n)} :
                conn' = [conn EXCEPT ![e] = r.tcb] /\ Sends(e, r.out, net)
          /\ clock' = [clock EXCEPT ![e] = n]
    /\ pc' = [pc EXCEPT ![e] = "poll"]
    /\ UNCHANGED << scenario, received, written, lost, dups >>

\* poll, second phase: on_segment for one datagram that is ready.
Ingest(e, i, dup) ==
    /\ Live(e) /\ pc[e] = "poll" /\ Ready(e, i, dup)
    /\ \E throttled \in Throttled :
       \E r \in {on_segment(conn[e], net[e][i], throttled, clock[e])} :
          /\ conn' = [conn EXCEPT ![e] = r.tcb]
          /\ received' = [received EXCEPT ![e] = @ \o r.data]
          /\ Sends(e, r.out, Left(e, i, dup))
    /\ UNCHANGED << written, pc, clock >>

\* poll, third phase: poll_transmit.
PollEnd(e) ==
    /\ Live(e) /\ pc[e] = "poll"
    /\ \E cwnd \in Cwnds :
       \E r \in {poll_transmit(conn[e], cwnd, clock[e])} :
          conn' = [conn EXCEPT ![e] = r.tcb] /\ Sends(e, r.out, net)
    /\ pc' = [pc EXCEPT ![e] = "app"]
    /\ UNCHANGED << scenario, received, written, clock, lost, dups, early >>

\* Has e's application closed its half?
HalfClosed(e) == conn[e].state \notin {"SynSent", "SynRcvd", "Established", "CloseWait"}

\* TcpStream::feed, in any state: bytes fed after close stay in send_buf.  The k-th
\* byte of a stream has value k.
Feed(e, n) ==
    /\ Live(e) /\ pc[e] = "app"
    /\ written[e] + n <= MaxWritten[e]
    /\ conn' = [conn EXCEPT ![e] = write(@, [i \in 1 .. n |-> written[e] + i])]
    /\ written' = [written EXCEPT ![e] = @ + n]
    /\ UNCHANGED << scenario, received, pc, clock, net, lost, dups, early >>

\* TcpStream::close.
Close(e) ==
    /\ Live(e) /\ pc[e] = "app" /\ e \in Closers
    /\ \E r \in {close(conn[e], clock[e])} :
          conn' = [conn EXCEPT ![e] = r.tcb] /\ Sends(e, r.out, net)
    /\ UNCHANGED << scenario, received, written, pc, clock, lost, dups, early >>

Next ==
    \E e \in Endpoint :
        \/ \E i \in DOMAIN net[e] : Lose(e, i)
        \/ \E i \in DOMAIN net[e], dup \in BOOLEAN : PollAccept(e, i, dup) \/ Ingest(e, i, dup)
        \/ Live(e) /\ \E R \in SUBSET Holes(conn[e].retx) : PollBegin(e, R)
        \/ PollEnd(e)
        \/ Feed(e, ChunkSize)
        \/ Close(e)

Spec == Init /\ [][Next]_vars

\* How many bytes an application may have written, in any scenario.
ByteCounts == UNION {1 .. Scenarios[s].written[e] : s \in Scenario, e \in Endpoint}

\* The k-th hole of e's queue, if there is one.
Hole(e, k) ==
    {s \in Holes(conn[e].retx) :
        Cardinality({t \in Holes(conn[e].retx) : before(t.start, s.start)}) = k - 1}

\* A datagram is ready for e; the timer of its k-th hole may elapse.
Arriving(e) == Live(e) /\ pc[e] = "poll" /\ net[e] # << >>

Overdue(e, k) ==
    /\ Live(e) /\ pc[e] = "app" /\ "rto" \in Timers /\ Hole(e, k) # {}
    /\ Premature(e, Hole(e, k)) => early < MaxEarly

\* That timer elapses, perhaps with others.
TimedOut(e, k) ==
    Live(e) /\ \E R \in SUBSET Holes(conn[e].retx) :
                 R # {} /\ Hole(e, k) \subseteq R /\ PollBegin(e, R)

(***************************************************************************)
(* Every stream is polled again and again, which is what poll's callers    *)
(* (read, flush, accept and the tests' loops) do; a datagram that is not   *)
(* lost is ready at some poll; the RTO of every hole elapses at some poll. *)
(* The last two are strong fairness, because an Ingest or a resend is      *)
(* possible only in its phase of poll, written with the guards Arriving    *)
(* and Overdue in place of ENABLED.  The applications and the faults have  *)
(* no fairness.                                                            *)
(***************************************************************************)
Fairness ==
    \A e \in Endpoint :
        /\ WF_vars(PollAccept(e, 1, FALSE))
        /\ WF_pc(Live(e) /\ pc[e] = "app" /\ pc' = [pc EXCEPT ![e] = "poll"])
        /\ WF_pc(pc[e] = "poll" /\ pc' = [pc EXCEPT ![e] = "app"])
        /\ <>[]~Arriving(e) \/ []<><<Ingest(e, 1, FALSE)>>_vars
        /\ \A k \in {1} \cup {n + 1 : n \in ByteCounts} :
              <>[]~Overdue(e, k) \/ []<><<TimedOut(e, k)>>_vars

FairSpec == Spec /\ Fairness

-----------------------------------------------------------------------------
(* Safety *)

\* Bytes e has put on the wire: written and no longer in send_buf.
OnWire(e) == IF Live(e) THEN written[e] - Len(conn[e].send_buf) ELSE 0

\* e knows the peer's sequence space.
Synced(e) == Live(e) /\ conn[e].state # "SynSent"

\* Position of sequence number x in the space that starts at e's ISN.
Pos(e, x) == wrapping_sub(x, Iss[e])

(***************************************************************************)
(* What one application reads is an exact prefix of what the other wrote:  *)
(* no byte lost, repeated, reordered or invented, whatever the network     *)
(* does (reassembly, retransmission, acknowledgement together).            *)
(***************************************************************************)
StreamIntegrity ==
    \A e \in Endpoint :
        /\ Len(received[e]) <= OnWire(Peer(e))
        /\ \A i \in DOMAIN received[e] : received[e][i] = i

(***************************************************************************)
(* SND.UNA of one side never passes RCV.NXT of the other, which never      *)
(* passes SND.NXT: nothing counts as acknowledged that was not received.   *)
(***************************************************************************)
SequenceAgreement ==
    \A e \in Endpoint : Synced(Peer(e)) =>
        /\ Pos(e, conn[e].una) <= Pos(e, conn[Peer(e)].rcv_nxt)
        /\ Pos(e, conn[Peer(e)].rcv_nxt) <= Pos(e, conn[e].nxt)

\* Does e hold x, delivered or buffered ahead of a gap?
Holds(e, x) ==
    LET off == wrapping_sub(x, conn[e].reasm.base)
    IN  \/ before(x, conn[e].rcv_nxt)
        \/ \E f \in conn[e].reasm.frags : off \in FragOffsets(f)

(***************************************************************************)
(* Reliability: everything sent that the peer does not hold yet is still   *)
(* in the sender's queue as a hole, so some timer can resend it: no SACK,  *)
(* fast retransmit, partial ACK or close may drop or hide it.              *)
(***************************************************************************)
NothingForgotten ==
    \A e \in Endpoint :
        Live(e) /\ conn[e].state # "Closed" /\ Synced(Peer(e)) =>
            \A p \in Pos(e, conn[Peer(e)].rcv_nxt) .. Pos(e, conn[e].nxt) - 1 :
                LET x == wrapping_add(Iss[e], p)
                IN  Holds(Peer(e), x) \/ \E s \in Holes(conn[e].retx) : x \in SeqsOf(s)

(***************************************************************************)
(* The end of the stream is seen only when all of it has been received,    *)
(* and our FIN counts as acknowledged (FIN_WAIT_2, TIME_WAIT) only once    *)
(* the peer has seen the end.                                              *)
(***************************************************************************)
EofIsComplete ==
    \A e \in Endpoint : Live(e) =>
        /\ conn[e].peer_fin => HalfClosed(Peer(e)) /\ Len(received[e]) = OnWire(Peer(e))
        /\ conn[e].state \in {"FinWait2", "TimeWait"} => conn[Peer(e)].peer_fin

(***************************************************************************)
(* PAWS (RFC 7323 section 5) never stands in the way of reliability: no    *)
(* queued segment that the peer still needs is older than its TS.Recent,   *)
(* although retransmissions carry their original timestamp.                *)
(***************************************************************************)
PawsSparesNeeded ==
    \A e \in Endpoint : Live(e) /\ Live(Peer(e)) /\ conn[Peer(e)].state \in SendOpen =>
        \A s \in conn[e].retx :
            "TS" \in s.pkt.opts /\ ~before(s.start, conn[Peer(e)].rcv_nxt)
                => ~before(s.pkt.tsval, conn[Peer(e)].ts_recent)

-----------------------------------------------------------------------------
(* Liveness *)

\* Whatever is lost, the handshake completes on both sides.
HandshakeCompletes ==
    <>(\A e \in Endpoint : Live(e) /\ conn[e].state \notin {"SynSent", "SynRcvd"})

(***************************************************************************)
(* Every byte put on the wire reaches the other application, also when the *)
(* sender has closed in the meantime, and so does the end of the stream.   *)
(***************************************************************************)
EverythingArrives ==
    \A e \in Endpoint :
        /\ \A n \in ByteCounts : OnWire(e) >= n ~> Len(received[Peer(e)]) >= n
        /\ Live(e) /\ HalfClosed(e) ~> Live(Peer(e)) /\ conn[Peer(e)].peer_fin

(***************************************************************************)
(* If nothing is lost, then once both applications have closed neither     *)
(* connection stays half open: each reaches TIME_WAIT or CLOSED, in        *)
(* whatever order the FINs and their ACKs cross.                           *)
(***************************************************************************)
TeardownCompletes ==
    [](lost = 0) =>
        ((\A e \in Endpoint : Live(e) /\ HalfClosed(e))
            ~> (\A e \in Endpoint : Live(e) /\ conn[e].state \in {"TimeWait", "Closed"}))

(***************************************************************************)
(* The job the documentation gives TIME_WAIT: the peer's FIN, resent       *)
(* because our last ACK was lost, is acknowledged again, so a peer in      *)
(* LAST_ACK gets to CLOSED.                                                *)
(***************************************************************************)
TimeWaitReAcks ==
    \A e \in Endpoint :
        (/\ Live(e) /\ conn[e].state = "LastAck"
         /\ Live(Peer(e)) /\ conn[Peer(e)].state = "TimeWait") ~> Live(e) /\ conn[e].state = "Closed"

-----------------------------------------------------------------------------
BS == INSTANCE ByteStream WITH
        Side     <- Endpoint,
        sent     <- [e \in Endpoint |-> OnWire(e)],
        received <- [e \in Endpoint |-> Len(received[e])],
        ended    <- [e \in Endpoint |-> Live(e) /\ HalfClosed(e)],
        eof      <- [e \in Endpoint |-> Live(e) /\ conn[e].peer_fin]

\* The pair implements a reliable byte stream each way.
ImplementsByteStream == BS!Spec

=============================================================================
