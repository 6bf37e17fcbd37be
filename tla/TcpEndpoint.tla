---------------------------- MODULE TcpEndpoint ----------------------------
(***************************************************************************)
(* One connection of src/tcp.rs against an arbitrary peer: any segment the *)
(* peer may send arrives at any moment, duplicated, reordered, stale,      *)
(* or never sent by an honest peer at all; timers elapse at any moment;    *)
(* the application writes, sets options and closes at will.                *)
(*                                                                         *)
(* What a connection guarantees by itself, whoever it talks to, is stated  *)
(* here; TcpPair composes two of them.                                     *)
(***************************************************************************)
EXTENDS Connection

CONSTANTS
    Isns,        \* initial send sequence numbers (random in the code)
    Stamps,      \* values of our timestamp clock
    Cwnds,       \* values of the congestion window
    Chunks,      \* what the application may write at once
    MaxRcvd,     \* bound on RCV.NXT's distance from the first data byte
    Peers        \* Peers[p]: what peer p may send and the application may do

ASSUME EndpointAssumption ==
    /\ Isns \subseteq SeqNum
    /\ Stamps \subseteq SeqNum
    /\ Cwnds \subseteq Nat
    /\ Chunks \subseteq Seq(Byte)
    /\ MaxRcvd \in Nat
    /\ \A p \in DOMAIN Peers :
          /\ Peers[p].incoming \subseteq Segment
          /\ Peers[p].throttled \subseteq BOOLEAN
          /\ Peers[p].settings \subseteq {"nodelay", "keepalive"}
          /\ Peers[p].written \in Nat

VARIABLES
    peer,      \* the peer and the application of this behaviour, chosen in Init
    conn,      \* the connection
    written    \* bytes the application has written so far

vars == << peer, conn, written >>

Incoming == Peers[peer].incoming      \* the segments that may arrive
Throttled == Peers[peer].throttled    \* outcomes of the challenge-ACK budget: TRUE when it is spent
Settings == Peers[peer].settings      \* the socket options the application may change
MaxWritten == Peers[peer].written     \* bound on the bytes the application writes

TypeOK ==
    /\ peer \in DOMAIN Peers
    /\ conn \in Connection
    /\ IsFiniteSet(conn.reasm.frags)
    /\ written \in Nat

Init ==
    /\ peer \in DOMAIN Peers
    /\ \E iss \in Isns, now \in Stamps, s \in Incoming :
          \/ conn = connect(iss, now).tcb
          \/ "SYN" \in s.flags /\ conn = accept(s, iss, now).tcb
          \/ conn = from_syn_cookie(s.seq, iss)
    /\ written = 0

\* on_segment
Receive ==
    \E s \in Incoming, throttled \in Throttled, now \in Stamps :
        /\ wrapping_sub(conn.rcv_nxt, conn.reasm.base) < MaxRcvd
        /\ conn' = on_segment(conn, s, throttled, now).tcb
        /\ UNCHANGED << peer, written >>

\* on_tick: an RTO resends at least one hole.
Tick ==
    \E now \in Stamps, expired, persist, keepalive, rto \in BOOLEAN :
    \E R \in SUBSET Holes(conn.retx) :
        /\ rto => R # {}
        /\ conn' = on_tick(conn, [expired |-> expired, resend |-> R, rto |-> rto,
                                  persist |-> persist, keepalive |-> keepalive], now).tcb
        /\ UNCHANGED << peer, written >>

\* poll_transmit
Transmit ==
    \E cwnd \in Cwnds, now \in Stamps :
        /\ conn' = poll_transmit(conn, cwnd, now).tcb
        /\ UNCHANGED << peer, written >>

Write ==
    \E data \in Chunks :
        /\ written + Len(data) <= MaxWritten
        /\ conn' = write(conn, data)
        /\ written' = written + Len(data)
        /\ UNCHANGED peer

Close ==
    \E now \in Stamps :
        /\ conn' = close(conn, now).tcb
        /\ UNCHANGED << peer, written >>

SetNodelay ==
    \E on \in BOOLEAN :
        /\ "nodelay" \in Settings
        /\ conn' = set_nodelay(conn, on)
        /\ UNCHANGED << peer, written >>

SetKeepalive ==
    \E on \in BOOLEAN :
        /\ "keepalive" \in Settings
        /\ conn' = set_keepalive(conn, on)
        /\ UNCHANGED << peer, written >>

Next == Receive \/ Tick \/ Transmit \/ Write \/ Close \/ SetNodelay \/ SetKeepalive

Spec == Init /\ [][Next]_vars

-----------------------------------------------------------------------------
(* Properties *)

Flight == {wrapping_add(conn.una, i) : i \in 0 .. flight_size(conn) - 1}

(***************************************************************************)
(* The retransmission queue is what is in flight. Every sequence number    *)
(* between SND.UNA and SND.NXT is covered by an entry as long as our half  *)
(* is not finished, so no byte, SYN or FIN that is unacknowledged can be   *)
(* forgotten, whatever mix of ACKs, SACKs and timers has been seen; the    *)
(* entries are disjoint; and in the states that process ACKs in full none  *)
(* lies wholly below SND.UNA or above SND.NXT.                             *)
(***************************************************************************)
FlightIsQueued ==
    /\ conn.state \notin {"FinWait2", "TimeWait", "Closed"}
          => Flight \subseteq UNION {SeqsOf(s) : s \in conn.retx}
    /\ \A s, t \in conn.retx : s # t => SeqsOf(s) \cap SeqsOf(t) = {}
    /\ conn.state \in SendOpen \cup {"SynSent", "SynRcvd"}
          => \A s \in conn.retx : SeqsOf(s) \cap Flight # {} /\ wrapping_sub(s.end, 1) \in Flight

(***************************************************************************)
(* The state name agrees with the two facts it stands for: the peer's FIN  *)
(* taken in (peer_fin) and our FIN out, unacknowledged and still queued.   *)
(***************************************************************************)
StateMeansFins ==
    /\ conn.state # "Closed" =>
          (conn.peer_fin <=> conn.state \in {"CloseWait", "LastAck", "Closing", "TimeWait"})
    /\ conn.state \in {"FinWait1", "Closing", "LastAck"} =>
          \E s \in conn.retx : "FIN" \in s.pkt.flags /\ s.end = conn.nxt

(***************************************************************************)
(* After our FIN is out the send side is final: SND.NXT does not move and  *)
(* nothing new is queued for retransmission (close, poll_transmit and the  *)
(* persist probe all refuse).                                              *)
(***************************************************************************)
NothingAfterFin ==
    [][conn.state \in {"FinWait1", "FinWait2", "Closing", "LastAck", "TimeWait", "Closed"}
          => /\ conn'.nxt = conn.nxt
             /\ \A s \in conn'.retx : \E t \in conn.retx : s.start = t.start /\ s.pkt = t.pkt]_vars

(***************************************************************************)
(* SND.UNA only moves forward and never past SND.NXT: the sequence         *)
(* bookkeeping is safe from any ACK the peer can invent.                   *)
(***************************************************************************)
UnaAdvances ==
    [][conn'.una = conn.una \/ between(conn.una, conn'.una, conn.nxt)]_vars

SendsData == Len(conn'.send_buf) < Len(conn.send_buf) /\ conn.wnd > 0

(***************************************************************************)
(* "Track the peer's advertised receive window so we never send more       *)
(* unacknowledged data than it can hold": a step that takes bytes from     *)
(* send_buf leaves at most SND.WND in flight (a zero-window probe apart).  *)
(***************************************************************************)
WindowRespected == [][SendsData => flight_size(conn') <= conn.wnd]_vars

(***************************************************************************)
(* The same promise outside SACK recovery, where poll_transmit bounds new  *)
(* data by FlightSize.                                                     *)
(***************************************************************************)
WindowRespectedOutsideRecovery ==
    [][SendsData /\ ~(conn.sack_ok /\ conn.in_recovery)
          => flight_size(conn') <= conn.wnd]_vars

\* The ten states as the two halves of HalfClose.
Ours == CASE conn.state \in {"SynSent", "SynRcvd"} -> "opening"
          [] conn.state \in SendOpen -> "open"
          [] conn.state \in {"FinWait1", "Closing", "LastAck"} -> "closing"
          [] conn.state \in {"FinWait2", "TimeWait"} -> "closed"
          [] conn.state = "Closed" -> "gone"

HC == INSTANCE HalfClose WITH ours <- Ours, theirs <- conn.peer_fin

\* The connection implements two halves that close independently.
HalvesCloseIndependently == HC!Spec

=============================================================================
