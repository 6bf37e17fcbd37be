------------------------- MODULE TcpEndpointProofs -------------------------
(***************************************************************************)
(* Theorems about one connection against an arbitrary peer, for every      *)
(* value of the constants: its state stays well typed, the state names     *)
(* mean what they say, the two halves close independently, nothing follows *)
(* a FIN, SND.UNA only advances, outside SACK recovery the peer's window   *)
(* is respected, and the retransmission queue is what is in flight.        *)
(*                                                                         *)
(* One argument serves the teardown theorems.  Effect(c, d) says what a    *)
(* single method may do to the state, to the peer's FIN, to SND.UNA and    *)
(* SND.NXT and to the retransmission queue; a lemma per method             *)
(* (ConnectionProofs) shows that it does no more, and the properties       *)
(* follow from Effect alone.  Another serves the queue: Queued(c) places   *)
(* its entries on the circle, and again a lemma per method keeps it.       *)
(***************************************************************************)
EXTENDS TcpEndpoint, ConnectionProofs, Arithmetic

-----------------------------------------------------------------------------
(* The type invariant *)

\* Every new connection is well typed.
LEMMA InitType == Init => TypeOK
<1> SUFFICES ASSUME Init PROVE TypeOK
  OBVIOUS
<1>1. PICK iss \in Isns, now \in Stamps, s \in Incoming :
         \/ conn = connect(iss, now).tcb
         \/ conn = accept(s, iss, now).tcb
         \/ conn = from_syn_cookie(s.seq, iss)
  BY DEF Init
<1>2. /\ peer \in DOMAIN Peers
      /\ iss \in SeqNum /\ now \in SeqNum /\ s \in Segment /\ s.seq \in SeqNum
  BY EndpointAssumption, SegmentFields DEF Init, Incoming
<1>3. ConnOK(conn)
  BY <1>1, <1>2, ConnectType, AcceptType, CookieType
<1> QED BY <1>3 DEF Init, TypeOK, ConnOK

\* Every step keeps it well typed.
LEMMA NextType == TypeOK /\ [Next]_vars => TypeOK'
<1> SUFFICES ASSUME TypeOK, [Next]_vars PROVE TypeOK'
  OBVIOUS
<1> USE DEF TypeOK
<1>0. ConnOK(conn)
  BY DEF ConnOK
<1>1. CASE Receive
  <2>1. PICK s \in Incoming, throttled \in Throttled, now \in Stamps :
           conn' = on_segment(conn, s, throttled, now).tcb /\ UNCHANGED << peer, written >>
    BY <1>1 DEF Receive
  <2>2. s \in Segment /\ throttled \in BOOLEAN /\ now \in SeqNum
    BY EndpointAssumption DEF Incoming, Throttled
  <2>3. ConnOK(conn')
    BY <1>0, <2>1, <2>2, OnSegmentType
  <2> QED BY <2>1, <2>3 DEF ConnOK
<1>2. CASE Tick
  <2>1. PICK now \in Stamps, expired \in BOOLEAN, persist \in BOOLEAN, keepalive \in BOOLEAN,
             rto \in BOOLEAN, R \in SUBSET Holes(conn.retx) :
           /\ conn' = on_tick(conn, [expired |-> expired, resend |-> R, rto |-> rto,
                                     persist |-> persist, keepalive |-> keepalive], now).tcb
           /\ UNCHANGED << peer, written >>
    BY <1>2 DEF Tick
  <2>2. R \in SUBSET conn.retx
    BY DEF Holes
  <2> DEFINE t == [expired |-> expired, resend |-> R, rto |-> rto,
                   persist |-> persist, keepalive |-> keepalive]
  <2>3. t.resend \in SUBSET conn.retx /\ t.rto \in BOOLEAN /\ now \in SeqNum
    BY <2>2, EndpointAssumption
  <2>4. ConnOK(conn')
    <3> HIDE DEF t
    <3>1. ConnOK(on_tick(conn, t, now).tcb)
      BY <1>0, <2>3, OnTickType
    <3> QED BY <2>1, <3>1 DEF t
  <2> QED BY <2>1, <2>4 DEF ConnOK
<1>3. CASE Transmit
  <2>1. PICK cwnd \in Cwnds, now \in Stamps :
           conn' = poll_transmit(conn, cwnd, now).tcb /\ UNCHANGED << peer, written >>
    BY <1>3 DEF Transmit
  <2>2. ConnOK(conn')
    BY <1>0, <2>1, PollTransmitType, EndpointAssumption
  <2> QED BY <2>1, <2>2 DEF ConnOK
<1>4. CASE Write
  <2>1. PICK data \in Chunks : /\ conn' = write(conn, data) /\ written' = written + Len(data)
                               /\ UNCHANGED peer
    BY <1>4 DEF Write
  <2>2. data \in Seq(Byte) /\ Len(data) \in Nat
    BY EndpointAssumption, LenProperties
  <2> DEFINE buf == conn.send_buf \o data
  <2>3. buf \in Seq(Byte)
    BY <2>2, ConcatProperties DEF Connection
  <2>4. conn' = [conn EXCEPT !.send_buf = buf]
    BY <2>1 DEF write
  <2> HIDE DEF buf
  <2>5. conn' \in Connection /\ IsFiniteSet(conn'.reasm.frags)
    BY <2>3, <2>4 DEF Connection
  <2>6. written' \in Nat
    BY <2>1, <2>2
  <2> QED BY <2>1, <2>5, <2>6
<1>5. CASE Close
  <2>1. PICK now \in Stamps : conn' = close(conn, now).tcb /\ UNCHANGED << peer, written >>
    BY <1>5 DEF Close
  <2>2. ConnOK(conn')
    BY <1>0, <2>1, CloseType, EndpointAssumption
  <2> QED BY <2>1, <2>2 DEF ConnOK
<1>6. CASE SetNodelay
  BY <1>6 DEF SetNodelay, set_nodelay, Connection
<1>7. CASE SetKeepalive
  BY <1>7 DEF SetKeepalive, set_keepalive, Connection
<1>8. CASE UNCHANGED vars
  BY <1>8 DEF vars
<1> QED BY <1>1, <1>2, <1>3, <1>4, <1>5, <1>6, <1>7, <1>8 DEF Next

(***************************************************************************)
(* Every operation of the connection keeps its state well typed, for every *)
(* circle, window, MSS and peer: sequence numbers stay on the circle, the  *)
(* duplicate-ACK counter and the keepalive counter within their limits.    *)
(***************************************************************************)
THEOREM TypeCorrect == Spec => []TypeOK
BY InitType, NextType, PTL DEF Spec

-----------------------------------------------------------------------------
(* Steps of the endpoint *)

\* Every step of the endpoint has an Effect.
LEMMA NextEffect == TypeOK /\ [Next]_vars => Effect(conn, conn')
<1> SUFFICES ASSUME TypeOK, [Next]_vars PROVE Effect(conn, conn')
  OBVIOUS
<1>0. ConnOK(conn)
  BY DEF ConnOK, TypeOK
<1>1. CASE Receive
  <2>1. PICK s \in Incoming, throttled \in Throttled, now \in Stamps :
           conn' = on_segment(conn, s, throttled, now).tcb
    BY <1>1 DEF Receive
  <2>2. s \in Segment /\ throttled \in BOOLEAN /\ now \in SeqNum
    BY EndpointAssumption DEF TypeOK, Incoming, Throttled
  <2> QED BY <1>0, <2>1, <2>2, OnSegmentEffect
<1>2. CASE Tick
  <2>1. PICK now \in Stamps, expired \in BOOLEAN, persist \in BOOLEAN, keepalive \in BOOLEAN,
             rto \in BOOLEAN, R \in SUBSET Holes(conn.retx) :
           conn' = on_tick(conn, [expired |-> expired, resend |-> R, rto |-> rto,
                                  persist |-> persist, keepalive |-> keepalive], now).tcb
    BY <1>2, ZenonT(40) DEF Tick
  <2>2. R \in SUBSET conn.retx
    BY DEF Holes
  <2> DEFINE t == [expired |-> expired, resend |-> R, rto |-> rto,
                   persist |-> persist, keepalive |-> keepalive]
  <2>3. t.resend \in SUBSET conn.retx /\ t.rto \in BOOLEAN /\ now \in SeqNum
    BY <2>2, EndpointAssumption
  <2>4. conn' = on_tick(conn, t, now).tcb
    BY <2>1
  <2> HIDE DEF t
  <2> QED BY <1>0, <2>3, <2>4, OnTickEffect
<1>3. CASE Transmit
  BY <1>0, <1>3, PollTransmitEffect DEF Transmit
<1>4. CASE Write
  <2>1. PICK data \in Chunks : conn' = [conn EXCEPT !.send_buf = @ \o data]
    BY <1>4 DEF Write, write
  <2>2. Still(conn, conn')
    BY <1>0, <2>1, WithinReflexive DEF Still, ConnOK, Connection
  <2> QED BY <2>2, StillEffect
<1>5. CASE Close
  BY <1>0, <1>5, CloseEffect DEF Close
<1>6. CASE SetNodelay
  <2>1. Still(conn, conn')
    BY <1>0, <1>6, WithinReflexive DEF SetNodelay, set_nodelay, Still, ConnOK, Connection
  <2> QED BY <2>1, StillEffect
<1>7. CASE SetKeepalive
  <2>1. Still(conn, conn')
    BY <1>0, <1>7, WithinReflexive DEF SetKeepalive, set_keepalive, Still, ConnOK, Connection
  <2> QED BY <2>1, StillEffect
<1>8. CASE UNCHANGED vars
  BY <1>8, SameEffect DEF vars
<1> QED BY <1>1, <1>2, <1>3, <1>4, <1>5, <1>6, <1>7, <1>8 DEF Next

\* While the handshake runs exactly our SYN is in flight.
SynInFlight == conn.state \in Opening => conn.nxt = wrapping_add(conn.una, 1)

TeardownInv == StateMeansFins /\ SynInFlight

\* Queueing a packet moves SND.NXT past it and changes no state.
LEMMA SentFields ==
    ASSUME NEW c, ConnOK(c), NEW start, NEW len, NEW pkt
    PROVE  LET d == Sent(c, start, len, pkt)
           IN  /\ d.state = c.state /\ d.una = c.una /\ d.peer_fin = c.peer_fin
               /\ d.nxt = wrapping_add(start, len)
BY DEF Sent, ConnOK, Connection

\* Every constructor leaves a connection that neither side has closed.
LEMMA InitFields ==
    Init => /\ conn.state \in Opening \cup {"Established"} /\ conn.peer_fin = FALSE
            /\ SynInFlight
<1> SUFFICES ASSUME Init
             PROVE  /\ conn.state \in Opening \cup {"Established"} /\ conn.peer_fin = FALSE
                    /\ SynInFlight
  OBVIOUS
<1>1. PICK iss \in Isns, now \in Stamps, s \in Incoming :
         \/ conn = connect(iss, now).tcb
         \/ conn = accept(s, iss, now).tcb
         \/ conn = from_syn_cookie(s.seq, iss)
  BY DEF Init
<1>2. /\ iss \in SeqNum /\ now \in SeqNum /\ s.seq \in SeqNum /\ s.tsval \in SeqNum
      /\ s.opts \in SUBSET Option /\ 0 \in SeqNum
  BY EndpointAssumption, SegmentFields, SeqNumInt DEF Init, Incoming, Segment
<1>3. CASE conn = connect(iss, now).tcb
  <2> DEFINE c   == NewConnection("SynSent", iss, iss, 0, {}, 0)
             syn == [segment(c, iss, 0, {"SYN"}, << >>, now) EXCEPT
                        !.opts = Option, !.tsval = now]
  <2>1. ConnOK(c)
    BY <1>2, NewConnectionType DEF State
  <2>2. c.state = "SynSent" /\ c.una = iss /\ c.peer_fin = FALSE
    BY DEF NewConnection
  <2>3. conn = Sent(c, iss, 1, syn)
    BY <1>3 DEF connect, Result
  <2> HIDE DEF c, syn
  <2> QED BY <2>1, <2>2, <2>3, SentFields DEF Opening, SynInFlight
<1>4. CASE conn = accept(s, iss, now).tcb
  <2> DEFINE c == NewConnection("SynRcvd", iss, iss, wrapping_add(s.seq, 1), s.opts, s.tsval)
             synack == [segment(c, iss, c.rcv_nxt, {"SYN", "ACK"}, << >>, now) EXCEPT
                           !.opts = s.opts]
  <2>1. ConnOK(c)
    <3>1. wrapping_add(s.seq, 1) \in SeqNum /\ "SynRcvd" \in State
      BY <1>2, AddType DEF State
    <3> QED BY <1>2, <3>1, NewConnectionType
  <2>2. c.state = "SynRcvd" /\ c.una = iss /\ c.peer_fin = FALSE
    BY DEF NewConnection
  <2>3. conn = Sent(c, iss, 1, synack)
    BY <1>4 DEF accept, Result
  <2> HIDE DEF c, synack
  <2> QED BY <2>1, <2>2, <2>3, SentFields DEF Opening, SynInFlight
<1>5. CASE conn = from_syn_cookie(s.seq, iss)
  BY <1>5 DEF from_syn_cookie, NewConnection, Opening, SynInFlight
<1> QED BY <1>1, <1>3, <1>4, <1>5

\* The invariant holds of every new connection.
LEMMA InitTeardown == Init => TeardownInv
BY InitFields DEF TeardownInv, StateMeansFins, Opening

\* An Effect keeps the meaning of the state names.
LEMMA NextTeardown == TypeOK /\ TeardownInv /\ [Next]_vars => TeardownInv'
<1> SUFFICES ASSUME TypeOK, TeardownInv, [Next]_vars PROVE TeardownInv'
  OBVIOUS
<1>1. Effect(conn, conn')
  BY NextEffect
<1>2. conn.state \in State /\ conn.peer_fin \in BOOLEAN
  BY DEF TypeOK, Connection
<1>3. SynInFlight'
  <2>1. conn'.state \in Opening => conn.state \in Opening
    BY <1>1 DEF Effect, Moves, Opening
  <2> QED BY <1>1, <2>1 DEF Effect, TeardownInv, SynInFlight
<1>4. conn'.state # "Closed" =>
         (conn'.peer_fin <=> conn'.state \in {"CloseWait", "LastAck", "Closing", "TimeWait"})
  BY <1>1, <1>2 DEF Effect, Moves, TeardownInv, StateMeansFins, Opening, State
<1>5. ASSUME conn'.state \in FinPending PROVE FinQueued(conn')
  <2>1. CASE conn.state \in FinPending
    <3>1. FinQueued(conn)
      BY <2>1 DEF TeardownInv, StateMeansFins, FinPending, FinQueued
    <3>2. conn'.nxt = conn.nxt /\ Within(conn.retx, conn'.retx)
      BY <1>1, <1>5, <2>1 DEF Effect, FinOut
    <3> QED BY <3>1, <3>2 DEF FinQueued, Within
  <2>2. CASE conn.state \notin FinPending
    BY <1>1, <1>5, <2>2 DEF Effect
  <2> QED BY <2>1, <2>2
<1> QED BY <1>3, <1>4, <1>5 DEF TeardownInv, StateMeansFins, FinPending, FinQueued

\* The inductive invariant holds throughout.
LEMMA TeardownHolds == Spec => [](TypeOK /\ TeardownInv)
<1>1. Init => TypeOK /\ TeardownInv
  BY InitType, InitTeardown
<1>2. TypeOK /\ TeardownInv /\ [Next]_vars => TypeOK' /\ TeardownInv'
  BY NextType, NextTeardown
<1> QED BY <1>1, <1>2, PTL DEF Spec

-----------------------------------------------------------------------------
(* Theorems *)

(***************************************************************************)
(* Against any peer, with any timers, the state name tells whether the     *)
(* peer's FIN has been taken in, and while our FIN is unacknowledged it    *)
(* sits at the end of the retransmission queue.                            *)
(***************************************************************************)
THEOREM StateMeansFinsHolds == Spec => []StateMeansFins
BY TeardownHolds, PTL DEF TeardownInv

(***************************************************************************)
(* Once our FIN is out no segment, timer, write or second close moves      *)
(* SND.NXT or queues anything new.                                         *)
(***************************************************************************)
THEOREM NothingAfterFinHolds == Spec => NothingAfterFin
<1> DEFINE Step == conn.state \in {"FinWait1", "FinWait2", "Closing", "LastAck", "TimeWait", "Closed"}
                      => /\ conn'.nxt = conn.nxt
                         /\ \A s \in conn'.retx : \E t \in conn.retx :
                               s.start = t.start /\ s.pkt = t.pkt
<1>1. TypeOK /\ [Next]_vars => Step
  BY NextEffect DEF Effect, FinOut, FinPending, Within
<1>2. TypeOK /\ [Next]_vars => [Step]_vars
  BY <1>1
<1> HIDE DEF Step
<1>3. Spec => [][Step]_vars
  BY <1>2, TypeCorrect, PTL DEF Spec
<1> QED BY <1>3 DEF Step, NothingAfterFin

\* From SND.UNA to SND.UNA + 1 is an advance.
LEMMA NextIsAfter ==
    ASSUME NEW a \in SeqNum
    PROVE  between(a, wrapping_add(a, 1), wrapping_add(a, 1))
<1> DEFINE b == wrapping_add(a, 1)
<1>1. SeqMod \in Nat /\ SeqMod > 1 /\ SeqMod = 2 * Half /\ Half \in Nat /\ Half > 0
  BY SeqModType, HalfAssumption DEF SeqMod
<1>2. a \in Int /\ 0 <= a /\ a <= SeqMod - 1
  BY <1>1 DEF SeqNum
<1>3. b \in SeqNum
  BY AddType
<1>4. (b = a + 1 /\ a + 1 < SeqMod) \/ (b = 0 /\ a = SeqMod - 1)
  BY <1>1, <1>2 DEF wrapping_add
<1> HIDE DEF b
<1>5. wrapping_sub(a, b) = SeqMod - 1
  BY <1>1, <1>2, <1>4 DEF wrapping_sub
<1>6. wrapping_sub(b, b) = 0
  BY <1>1, <1>2, <1>4 DEF wrapping_sub
<1>7. between(a, b, b)
  BY <1>1, <1>5, <1>6 DEF between, after, before
<1> QED BY <1>7 DEF b

(***************************************************************************)
(* Whatever acknowledgement numbers arrive, SND.UNA stays or moves forward *)
(* to a number not beyond SND.NXT.                                         *)
(***************************************************************************)
THEOREM UnaAdvancesHolds == Spec => UnaAdvances
<1> DEFINE Step == conn'.una = conn.una \/ between(conn.una, conn'.una, conn.nxt)
<1>1. TypeOK /\ TeardownInv /\ [Next]_vars => Step
  <2> SUFFICES ASSUME TypeOK, TeardownInv, [Next]_vars PROVE Step
    OBVIOUS
  <2>1. UnaMoves(conn, conn')
    BY NextEffect DEF Effect
  <2>2. CASE conn.state \in Opening /\ conn'.una = conn.nxt
    <3>1. conn.una \in SeqNum /\ conn.nxt = wrapping_add(conn.una, 1)
      BY <2>2 DEF TypeOK, Connection, TeardownInv, SynInFlight
    <3> QED BY <2>2, <3>1, NextIsAfter
  <2> QED BY <2>1, <2>2 DEF UnaMoves
<1>2. TypeOK /\ TeardownInv /\ [Next]_vars => [Step]_vars
  BY <1>1
<1> HIDE DEF Step
<1>3. Spec => [][Step]_vars
  BY <1>2, TeardownHolds, PTL DEF Spec
<1> QED BY <1>3 DEF Step, UnaAdvances

\* An edge of the state diagram closes at most one step of each half.
LEMMA NextHalves ==
    TypeOK /\ TypeOK' /\ TeardownInv /\ [Next]_vars => [HC!Next]_(HC!vars)
<1> SUFFICES ASSUME TypeOK, TypeOK', TeardownInv, [Next]_vars PROVE [HC!Next]_(HC!vars)
  OBVIOUS
<1>1. Moves(conn, conn')
  BY NextEffect DEF Effect
<1>2. conn.state \in State /\ conn'.state \in State /\ conn.peer_fin \in BOOLEAN
  BY DEF TypeOK, Connection
<1>3. conn.state # "Closed" =>
         (conn.peer_fin <=> conn.state \in {"CloseWait", "LastAck", "Closing", "TimeWait"})
  BY DEF TeardownInv, StateMeansFins
<1>4. /\ conn.state \in Opening => Ours = "opening"
      /\ conn.state \in SendOpen => Ours = "open"
      /\ conn.state \in FinPending => Ours = "closing"
      /\ conn.state \in {"FinWait2", "TimeWait"} => Ours = "closed"
      /\ conn.state = "Closed" => Ours = "gone"
  BY DEF Ours, Opening, SendOpen, FinPending
<1>5. /\ conn'.state \in Opening => Ours' = "opening"
      /\ conn'.state \in SendOpen => Ours' = "open"
      /\ conn'.state \in FinPending => Ours' = "closing"
      /\ conn'.state \in {"FinWait2", "TimeWait"} => Ours' = "closed"
      /\ conn'.state = "Closed" => Ours' = "gone"
  BY DEF Ours, Opening, SendOpen, FinPending
<1>6. CASE conn'.state = conn.state /\ conn'.peer_fin = conn.peer_fin
  BY <1>6 DEF HC!vars, Ours
<1>7. CASE conn'.state = "Closed" /\ conn'.peer_fin = conn.peer_fin
  BY <1>2, <1>4, <1>5, <1>7
     DEF HC!Next, HC!Vanish, HC!vars, State, Opening, SendOpen, FinPending
<1>8. CASE conn.state \in Opening
  BY <1>1, <1>4, <1>5, <1>7, <1>6, <1>2, <1>8
     DEF Moves, HC!Next, HC!Open, Opening, SendOpen
<1>9. CASE conn.state \in SendOpen
  BY <1>1, <1>3, <1>4, <1>5, <1>6, <1>7, <1>9
     DEF Moves, HC!Next, HC!CloseOurs, HC!CloseTheirs, Opening, SendOpen, FinPending
<1>10. CASE conn.state \in FinPending \cup {"FinWait2"}
  <2>1. CASE conn.state = "LastAck"
    BY <1>1, <1>6, <1>7, <2>1 DEF Moves, Opening
  <2>2. CASE conn.state = "Closing" /\ conn'.state = "TimeWait" /\ conn'.peer_fin = conn.peer_fin
    BY <1>4, <1>5, <2>2 DEF HC!Next, HC!OursAcknowledged, FinPending
  <2>3. CASE conn.state = "FinWait1" /\ conn'.state = "FinWait2" /\ conn'.peer_fin = conn.peer_fin
    BY <1>4, <1>5, <2>3 DEF HC!Next, HC!OursAcknowledged, FinPending
  <2>4. CASE /\ conn.state \in {"FinWait1", "FinWait2"} /\ conn'.peer_fin = TRUE
             /\ conn'.state \in {"Closing", "TimeWait"}
             /\ conn.state = "FinWait2" => conn'.state = "TimeWait"
    <3>1. ~conn.peer_fin
      BY <1>3, <2>4
    <3>2. Ours \in {"closing", "closed"} /\ (Ours' = Ours \/ (Ours = "closing" /\ Ours' = "closed"))
      BY <1>4, <1>5, <2>4 DEF FinPending
    <3>3. HC!CloseTheirs
      BY <2>4, <3>1, <3>2 DEF HC!CloseTheirs
    <3> QED BY <3>3 DEF HC!Next
  <2> QED BY <1>1, <1>6, <1>7, <1>10, <2>1, <2>2, <2>3, <2>4 DEF Moves, Opening, FinPending
<1>11. CASE conn.state \in {"TimeWait", "Closed"}
  BY <1>1, <1>6, <1>7, <1>11 DEF Moves, Opening
<1> QED BY <1>2, <1>8, <1>9, <1>10, <1>11 DEF State, Opening, SendOpen, FinPending

(***************************************************************************)
(* The ten states implement two halves that close independently: initial   *)
(* states map to initial states of HalfClose and every step of the         *)
(* connection to a step of HalfClose or to no change.                      *)
(***************************************************************************)
THEOREM HalvesCloseIndependentlyHolds == Spec => HalvesCloseIndependently
<1>1. Init => HC!Init
  BY InitFields DEF HC!Init, Ours, Opening, SendOpen
<1>2. TypeOK /\ TypeOK' /\ TeardownInv /\ [Next]_vars => [HC!Next]_(HC!vars)
  BY NextHalves
<1> QED BY <1>1, <1>2, TeardownHolds, PTL DEF Spec, HalvesCloseIndependently, HC!Spec

-----------------------------------------------------------------------------
(* The peer's window *)

\* Sending n more brings what is in flight to at most n more, also where the circle is exceeded.
LEMMA FlightGrows ==
    ASSUME NEW a \in Int, NEW u \in Int, NEW n \in Nat
    PROVE  wrapping_sub(wrapping_add(a, n), u) <= wrapping_sub(a, u) + n
<1> DEFINE m == SeqMod
           r1 == (a + n) % m
           q1 == (a + n) \div m
           r2 == (r1 - u) % m
           q2 == (r1 - u) \div m
           r3 == (a - u) % m
           q3 == (a - u) \div m
<1>1. m \in Nat \ {0}
  BY SeqModType
<1>2. wrapping_sub(wrapping_add(a, n), u) = r2 /\ wrapping_sub(a, u) = r3
  BY DEF wrapping_add, wrapping_sub
<1> HIDE DEF m
<1>3. q1 \in Int /\ r1 \in 0 .. m - 1 /\ a + n = m * q1 + r1
  BY <1>1
<1> HIDE DEF r1, q1
<1>4. q2 \in Int /\ r2 \in 0 .. m - 1 /\ r1 - u = m * q2 + r2
  BY <1>1, <1>3
<1>5. q3 \in Int /\ r3 \in 0 .. m - 1 /\ a - u = m * q3 + r3
  BY <1>1
<1> HIDE DEF r2, q2, r3, q3
<1> DEFINE k == q3 - q1 - q2
<1>6. k \in Int /\ r2 = r3 + n + m * k
  BY <1>1, <1>3, <1>4, <1>5
<1> HIDE DEF k
<1>7. CASE k >= 1
  <2>1. m * k >= m
    BY <1>1, <1>6, <1>7
  <2> QED BY <1>1, <1>4, <1>5, <1>6, <2>1
<1>8. CASE k <= 0
  <2>1. m * k <= 0
    BY <1>1, <1>6, <1>8
  <2>2. m * k \in Int
    BY <1>1, <1>6
  <2>3. r2 <= r3 + n
    BY <1>4, <1>5, <1>6, <2>1, <2>2
  <2> QED BY <1>2, <2>3
<1> QED BY <1>6, <1>7, <1>8

\* What SendBytes does to the buffer and to FlightSize.
LEMMA SendBytesFlight ==
    ASSUME NEW c, ConnOK(c), NEW n \in Nat, NEW now
    PROVE  LET d == SendBytes(c, n, now).tcb
           IN  /\ flight_size(d) <= flight_size(c) + n
               /\ n = 0 => d.send_buf = c.send_buf
<1> DEFINE d == SendBytes(c, n, now).tcb
<1>1. /\ d.nxt = wrapping_add(c.nxt, n) /\ d.una = c.una
      /\ d.send_buf = SubSeq(c.send_buf, n + 1, Len(c.send_buf))
  BY DEF SendBytes, Result, ConnOK, Connection
<1>2. c.nxt \in Int /\ c.una \in Int /\ c.send_buf \in Seq(Byte)
  BY SeqNumInt DEF ConnOK, Connection
<1> HIDE DEF d
<1>3. flight_size(d) <= flight_size(c) + n
  BY <1>1, <1>2, FlightGrows DEF flight_size
<1>4. ASSUME n = 0 PROVE d.send_buf = c.send_buf
  <2>1. SubSeq(c.send_buf, 1, Len(c.send_buf)) = c.send_buf
    BY <1>2, SubSeqFull
  <2>2. n + 1 = 1
    BY <1>4
  <2> QED BY <1>1, <2>1, <2>2
<1> QED BY <1>3, <1>4 DEF d

\* Outside SACK recovery poll_transmit keeps FlightSize within SND.WND or sends nothing.
LEMMA PollTransmitWindow ==
    ASSUME NEW c, ConnOK(c), NEW cwnd \in Nat, NEW now, ~(c.sack_ok /\ c.in_recovery)
    PROVE  LET d == poll_transmit(c, cwnd, now).tcb
           IN  d.send_buf = c.send_buf \/ flight_size(d) <= c.wnd
<1> DEFINE n == Sendable(c, cwnd)
           w == usable_window(c, cwnd)
           e == SendBytes(c, n, now).tcb
<1>1. n \in Nat /\ n <= w /\ w \in Nat /\ (w = 0 \/ w + flight_size(c) <= c.wnd)
  BY SendableType, UsableWindowType
<1>2. flight_size(c) \in Nat /\ c.wnd \in Nat
  BY FlightType DEF ConnOK, Connection
<1> HIDE DEF n, w
<1>3. flight_size(e) <= flight_size(c) + n /\ (n = 0 => e.send_buf = c.send_buf)
  BY <1>1, SendBytesFlight
<1>4. flight_size(e) \in Int
  <2>1. e.nxt = wrapping_add(c.nxt, n) /\ e.una = c.una
    BY DEF SendBytes, Result, ConnOK, Connection
  <2>2. wrapping_add(c.nxt, n) \in Int /\ c.una \in Int
    <3>1. c.nxt \in SeqNum /\ c.una \in SeqNum /\ n \in Int
      BY <1>1 DEF ConnOK, Connection
    <3>2. wrapping_add(c.nxt, n) \in SeqNum
      BY <3>1, AddType
    <3> QED BY <3>1, <3>2, SeqNumInt
  <2>3. e.nxt - e.una \in Int
    BY <2>1, <2>2
  <2>4. (e.nxt - e.una) % SeqMod \in SeqNum
    BY <2>3, ModType
  <2> QED BY <2>4, SeqNumInt DEF flight_size, wrapping_sub
<1>5. poll_transmit(c, cwnd, now).tcb \in {c, e}
  BY DEF poll_transmit, Result, n
<1> HIDE DEF e
<1>6. n = 0 \/ flight_size(e) <= c.wnd
  BY <1>1, <1>2, <1>3, <1>4
<1> QED BY <1>3, <1>5, <1>6

\* Of the timers only the persist probe takes a byte, and only from behind a closed window.
LEMMA OnTickBuffer ==
    ASSUME NEW c, ConnOK(c), NEW t, t.resend \in SUBSET c.retx, t.rto \in BOOLEAN,
           NEW now \in SeqNum
    PROVE  on_tick(c, t, now).tcb.send_buf = c.send_buf \/ c.wnd = 0
<1> DEFINE c0 == Expire(c, t.expired)
           c1 == Retransmit(c0, t.resend, t.rto)
           p  == PersistTick(c1, t.persist, now)
           k  == KeepaliveTick(p.tcb, t.keepalive, now)
           Alike(d) == d.send_buf = c.send_buf /\ d.wnd = c.wnd
<1>1. ConnOK(c0) /\ c0.retx = c.retx
  BY ExpireQuiet
<1>2. Alike(c0)
  BY DEF Expire, ConnOK, Connection
<1>3. ConnOK(c1) /\ Alike(c1)
  <2> HIDE DEF c0
  <2>1. ConnOK(c1)
    BY <1>1, RetransmitType
  <2>2. Alike(c1)
    BY <1>1, <1>2 DEF Retransmit, ConnOK, Connection
  <2> QED BY <2>1, <2>2
<1>4. ConnOK(p.tcb) /\ (p.tcb.send_buf = c.send_buf \/ c.wnd = 0)
  <2> HIDE DEF c1
  <2>1. ConnOK(p.tcb)
    BY <1>3, PersistTickType
  <2>2. \/ c1.wnd = 0
        \/ \E b : p.tcb = [c1 EXCEPT !.persist = b]
    BY DEF PersistTick, Result
  <2> HIDE DEF p
  <2>3. p.tcb.send_buf = c1.send_buf \/ c1.wnd = 0
    BY <1>3, <2>2 DEF ConnOK, Connection
  <2> QED BY <1>3, <2>1, <2>3
<1>5. k.tcb.send_buf = p.tcb.send_buf
  <2> HIDE DEF p
  <2> QED BY <1>4 DEF KeepaliveTick, Result, ConnOK, Connection
<1>6. on_tick(c, t, now).tcb = k.tcb
  BY DEF on_tick, Result
<1> HIDE DEF p, k
<1> QED BY <1>4, <1>5, <1>6

\* No segment touches what the application has written and we have not sent.
LEMMA OnSegmentBuffer ==
    ASSUME NEW c, ConnOK(c), NEW s \in Segment, NEW throttled, NEW now
    PROVE  on_segment(c, s, throttled, now).tcb.send_buf = c.send_buf
<1>1. Kept(c)
  <2>1. DOMAIN c = Field
    BY DEF ConnOK, Connection, Field
  <2> QED BY <2>1 DEF ConnOK, Connection, Kept, ReasmOK
<1>2. CASE c.state # "SynSent"
  BY <1>1, <1>2, OnSegmentKeeps DEF Answers
<1>3. CASE c.state = "SynSent"
  <2> DEFINE c1 == [c EXCEPT !.keepalive_probes_sent = 0]
  <2>1. Kept(c1) /\ c1.send_buf = c.send_buf /\ c1.state = "SynSent"
    BY <1>1, <1>3 DEF Kept, Field
  <2>2. OnSynSent(c1, s, now).tcb.send_buf = c1.send_buf
    <3> HIDE DEF c1
    <3> QED BY <2>1 DEF OnSynSent, Result, Kept, Field
  <2>3. on_rst(c1, s, throttled, now).tcb.send_buf = c1.send_buf
    <3> HIDE DEF c1
    <3> QED BY <2>1, OnRstKeeps DEF Answers
  <2>4. on_segment(c, s, throttled, now) \in {on_rst(c1, s, throttled, now), OnSynSent(c1, s, now)}
    BY <2>1 DEF on_segment
  <2> HIDE DEF c1
  <2> QED BY <2>1, <2>2, <2>3, <2>4
<1> QED BY <1>2, <1>3

LEMMA NextWindow ==
    ASSUME TypeOK, [Next]_vars, SendsData, ~(conn.sack_ok /\ conn.in_recovery)
    PROVE  flight_size(conn') <= conn.wnd
<1>0. ConnOK(conn) /\ Len(conn.send_buf) \in Nat
  BY LenProperties DEF ConnOK, TypeOK, Connection
<1> SUFFICES conn'.send_buf = conn.send_buf \/ conn.wnd = 0 \/ flight_size(conn') <= conn.wnd
                \/ ~(Len(conn'.send_buf) < Len(conn.send_buf))
  BY <1>0 DEF SendsData
<1>1. CASE Receive
  <2>1. PICK s \in Incoming, throttled \in Throttled, now \in Stamps :
           conn' = on_segment(conn, s, throttled, now).tcb
    BY <1>1 DEF Receive
  <2>2. s \in Segment
    BY EndpointAssumption DEF TypeOK, Incoming
  <2> QED BY <1>0, <2>1, <2>2, OnSegmentBuffer
<1>2. CASE Tick
  <2>1. PICK now \in Stamps, expired \in BOOLEAN, persist \in BOOLEAN, keepalive \in BOOLEAN,
             rto \in BOOLEAN, R \in SUBSET Holes(conn.retx) :
           conn' = on_tick(conn, [expired |-> expired, resend |-> R, rto |-> rto,
                                  persist |-> persist, keepalive |-> keepalive], now).tcb
    BY <1>2, ZenonT(40) DEF Tick
  <2>2. R \in SUBSET conn.retx
    BY DEF Holes
  <2> DEFINE t == [expired |-> expired, resend |-> R, rto |-> rto,
                   persist |-> persist, keepalive |-> keepalive]
  <2>3. t.resend \in SUBSET conn.retx /\ t.rto \in BOOLEAN /\ now \in SeqNum
    BY <2>2, EndpointAssumption
  <2>4. conn' = on_tick(conn, t, now).tcb
    BY <2>1
  <2> HIDE DEF t
  <2> QED BY <1>0, <2>3, <2>4, OnTickBuffer
<1>3. CASE Transmit
  <2>1. PICK cwnd \in Cwnds, now \in Stamps : conn' = poll_transmit(conn, cwnd, now).tcb
    BY <1>3 DEF Transmit
  <2>2. cwnd \in Nat
    BY EndpointAssumption
  <2> QED BY <1>0, <2>1, <2>2, PollTransmitWindow
<1>4. CASE Write
  <2>1. PICK data \in Chunks : conn' = write(conn, data)
    BY <1>4 DEF Write
  <2>2. data \in Seq(Byte) /\ conn.send_buf \in Seq(Byte)
    BY EndpointAssumption DEF TypeOK, Connection
  <2>3. /\ Len(data) \in Nat /\ Len(conn.send_buf \o data) = Len(conn.send_buf) + Len(data)
    BY <2>2, LenProperties, ConcatProperties
  <2>4. conn'.send_buf = conn.send_buf \o data
    BY <2>1 DEF write, TypeOK, Connection
  <2> QED BY <1>0, <2>3, <2>4
<1>5. CASE Close
  <2>1. PICK now \in Stamps : conn' = close(conn, now).tcb
    BY <1>5 DEF Close
  <2>2. conn'.send_buf = conn.send_buf
    BY <1>0, <2>1 DEF close, Result, Sent, ConnOK, Connection
  <2> QED BY <2>2
<1>6. CASE SetNodelay
  BY <1>0, <1>6 DEF SetNodelay, set_nodelay, ConnOK, Connection
<1>7. CASE SetKeepalive
  BY <1>0, <1>7 DEF SetKeepalive, set_keepalive, ConnOK, Connection
<1>8. CASE UNCHANGED vars
  BY <1>8 DEF vars
<1> QED BY <1>1, <1>2, <1>3, <1>4, <1>5, <1>6, <1>7, <1>8 DEF Next

(***************************************************************************)
(* Outside SACK recovery poll_transmit (src/tcp.rs) never brings what is   *)
(* in flight above the window the peer advertised, whatever windows,       *)
(* acknowledgements and congestion windows it is given.                    *)
(***************************************************************************)
THEOREM WindowRespectedHolds == Spec => WindowRespectedOutsideRecovery
<1>1. TypeOK /\ [Next]_vars =>
         (SendsData /\ ~(conn.sack_ok /\ conn.in_recovery) => flight_size(conn') <= conn.wnd)
  BY NextWindow
<1> QED BY <1>1, TypeCorrect, PTL DEF Spec, WindowRespectedOutsideRecovery

-----------------------------------------------------------------------------
(* The endpoint *)

(***************************************************************************)
(* What is in flight, what waits to be sent and a FIN fit in half the      *)
(* circle: 2^31 bytes in the code, which no guard there enforces (write    *)
(* appends without a limit).  Only then can the comparisons of src/seq.rs  *)
(* tell old from new.                                                      *)
(***************************************************************************)
Outstanding == flight_size(conn) + Len(conn.send_buf) + 1 < Half

\* Each constructor queues what it sends.
LEMMA InitQueued == ASSUME Init, Outstanding PROVE Queued(conn)
<1>1. PICK iss \in Isns, now \in Stamps, s \in Incoming :
         \/ conn = connect(iss, now).tcb
         \/ "SYN" \in s.flags /\ conn = accept(s, iss, now).tcb
         \/ conn = from_syn_cookie(s.seq, iss)
  BY DEF Init
<1>2. iss \in SeqNum
  BY EndpointAssumption
<1>3. TypeOK
  BY InitType
<1>4. 1 < Half
  <2>1. flight_size(conn) \in Nat /\ Len(conn.send_buf) \in Nat
    BY <1>3, FlightType, LenProperties DEF TypeOK, ConnOK, Connection
  <2> QED BY <2>1, HalfAssumption DEF Outstanding
<1>5. CASE conn = connect(iss, now).tcb
  <2> DEFINE c == NewConnection("SynSent", iss, iss, 0, {}, 0)
             syn == [segment(c, iss, 0, {"SYN"}, << >>, now) EXCEPT !.opts = Option, !.tsval = now]
  <2>1. conn = Sent(c, iss, 1, syn)
    BY <1>5 DEF connect, Result
  <2> HIDE DEF syn
  <2>2. /\ conn.una = iss /\ conn.nxt = wrapping_add(iss, 1)
        /\ conn.retx = {[start |-> iss, end |-> wrapping_add(iss, 1), pkt |-> syn,
                         retried |-> FALSE, sacked |-> FALSE]}
    BY <2>1 DEF Sent, record, NewConnection
  <2> QED BY <1>2, <1>4, <2>2, OpeningQueued
<1>6. CASE conn = accept(s, iss, now).tcb
  <2> DEFINE c == NewConnection("SynRcvd", iss, iss, wrapping_add(s.seq, 1), s.opts, s.tsval)
             synack == [segment(c, iss, c.rcv_nxt, {"SYN", "ACK"}, << >>, now) EXCEPT !.opts = s.opts]
  <2>1. conn = Sent(c, iss, 1, synack)
    BY <1>6 DEF accept, Result
  <2> HIDE DEF synack
  <2>2. /\ conn.una = iss /\ conn.nxt = wrapping_add(iss, 1)
        /\ conn.retx = {[start |-> iss, end |-> wrapping_add(iss, 1), pkt |-> synack,
                         retried |-> FALSE, sacked |-> FALSE]}
    BY <2>1 DEF Sent, record, NewConnection
  <2> QED BY <1>2, <1>4, <2>2, OpeningQueued
<1>7. CASE conn = from_syn_cookie(s.seq, iss)
  <2>1. conn.retx = {} /\ conn.una = wrapping_add(iss, 1) /\ conn.nxt = wrapping_add(iss, 1)
    BY <1>7 DEF from_syn_cookie, NewConnection
  <2>2. wrapping_add(iss, 1) \in SeqNum
    BY <1>2, AddType
  <2> QED BY <2>1, <2>2, EmptyQueued
<1> QED BY <1>1, <1>5, <1>6, <1>7

\* A step of the endpoint, taken where what is outstanding fits.
LEMMA NextQueued ==
    ASSUME TypeOK, Outstanding, Queued(conn), [Next]_vars
    PROVE  Queued(conn)'
<1> SUFFICES ASSUME NEW c, c = conn, NEW d, d = conn' PROVE Queued(d)
  OBVIOUS
<1> DEFINE f == flight_size(conn)
           len == Len(conn.send_buf)
<1>1. ConnOK(conn) /\ f \in Nat /\ len \in Nat /\ Half \in Nat /\ peer \in DOMAIN Peers
  BY FlightType, LenProperties, HalfAssumption DEF TypeOK, ConnOK, Connection
<1>2. f < Half /\ f + 1 < Half /\ f + len < Half
  <2>1. f + len + 1 < Half
    BY DEF Outstanding
  <2> HIDE DEF f, len
  <2> QED BY <1>1, <2>1
<1>3. CASE Receive
  <2>1. PICK s \in Incoming, throttled \in Throttled, now \in Stamps :
           conn' = on_segment(conn, s, throttled, now).tcb
    BY <1>3 DEF Receive
  <2>2. s \in Segment
    BY <1>1, EndpointAssumption DEF Incoming
  <2> QED BY <1>1, <1>2, <2>1, <2>2, OnSegmentQueued
<1>4. CASE Tick
  <2>1. PICK now \in Stamps, expired \in BOOLEAN, persist \in BOOLEAN, keepalive \in BOOLEAN,
             rto \in BOOLEAN, R \in SUBSET Holes(conn.retx) :
           conn' = on_tick(conn, [expired |-> expired, resend |-> R, rto |-> rto,
                                  persist |-> persist, keepalive |-> keepalive], now).tcb
    BY <1>4, ZenonT(40) DEF Tick
  <2> DEFINE t == [expired |-> expired, resend |-> R, rto |-> rto,
                   persist |-> persist, keepalive |-> keepalive]
  <2>2. t.resend \in SUBSET conn.retx /\ t.rto \in BOOLEAN /\ now \in SeqNum
    BY EndpointAssumption DEF Holes
  <2>3. conn' = on_tick(conn, t, now).tcb
    BY <2>1
  <2> HIDE DEF t
  <2> QED BY <1>1, <1>2, <2>2, <2>3, OnTickQueued
<1>5. CASE Transmit
  <2>1. PICK cwnd \in Cwnds, now \in Stamps : conn' = poll_transmit(conn, cwnd, now).tcb
    BY <1>5 DEF Transmit
  <2>2. cwnd \in Nat
    BY EndpointAssumption
  <2> QED BY <1>1, <1>2, <2>1, <2>2, PollTransmitQueued
<1>6. CASE Write
  <2>1. PICK data : conn' = write(conn, data)
    BY <1>6 DEF Write
  <2>2. d.una = c.una /\ d.nxt = c.nxt /\ d.retx = c.retx /\ d.state = c.state
    BY <1>1, <2>1 DEF write, ConnOK, Connection
  <2> QED BY <2>2, SameQueued
<1>7. CASE Close
  <2>1. PICK now \in Stamps : conn' = close(conn, now).tcb
    BY <1>7 DEF Close
  <2> QED BY <1>1, <1>2, <2>1, CloseQueued
<1>8. CASE SetNodelay
  <2>1. PICK on : conn' = set_nodelay(conn, on)
    BY <1>8 DEF SetNodelay
  <2>2. d.una = c.una /\ d.nxt = c.nxt /\ d.retx = c.retx /\ d.state = c.state
    BY <1>1, <2>1 DEF set_nodelay, ConnOK, Connection
  <2> QED BY <2>2, SameQueued
<1>9. CASE SetKeepalive
  <2>1. PICK on : conn' = set_keepalive(conn, on)
    BY <1>9 DEF SetKeepalive
  <2>2. d.una = c.una /\ d.nxt = c.nxt /\ d.retx = c.retx /\ d.state = c.state
    BY <1>1, <2>1 DEF set_keepalive, ConnOK, Connection
  <2> QED BY <2>2, SameQueued
<1>10. CASE UNCHANGED vars
  BY <1>10 DEF vars
<1> QED BY <1>3, <1>4, <1>5, <1>6, <1>7, <1>8, <1>9, <1>10 DEF Next

\* The positions of the entries give the sets of numbers that the property speaks of.
LEMMA QueuedIsFlight == ASSUME TypeOK, Queued(conn) PROVE FlightIsQueued
<1> DEFINE u == conn.una
           f == flight_size(conn)
<1>1. /\ u \in SeqNum /\ conn.nxt \in SeqNum /\ conn.retx \in SUBSET Unacked
      /\ f = wrapping_sub(conn.nxt, u)
  BY DEF TypeOK, Connection, flight_size
<1>2. f \in SeqNum
  BY <1>1, SubIs
<1>3. \A s \in conn.retx : s \in Unacked /\ s.start \in SeqNum /\ s.end \in SeqNum
  BY <1>1 DEF Unacked
<1>4. Flight = {wrapping_add(u, i) : i \in 0 .. f - 1}
  BY DEF Flight
<1>5. \A y : y \in Flight <=> y \in SeqNum /\ wrapping_sub(y, u) < f
  <2> HIDE DEF u, f
  <2>1. ASSUME NEW i \in 0 .. f - 1
        PROVE  wrapping_add(u, i) \in SeqNum /\ wrapping_sub(wrapping_add(u, i), u) < f
    <3>1. i \in SeqNum /\ i < f
      BY <1>2, CircleIs
    <3> QED BY <1>1, <3>1, AddIs, RoundTrip
  <2>2. ASSUME NEW y \in SeqNum, wrapping_sub(y, u) < f
        PROVE  \E i \in 0 .. f - 1 : y = wrapping_add(u, i)
    <3> DEFINE i == wrapping_sub(y, u)
    <3>1. i \in SeqNum /\ i < f /\ y = wrapping_add(u, i)
      BY <1>1, <2>2, SubIs, RoundTrip
    <3> HIDE DEF i
    <3>2. i \in 0 .. f - 1
      BY <1>2, <3>1, CircleIs
    <3> QED BY <3>1, <3>2
  <2> QED BY <1>4, <2>1, <2>2
<1>6. \A s \in conn.retx : \A y : y \in SeqsOf(s) <=> y \in SeqNum /\ Occupies(s, y)
  BY <1>3, SeqsAre
<1>7. ASSUME conn.state \notin {"FinWait2", "TimeWait", "Closed"}
      PROVE  Flight \subseteq UNION {SeqsOf(s) : s \in conn.retx}
  <2>1. Covered(conn)
    BY <1>7 DEF Queued, Finished
  <2>2. ASSUME NEW y \in Flight PROVE \E s \in conn.retx : y \in SeqsOf(s)
    <3>1. y \in SeqNum /\ wrapping_sub(y, u) < f
      BY <1>5
    <3>2. \E s \in conn.retx : Occupies(s, y)
      BY <2>1, <3>1 DEF Covered
    <3> QED BY <1>6, <3>1, <3>2
  <2> QED BY <2>2
<1>8. ASSUME NEW s \in conn.retx, NEW t \in conn.retx, s # t PROVE SeqsOf(s) \cap SeqsOf(t) = {}
  BY <1>6, <1>8 DEF Queued, Disjoint
<1>9. ASSUME conn.state \in SendOpen \cup {"SynSent", "SynRcvd"}, NEW s \in conn.retx
      PROVE  SeqsOf(s) \cap Flight # {} /\ wrapping_sub(s.end, 1) \in Flight
  <2> DEFINE b == s.start
             e == s.end
             y == wrapping_sub(e, 1)
  <2>1. wrapping_sub(e, u) \in 1 .. f /\ wrapping_sub(e, b) \in 1 .. Half - 1
    BY <1>9 DEF Queued, EndsInFlight, Short, Opening
  <2>2. b \in SeqNum /\ e \in SeqNum /\ 1 \in SeqNum
    BY <1>3, CircleIs
  <2>3. Occupies(s, y) <=> wrapping_sub(y, b) < wrapping_sub(e, b)
    BY DEF Occupies
  <2> HIDE DEF b, e, u, f
  <2>4. y \in SeqNum /\ wrapping_sub(y, u) < f /\ wrapping_sub(y, b) < wrapping_sub(e, b)
    <3>1. y \in SeqNum /\ y = IF 1 <= e THEN e - 1 ELSE (e - 1) + SeqMod
      BY <2>2, SubIs
    <3> HIDE DEF y
    <3>2. /\ wrapping_sub(y, u) = IF u <= y THEN y - u ELSE (y - u) + SeqMod
          /\ wrapping_sub(e, u) = IF u <= e THEN e - u ELSE (e - u) + SeqMod
          /\ wrapping_sub(y, b) = IF b <= y THEN y - b ELSE (y - b) + SeqMod
          /\ wrapping_sub(e, b) = IF b <= e THEN e - b ELSE (e - b) + SeqMod
      BY <1>1, <2>2, <3>1, SubIs
    <3>3. /\ u \in Int /\ 0 <= u /\ u < SeqMod /\ e \in Int /\ 0 <= e /\ e < SeqMod
          /\ b \in Int /\ 0 <= b /\ b < SeqMod /\ y \in Int /\ f \in Int
          /\ Half \in Int /\ Half > 0 /\ SeqMod = 2 * Half
      BY <1>1, <1>2, <2>2, <3>1, CircleIs
    <3>4. wrapping_sub(y, u) = wrapping_sub(e, u) - 1 /\ wrapping_sub(y, b) = wrapping_sub(e, b) - 1
      BY <2>1, <3>1, <3>2, <3>3
    <3>5. wrapping_sub(e, u) \in Int /\ wrapping_sub(e, b) \in Int /\ wrapping_sub(e, u) <= f
      BY <2>1, <3>3
    <3> QED BY <3>1, <3>4, <3>5, <3>3
  <2>5. y \in Flight /\ y \in SeqsOf(s)
    BY <1>5, <1>6, <2>3, <2>4 DEF b, e
  <2> QED BY <2>5 DEF e
<1> QED BY <1>7, <1>8, <1>9 DEF FlightIsQueued

(***************************************************************************)
(* Nothing unacknowledged is forgotten (src/tcp.rs, RetxQueue): the queue  *)
(* is what is in flight, whatever ACKs, SACKs, timers and windows a        *)
(* connection meets, as long as what it has outstanding fits in half the   *)
(* circle.                                                                 *)
(***************************************************************************)
THEOREM FlightIsQueuedHolds == Spec /\ []Outstanding => []FlightIsQueued
<1>1. Init /\ Outstanding => Queued(conn)
  BY InitQueued
<1>2. TypeOK /\ Outstanding /\ Queued(conn) /\ [Next]_vars => Queued(conn)'
  BY NextQueued
<1>3. TypeOK /\ Queued(conn) => FlightIsQueued
  BY QueuedIsFlight
<1> QED BY <1>1, <1>2, <1>3, TypeCorrect, PTL DEF Spec

-----------------------------------------------------------------------------
(* What a connection has outstanding never exceeds what was written to it *)

\* What a connection has in flight and waiting to be sent.
Weight(c) == flight_size(c) + Len(c.send_buf)

\* d weighs what c weighs.
LEMMA SameWeight ==
    ASSUME NEW c, NEW d, d.una = c.una, d.nxt = c.nxt, d.send_buf = c.send_buf
    PROVE  Weight(d) = Weight(c)
BY DEF Weight, flight_size

\* It is a number of bytes.
LEMMA WeightType ==
    ASSUME NEW c, ConnOK(c)
    PROVE  flight_size(c) \in Nat /\ Len(c.send_buf) \in Nat /\ Weight(c) \in Nat
BY FlightType, LenProperties DEF Weight, ConnOK, Connection

\* No segment moves SND.NXT.
LEMMA OnSegmentNxt ==
    ASSUME NEW c0, ConnOK(c0), NEW s \in Segment, NEW throttled, NEW now
    PROVE  on_segment(c0, s, throttled, now).tcb.nxt = c0.nxt
<1> DEFINE c == [c0 EXCEPT !.keepalive_probes_sent = 0]
           est == [c EXCEPT !.una = s.ack, !.retx = ack(@, s.ack), !.state = "Established"]
           d == on_segment(c0, s, throttled, now).tcb
<1>1. ConnOK(c) /\ c.nxt = c0.nxt /\ c.state = c0.state
  BY ConnectionAssumption DEF ConnOK, Connection
<1>2. \/ d \in {on_rst(c, s, throttled, now).tcb, maybe_challenge(c, throttled, now).tcb,
                OnSynchronized(c, s, throttled, now).tcb, OnSynSent(c, s, now).tcb}
      \/ d = OnSynRcvd(c, s, throttled, now).tcb
  <2> HIDE DEF c
  <2> QED BY DEF on_segment, c
<1> HIDE DEF c, d
<1>3. ConnOK(est) /\ est.nxt = c.nxt
  <2>1. s.ack \in SeqNum /\ ack(c.retx, s.ack) \in SUBSET Unacked
    BY <1>1, SegmentFields, AckType DEF ConnOK, Connection
  <2> QED BY <1>1, <2>1 DEF ConnOK, Connection, State
<1>4. OnSynRcvd(c, s, throttled, now).tcb \in {c, OnSynchronized(est, s, throttled, now).tcb}
  BY DEF OnSynRcvd, Result
<1> HIDE DEF est
<1>5. ASSUME NEW e, ConnOK(e) PROVE OnSynchronized(e, s, throttled, now).tcb.nxt = e.nxt
  <2>1. CASE e.state \in SendOpen
    <3>1. OnSynchronized(e, s, throttled, now).tcb = OnOpen(e, s, throttled, now).tcb
      BY <2>1 DEF OnSynchronized, SendOpen
    <3>2. Opens(e, OnOpen(e, s, throttled, now).tcb, s)
      BY <1>5, OnOpenEffect
    <3>3. OnOpen(e, s, throttled, now).tcb.nxt = e.nxt
      BY <3>2 DEF Opens
    <3> QED BY <3>1, <3>3
  <2>2. CASE e.state \in FinOut
    BY <1>5, <2>2, OnSynchronizedEffect DEF Effect
  <2>3. CASE e.state \notin SendOpen \cup FinOut
    <3>1. OnSynchronized(e, s, throttled, now).tcb = e
      BY <2>3 DEF OnSynchronized, SendOpen, FinOut, FinPending, Result
    <3> QED BY <3>1
  <2> QED BY <2>1, <2>2, <2>3
<1>6. /\ on_rst(c, s, throttled, now).tcb.nxt = c.nxt
      /\ maybe_challenge(c, throttled, now).tcb.nxt = c.nxt
      /\ OnSynSent(c, s, now).tcb.nxt = c.nxt
  <2>1. on_rst(c, s, throttled, now).tcb \in {c, [c EXCEPT !.state = "Closed"]}
    BY DEF on_rst, maybe_challenge, Result
  <2>2. [c EXCEPT !.state = "Closed"].nxt = c.nxt
    BY <1>1 DEF ConnOK, Connection
  <2>3. maybe_challenge(c, throttled, now).tcb = c
    BY DEF maybe_challenge, Result
  <2>4. OnSynSent(c, s, now).tcb.nxt = c.nxt
    BY <1>1 DEF OnSynSent, Result, ConnOK, Connection
  <2> QED BY <2>1, <2>2, <2>3, <2>4
<1>7. d.nxt = c0.nxt
  BY <1>1, <1>2, <1>3, <1>4, <1>5, <1>6
<1> QED BY <1>7 DEF d

\* An acknowledgement takes from the flight and adds nothing.
LEMMA OnSegmentWeight ==
    ASSUME NEW c, ConnOK(c), flight_size(c) < Half, NEW s \in Segment, NEW throttled, NEW now \in SeqNum
    PROVE  Weight(on_segment(c, s, throttled, now).tcb) <= Weight(c)
<1> DEFINE d == on_segment(c, s, throttled, now).tcb
<1>1. ConnOK(d) /\ d.nxt = c.nxt /\ d.send_buf = c.send_buf /\ UnaMoves(c, d)
  BY OnSegmentType, OnSegmentNxt, OnSegmentBuffer, OnSegmentEffect DEF Effect
<1> HIDE DEF d
<1> DEFINE u == c.una
           a == d.una
           n == c.nxt
<1>2. u \in SeqNum /\ a \in SeqNum /\ n \in SeqNum
  BY <1>1 DEF ConnOK, Connection
<1>3. flight_size(c) = wrapping_sub(n, u) /\ flight_size(d) = wrapping_sub(n, a)
  BY <1>1 DEF flight_size
<1>4. a = u \/ between(u, a, n) \/ a = n
  BY <1>1 DEF UnaMoves
<1> HIDE DEF u, a, n
<1>5. wrapping_sub(n, u) \in Nat /\ wrapping_sub(n, a) \in Nat /\ wrapping_sub(a, u) \in Nat
  <2>1. wrapping_sub(n, u) \in SeqNum /\ wrapping_sub(n, a) \in SeqNum /\ wrapping_sub(a, u) \in SeqNum
    BY <1>2, SubIs
  <2> QED BY <2>1, CircleIs
<1>6. wrapping_sub(a, u) <= wrapping_sub(n, u) => wrapping_sub(n, a) <= wrapping_sub(n, u)
  <2> SUFFICES ASSUME wrapping_sub(a, u) <= wrapping_sub(n, u)
               PROVE  wrapping_sub(n, a) <= wrapping_sub(n, u)
    OBVIOUS
  <2>1. wrapping_sub(n, a) = wrapping_sub(n, u) - wrapping_sub(a, u)
    BY <1>2, <1>3, AckPositions
  <2> QED BY <1>5, <2>1
<1>7. wrapping_sub(n, a) <= wrapping_sub(n, u)
  <2>1. CASE a = u
    BY <1>5, <2>1
  <2>2. CASE between(u, a, n)
    BY <1>2, <1>3, <1>6, <2>2, BetweenIsInFlight
  <2>3. CASE a = n
    BY <1>5, <1>6, <2>3
  <2> QED BY <1>4, <2>1, <2>2, <2>3
<1>8. flight_size(d) <= flight_size(c)
  BY <1>3, <1>7
<1>9. Weight(d) <= Weight(c)
  BY <1>1, <1>8, WeightType DEF Weight
<1> QED BY <1>9 DEF d

\* Sending moves bytes from the buffer into the flight.
LEMMA SendBytesWeight ==
    ASSUME NEW c, ConnOK(c), NEW n \in Nat, n <= Len(c.send_buf), flight_size(c) + n < Half, NEW now
    PROVE  Weight(SendBytes(c, n, now).tcb) = Weight(c)
<1> DEFINE d == SendBytes(c, n, now).tcb
           b == c.send_buf
<1>1. /\ d.una = c.una /\ d.nxt = wrapping_add(c.nxt, n)
      /\ d.send_buf = SubSeq(b, n + 1, Len(b))
  BY DEF SendBytes, Result, ConnOK, Connection
<1>2. c.una \in SeqNum /\ c.nxt \in SeqNum /\ b \in Seq(Byte) /\ Len(b) \in Nat
  BY LenProperties DEF ConnOK, Connection
<1> HIDE DEF d
<1>3. wrapping_sub(c.nxt, c.una) + n < Half
  BY DEF flight_size
<1>4. flight_size(d) = flight_size(c) + n
  <2> DEFINE u == c.una
             p == c.nxt
  <2>1. u \in SeqNum /\ p \in SeqNum /\ wrapping_sub(p, u) + n < Half
    BY <1>2, <1>3
  <2> HIDE DEF u, p
  <2>2. wrapping_sub(wrapping_add(p, n), u) = wrapping_sub(p, u) + n
    BY <2>1, OldOrNew
  <2> QED BY <1>1, <2>2 DEF flight_size, u, p
<1>5. Len(SubSeq(b, n + 1, Len(b))) = Len(b) - n
  <2>1. CASE n < Len(b)
    BY <1>2, <2>1, ChunkLen
  <2>2. CASE n = Len(b)
    <3>1. \A i \in n + 1 .. Len(b) : b[i] \in Byte
      BY <1>2, <2>2
    <3>2. Len(SubSeq(b, n + 1, Len(b))) = IF n + 1 <= Len(b) THEN (Len(b) - (n + 1)) + 1 ELSE 0
      BY <1>2, <3>1, SubSeqProperties
    <3> QED BY <1>2, <2>2, <3>2
  <2> QED BY <1>2, <2>1, <2>2
<1>6. flight_size(c) \in Nat /\ Len(c.send_buf) \in Nat
  BY WeightType
<1>7. Len(d.send_buf) = Len(c.send_buf) - n
  BY <1>1, <1>5
<1>8. Weight(d) = Weight(c)
  BY <1>4, <1>6, <1>7 DEF Weight
<1> QED BY <1>8 DEF d

\* poll_transmit only moves bytes from the buffer into the flight.
LEMMA PollTransmitWeight ==
    ASSUME NEW c, ConnOK(c), Weight(c) < Half, NEW cwnd \in Nat, NEW now
    PROVE  Weight(poll_transmit(c, cwnd, now).tcb) = Weight(c)
<1> DEFINE limit == AtMost(c.wnd, cwnd)
           lost  == LostWithin(c.retx, limit)
           c1    == [c EXCEPT !.retx = Resend(@, lost)]
           room  == IF limit > pipe(c1.retx) THEN limit - pipe(c1.retx) ELSE 0
           n     == AtMost(room, Len(c.send_buf))
           new   == SendBytes(c1, n, now)
<1>1. Len(c.send_buf) \in Nat /\ c.wnd \in Nat /\ flight_size(c) \in Nat
  BY WeightType DEF ConnOK, Connection
<1>2. limit \in Nat
  BY <1>1, AtMostType
<1>3. lost \in SUBSET c.retx
  BY DEF LostWithin
<1>4. ConnOK(c1) /\ c1.send_buf = c.send_buf /\ c1.una = c.una /\ c1.nxt = c.nxt
  <2> HIDE DEF lost
  <2>1. ConnOK(c1)
    BY <1>3, ResendConnType
  <2>2. c1.send_buf = c.send_buf /\ c1.una = c.una /\ c1.nxt = c.nxt
    BY DEF ConnOK, Connection
  <2> QED BY <2>1, <2>2
<1>5. poll_transmit(c, cwnd, now).tcb \in {c, new.tcb, SendBytes(c, Sendable(c, cwnd), now).tcb}
  BY DEF poll_transmit, Result, SendBytes
<1>6. room \in Nat
  <2> HIDE DEF limit, c1
  <2>1. pipe(c1.retx) \in Nat
    BY <1>4, PipeType DEF ConnOK, Connection
  <2> QED BY <1>2, <2>1
<1>7. n \in Nat /\ n <= Len(c.send_buf)
  <2> HIDE DEF room
  <2> QED BY <1>1, <1>6, AtMostType
<1> HIDE DEF c1, n, lost
<1>8. ASSUME NEW m \in Nat, m <= Len(c.send_buf) PROVE flight_size(c) + m < Half
  BY <1>1, <1>8, HalfAssumption DEF Weight
<1>9. Weight(c1) = Weight(c) /\ flight_size(c1) = flight_size(c)
  BY <1>4, SameWeight DEF flight_size
<1>10. Weight(new.tcb) = Weight(c)
  BY <1>4, <1>7, <1>8, <1>9, SendBytesWeight
<1>11. Weight(SendBytes(c, Sendable(c, cwnd), now).tcb) = Weight(c)
  BY <1>8, SendableType, SendBytesWeight
<1> QED BY <1>5, <1>10, <1>11

\* So does a zero-window probe.
LEMMA PersistTickWeight ==
    ASSUME NEW c, ConnOK(c), 1 < Half, NEW elapsed, NEW now
    PROVE  Weight(PersistTick(c, elapsed, now).tcb) = Weight(c)
<1> DEFINE shut  == c.state \in SendOpen /\ c.wnd = 0 /\ c.send_buf # << >> /\ flight_size(c) = 0
           probe == segment(c, c.nxt, c.rcv_nxt, {"ACK"}, SubSeq(c.send_buf, 1, 1), now)
           d     == [Sent(c, c.nxt, 1, probe) EXCEPT !.send_buf = Tail(@), !.persist = FALSE]
           e     == [c EXCEPT !.persist = shut]
<1>1. /\ d.una = c.una /\ d.nxt = wrapping_add(c.nxt, 1) /\ d.send_buf = Tail(c.send_buf)
      /\ e.una = c.una /\ e.nxt = c.nxt /\ e.send_buf = c.send_buf
  <2> HIDE DEF probe, shut
  <2> QED BY DEF Sent, ConnOK, Connection
<1>2. \/ shut /\ PersistTick(c, elapsed, now).tcb = d
      \/ PersistTick(c, elapsed, now).tcb = e
  BY DEF PersistTick, Result
<1> HIDE DEF d, e, probe
<1>3. Weight(e) = Weight(c)
  BY <1>1, SameWeight
<1>4. ASSUME shut PROVE Weight(d) = Weight(c)
  <2>1. c.send_buf \in Seq(Byte) /\ c.una \in SeqNum /\ c.nxt \in SeqNum /\ Len(c.send_buf) \in Nat
    BY LenProperties DEF ConnOK, Connection
  <2>2. Len(Tail(c.send_buf)) = Len(c.send_buf) - 1
    BY <1>4, <2>1, HeadTailProperties
  <2>3. flight_size(d) = flight_size(c) + 1
    <3> DEFINE u == c.una
               p == c.nxt
    <3>1. u \in SeqNum /\ p \in SeqNum /\ wrapping_sub(p, u) + 1 < Half
      BY <1>4, <2>1 DEF flight_size
    <3> HIDE DEF u, p
    <3>2. wrapping_sub(wrapping_add(p, 1), u) = wrapping_sub(p, u) + 1
      BY <3>1, OldOrNew
    <3> QED BY <1>1, <3>2 DEF flight_size, u, p
  <2>4. flight_size(c) = 0
    BY <1>4
  <2> QED BY <1>1, <2>1, <2>2, <2>3, <2>4 DEF Weight
<1> QED BY <1>2, <1>3, <1>4

\* So do the timers of a tick.
LEMMA OnTickWeight ==
    ASSUME NEW c, ConnOK(c), 1 < Half,
           NEW t, t.resend \in SUBSET c.retx, t.rto \in BOOLEAN, NEW now \in SeqNum
    PROVE  Weight(on_tick(c, t, now).tcb) = Weight(c)
<1> DEFINE z  == [c EXCEPT !.state = "Closed"]
           c0 == Expire(c, t.expired)
           c1 == Retransmit(c0, t.resend, t.rto)
           p  == PersistTick(c1, t.persist, now)
           k  == KeepaliveTick(p.tcb, t.keepalive, now)
<1>1. on_tick(c, t, now).tcb = k.tcb
  BY DEF on_tick, Result
<1>2. ConnOK(c0) /\ c0.retx = c.retx /\ c0.una = c.una /\ c0.nxt = c.nxt /\ c0.send_buf = c.send_buf
  <2>1. c0 \in {c, z}
    BY DEF Expire
  <2>2. z.una = c.una /\ z.nxt = c.nxt /\ z.send_buf = c.send_buf
    BY DEF ConnOK, Connection
  <2> QED BY <2>1, <2>2, ExpireQuiet
<1> HIDE DEF c0
<1>3. ConnOK(c1) /\ Weight(c1) = Weight(c)
  <2>1. c1.una = c.una /\ c1.nxt = c.nxt /\ c1.send_buf = c.send_buf
    BY <1>2 DEF Retransmit, ConnOK, Connection
  <2>2. ConnOK(c1)
    BY <1>2, RetransmitType
  <2> HIDE DEF c1
  <2> QED BY <2>1, <2>2, SameWeight
<1> HIDE DEF c1
<1>4. ConnOK(p.tcb) /\ Weight(p.tcb) = Weight(c)
  BY <1>3, PersistTickType, PersistTickWeight
<1> HIDE DEF p
<1>5. Weight(k.tcb) = Weight(p.tcb)
  <2> DEFINE q == p.tcb
             r == KeepaliveTick(q, t.keepalive, now).tcb
  <2>1. ConnOK(q)
    BY <1>4
  <2> HIDE DEF q
  <2>2. r \in {q, [q EXCEPT !.state = "Closed"],
               [q EXCEPT !.keepalive_probes_sent = @ + 1]}
    BY DEF KeepaliveTick, Result
  <2>3. r.una = q.una /\ r.nxt = q.nxt /\ r.send_buf = q.send_buf
    BY <2>1, <2>2 DEF ConnOK, Connection
  <2> HIDE DEF r
  <2>4. Weight(r) = Weight(q)
    BY <2>3, SameWeight
  <2> QED BY <2>4 DEF r, q
<1> QED BY <1>1, <1>4, <1>5

\* close adds the number of the FIN, once.
LEMMA CloseWeight ==
    ASSUME NEW c, ConnOK(c), flight_size(c) + 1 < Half, NEW now
    PROVE  LET d == close(c, now).tcb
           IN  \/ d = c
               \/ Weight(d) = Weight(c) + 1 /\ c.state \notin FinOut /\ d.state \in FinOut
<1> DEFINE fin == segment(c, c.nxt, c.rcv_nxt, {"FIN", "ACK"}, << >>, now)
           next == IF c.state = "Established" THEN "FinWait1" ELSE "LastAck"
           d == [Sent(c, c.nxt, 1, fin) EXCEPT !.state = next]
<1>1. CASE c.state \in SendOpen
  <2>1. close(c, now).tcb = d
    BY <1>1 DEF close, Result
  <2> HIDE DEF fin
  <2>2. /\ d.una = c.una /\ d.nxt = wrapping_add(c.nxt, 1) /\ d.state = next
        /\ d.send_buf = c.send_buf
    BY DEF Sent, ConnOK, Connection
  <2> HIDE DEF d
  <2>3. d.state \in FinOut /\ c.state \notin FinOut
    BY <1>1, <2>2 DEF FinOut, FinPending, SendOpen
  <2>4. flight_size(d) = flight_size(c) + 1
    <3> DEFINE u == c.una
               p == c.nxt
    <3>1. u \in SeqNum /\ p \in SeqNum /\ wrapping_sub(p, u) + 1 < Half
      BY DEF flight_size, ConnOK, Connection
    <3> HIDE DEF u, p
    <3>2. wrapping_sub(wrapping_add(p, 1), u) = wrapping_sub(p, u) + 1
      BY <3>1, OldOrNew
    <3> QED BY <2>2, <3>2 DEF flight_size, u, p
  <2>5. Weight(d) = Weight(c) + 1
    BY <2>2, <2>4, WeightType DEF Weight
  <2> QED BY <2>1, <2>3, <2>5
<1>2. CASE c.state \notin SendOpen
  BY <1>2 DEF close, Result
<1> QED BY <1>1, <1>2

-----------------------------------------------------------------------------
(* Short streams *)

\* SYN, everything written, and FIN once it is out.
Light ==
    /\ written <= MaxWritten
    /\ Weight(conn) <= written + (IF conn.state \in FinOut THEN 2 ELSE 1)

\* Every behaviour writes so little that with SYN and FIN it fits half the circle.
ShortStreams == \A p \in DOMAIN Peers : Peers[p].written + 3 < Half

\* What was written bounds what is outstanding.
LEMMA LightIsOutstanding == ASSUME ShortStreams, TypeOK, Light PROVE Outstanding
<1>1. MaxWritten \in Nat /\ MaxWritten + 3 < Half /\ Half \in Nat
  BY EndpointAssumption, HalfAssumption DEF ShortStreams, TypeOK, MaxWritten
<1>2. flight_size(conn) \in Nat /\ Len(conn.send_buf) \in Nat /\ written \in Nat
  BY WeightType DEF TypeOK, ConnOK
<1>3. flight_size(conn) + Len(conn.send_buf) <= written + 2 /\ written <= MaxWritten
  BY <1>2 DEF Light, Weight
<1> DEFINE f == flight_size(conn)
           len == Len(conn.send_buf)
           m == MaxWritten
<1>4. f + len + 1 < Half
  <2> HIDE DEF f, len, m
  <2>1. m \in Nat /\ m + 3 < Half /\ Half \in Nat /\ f \in Nat /\ len \in Nat
           /\ f + len <= written + 2 /\ written <= m /\ written \in Nat
    BY <1>1, <1>2, <1>3 DEF f, len, m
  <2> QED BY <2>1
<1> QED BY <1>4 DEF Outstanding

\* A new connection has at most its SYN outstanding.
LEMMA InitLight == ASSUME Init PROVE Light
<1>1. PICK iss \in Isns, now \in Stamps, s \in Incoming :
         \/ conn = connect(iss, now).tcb
         \/ "SYN" \in s.flags /\ conn = accept(s, iss, now).tcb
         \/ conn = from_syn_cookie(s.seq, iss)
  BY DEF Init
<1>2. iss \in SeqNum /\ 1 \in SeqNum
  <2>1. 1 \in SeqNum
    BY CircleIs
  <2> QED BY <2>1, EndpointAssumption
<1>3. TypeOK /\ MaxWritten \in Nat /\ written = 0
  BY InitType, EndpointAssumption DEF Init, TypeOK, MaxWritten
<1> DEFINE n == wrapping_add(iss, 1)
<1>4. /\ conn.send_buf = << >> /\ conn.nxt = n
      /\ conn.una = iss \/ conn.una = n
  <2>1. CASE conn = connect(iss, now).tcb
    BY <2>1 DEF connect, Result, Sent, NewConnection
  <2>2. CASE conn = accept(s, iss, now).tcb
    BY <2>2 DEF accept, Result, Sent, NewConnection
  <2>3. CASE conn = from_syn_cookie(s.seq, iss)
    BY <2>3 DEF from_syn_cookie, NewConnection
  <2> QED BY <1>1, <2>1, <2>2, <2>3
<1>5. n \in SeqNum /\ wrapping_sub(n, iss) = 1
  BY <1>2, AddType, RoundTrip
<1> HIDE DEF n
<1>6. wrapping_sub(n, n) = 0
  <2>1. wrapping_sub(n, n) = (IF n <= n THEN n - n ELSE (n - n) + SeqMod) /\ n \in Int
    BY <1>5, SubIs, SeqNumInt
  <2> QED BY <2>1
<1>7. flight_size(conn) \in {0, 1}
  BY <1>4, <1>5, <1>6 DEF flight_size
<1>8. Weight(conn) \in {0, 1}
  BY <1>4, <1>7 DEF Weight
<1> QED BY <1>3, <1>8 DEF Light

\* Only write and the FIN add to what is outstanding.
LEMMA NextLight ==
    ASSUME TypeOK, Outstanding, Light, [Next]_vars
    PROVE  Light'
<1> DEFINE f == flight_size(conn)
           len == Len(conn.send_buf)
           w == Weight(conn)
<1>1. ConnOK(conn) /\ f \in Nat /\ len \in Nat /\ w \in Nat /\ w = f + len
         /\ Half \in Nat /\ written \in Nat
  BY WeightType, HalfAssumption DEF TypeOK, ConnOK, Weight
<1>2. f < Half /\ f + 1 < Half /\ w < Half /\ 1 < Half
  <2>1. f + len + 1 < Half
    BY DEF Outstanding
  <2> HIDE DEF f, len, w
  <2> QED BY <1>1, <2>1
<1>3. conn.state \in FinOut => conn'.state \in FinOut
  BY NextEffect DEF Effect, Moves, FinOut, FinPending, Opening
<1>4. ConnOK(conn') /\ Weight(conn') \in Nat
  <2>1. ConnOK(conn')
    BY NextType DEF TypeOK, ConnOK
  <2> QED BY <2>1, WeightType
<1>5. ASSUME Weight(conn') <= w, UNCHANGED << peer, written >> PROVE Light'
  <2>1. MaxWritten' = MaxWritten /\ written' = written
    BY <1>5 DEF MaxWritten
  <2>2. Weight(conn') <= written + (IF conn'.state \in FinOut THEN 2 ELSE 1)
    <3> HIDE DEF w
    <3>1. w <= written + (IF conn.state \in FinOut THEN 2 ELSE 1)
      BY DEF Light, w
    <3> QED BY <1>1, <1>3, <1>4, <1>5, <3>1
  <2> QED BY <2>1, <2>2 DEF Light
<1>6. CASE Receive
  <2>1. PICK s \in Incoming, throttled \in Throttled, now \in Stamps :
           conn' = on_segment(conn, s, throttled, now).tcb /\ UNCHANGED << peer, written >>
    BY <1>6 DEF Receive
  <2>2. s \in Segment /\ now \in SeqNum
    BY EndpointAssumption DEF TypeOK, Incoming
  <2>3. Weight(conn') <= w
    BY <1>1, <1>2, <2>1, <2>2, OnSegmentWeight
  <2> QED BY <1>5, <2>1, <2>3
<1>7. CASE Tick
  <2>1. PICK now \in Stamps, expired \in BOOLEAN, persist \in BOOLEAN, keepalive \in BOOLEAN,
             rto \in BOOLEAN, R \in SUBSET Holes(conn.retx) :
           /\ conn' = on_tick(conn, [expired |-> expired, resend |-> R, rto |-> rto,
                                     persist |-> persist, keepalive |-> keepalive], now).tcb
           /\ UNCHANGED << peer, written >>
    BY <1>7 DEF Tick
  <2> DEFINE t == [expired |-> expired, resend |-> R, rto |-> rto,
                   persist |-> persist, keepalive |-> keepalive]
  <2>2. t.resend \in SUBSET conn.retx /\ t.rto \in BOOLEAN /\ now \in SeqNum
    BY EndpointAssumption DEF Holes
  <2>3. conn' = on_tick(conn, t, now).tcb
    BY <2>1
  <2> HIDE DEF t
  <2>4. Weight(conn') = w
    BY <1>1, <1>2, <2>2, <2>3, OnTickWeight
  <2>5. Weight(conn') <= w
    BY <1>1, <2>4
  <2> QED BY <1>5, <2>1, <2>5
<1>8. CASE Transmit
  <2>1. PICK cwnd \in Cwnds, now \in Stamps :
           conn' = poll_transmit(conn, cwnd, now).tcb /\ UNCHANGED << peer, written >>
    BY <1>8 DEF Transmit
  <2>2. cwnd \in Nat
    BY EndpointAssumption
  <2>3. Weight(conn') = w
    BY <1>1, <1>2, <2>1, <2>2, PollTransmitWeight
  <2>4. Weight(conn') <= w
    BY <1>1, <2>3
  <2> QED BY <1>5, <2>1, <2>4
<1>9. CASE Write
  <2>1. PICK data \in Chunks :
           /\ conn' = write(conn, data) /\ written' = written + Len(data)
           /\ UNCHANGED peer /\ written + Len(data) <= MaxWritten
    BY <1>9 DEF Write
  <2>2. data \in Seq(Byte) /\ Len(data) \in Nat /\ conn.send_buf \in Seq(Byte)
    BY <1>1, EndpointAssumption, LenProperties DEF ConnOK, Connection
  <2>3. conn'.una = conn.una /\ conn'.nxt = conn.nxt /\ conn'.state = conn.state
           /\ conn'.send_buf = conn.send_buf \o data
    BY <1>1, <2>1 DEF write, ConnOK, Connection
  <2>4. Len(conn.send_buf \o data) = len + Len(data)
    BY <2>2, ConcatProperties
  <2>5. flight_size(conn') = f
    BY <2>3 DEF flight_size
  <2>6. Weight(conn') = w + Len(data)
    <3>1. Weight(conn') = f + (len + Len(data))
      BY <2>3, <2>4, <2>5 DEF Weight
    <3> HIDE DEF f, len, w
    <3> QED BY <1>1, <2>2, <3>1
  <2>7. Weight(conn') <= (written + Len(data)) + (IF conn.state \in FinOut THEN 2 ELSE 1)
    <3> HIDE DEF w
    <3>1. w <= written + (IF conn.state \in FinOut THEN 2 ELSE 1)
      BY DEF Light, w
    <3> QED BY <1>1, <2>2, <2>6, <3>1
  <2>8. MaxWritten' = MaxWritten
    BY <2>1 DEF MaxWritten
  <2> QED BY <2>1, <2>3, <2>7, <2>8 DEF Light
<1>10. CASE Close
  <2>1. PICK now \in Stamps : conn' = close(conn, now).tcb /\ UNCHANGED << peer, written >>
    BY <1>10 DEF Close
  <2>2. \/ conn' = conn
        \/ Weight(conn') = w + 1 /\ conn.state \notin FinOut /\ conn'.state \in FinOut
    BY <1>1, <1>2, <2>1, CloseWeight
  <2>3. CASE conn' = conn
    <3>1. Weight(conn') = w
      BY <2>3
    <3>2. Weight(conn') <= w
      BY <1>1, <3>1
    <3> QED BY <1>5, <2>1, <3>2
  <2>4. CASE Weight(conn') = w + 1 /\ conn.state \notin FinOut /\ conn'.state \in FinOut
    <3>1. w <= written + 1
      BY <2>4 DEF Light
    <3> HIDE DEF w
    <3>2. Weight(conn') <= written + 2
      BY <1>1, <2>4, <3>1
    <3>3. MaxWritten' = MaxWritten /\ written' = written
      BY <2>1 DEF MaxWritten
    <3> QED BY <2>4, <3>2, <3>3 DEF Light
  <2> QED BY <2>2, <2>3, <2>4
<1>11. CASE SetNodelay \/ SetKeepalive
  <2>1. /\ conn'.una = conn.una /\ conn'.nxt = conn.nxt /\ conn'.send_buf = conn.send_buf
        /\ UNCHANGED << peer, written >>
    BY <1>1, <1>11
       DEF SetNodelay, SetKeepalive, set_nodelay, set_keepalive, ConnOK, Connection
  <2>2. Weight(conn') = w
    BY <2>1, SameWeight
  <2>3. Weight(conn') <= w
    BY <1>1, <2>2
  <2> QED BY <1>5, <2>1, <2>3
<1>12. CASE UNCHANGED vars
  <2>1. conn' = conn /\ UNCHANGED << peer, written >>
    BY <1>12 DEF vars
  <2>2. Weight(conn') = w
    BY <2>1
  <2>3. Weight(conn') <= w
    BY <1>1, <2>2
  <2> QED BY <1>5, <2>1, <2>3
<1> QED BY <1>6, <1>7, <1>8, <1>9, <1>10, <1>11, <1>12 DEF Next

(***************************************************************************)
(* A connection over which less than half the circle is written keeps      *)
(* everything in flight queued, with no hypothesis on its states: what is  *)
(* outstanding never exceeds what was written, the SYN and the FIN.        *)
(***************************************************************************)
THEOREM ShortStreamQueued ==
    ASSUME ShortStreams
    PROVE  Spec => []FlightIsQueued
<1>1. Init => Light
  BY InitLight
<1>2. TypeOK /\ Light => Outstanding
  BY LightIsOutstanding
<1>3. TypeOK /\ Outstanding /\ Light /\ [Next]_vars => Light'
  BY NextLight
<1>4. Spec => []Outstanding
  BY <1>1, <1>2, <1>3, TypeCorrect, PTL DEF Spec
<1> QED BY <1>4, FlightIsQueuedHolds, PTL

=============================================================================
