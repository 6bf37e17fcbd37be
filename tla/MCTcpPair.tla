----------------------------- MODULE MCTcpPair -----------------------------
(***************************************************************************)
(* TcpPair for TLC.  The client's numbers wrap, the server's do not.       *)
(***************************************************************************)
EXTENDS TcpPair

MCIss == [e \in Endpoint |-> IF e = "client" THEN SeqMod - 2 ELSE 3]

Each(client, server) == [e \in Endpoint |-> IF e = "client" THEN client ELSE server]

\* Nothing is written and the network is perfect.
Quiet ==
    [cwnds |-> {2}, throttled |-> {FALSE}, timers |-> {"rto"}, closers |-> Endpoint,
     chunk |-> 1, written |-> Each(0, 0), clock |-> Each(0, 0), listened |-> 0,
     lost |-> 0, dup |-> 0, skip |-> 0, early |-> 0]

\* One-way transfer and close, with loss and reordering.
Transfer ==
    [Quiet EXCEPT !.chunk = 2, !.written = Each(2, 0), !.lost = 2, !.skip = 1,
                  !.closers = {"client"}]

\* Duplicates, reordering and a retransmission timer that fires too early.
Duplicates ==
    [Quiet EXCEPT !.throttled = {FALSE, TRUE}, !.written = Each(1, 0),
                  !.dup = 1, !.skip = 1, !.early = 1]

\* A window of three segments, one of them lost: SACK recovery.
Recovery ==
    [Quiet EXCEPT !.cwnds = {3}, !.chunk = 3, !.written = Each(3, 0), !.lost = 1,
                  !.closers = {"client"}]

\* Data both ways, simultaneous close, the reaper, one loss.
Duplex ==
    [Quiet EXCEPT !.timers = {"rto", "timewait", "reaper"}, !.written = Each(1, 1), !.lost = 1]

\* Data both ways with a clock that ticks, loss and reordering.
Ticking ==
    [Quiet EXCEPT !.timers = {"rto", "timewait"}, !.written = Each(1, 1),
                  !.clock = Each(1, 0), !.skip = 1, !.lost = 1, !.closers = {"client"}]

\* One byte, one datagram lost, reordering.
OneByte == [Quiet EXCEPT !.written = Each(1, 0), !.lost = 1, !.skip = 1]

\* The last ACK of a close is lost.
LostAck == [Quiet EXCEPT !.lost = 1]

\* A blocking accept that had waited before the SYN came.
LateSyn == [Quiet EXCEPT !.written = Each(0, 1), !.clock = Each(0, 1), !.listened = 1]

SafetyScenarios ==
    [transfer |-> Transfer, duplicates |-> Duplicates, recovery |-> Recovery,
     duplex |-> Duplex, ticking |-> Ticking]
LivenessScenarios == [one_byte |-> OneByte]
LostAckScenarios == [lost_ack |-> LostAck]
LateSynScenarios == [late_syn |-> LateSyn]

=============================================================================
