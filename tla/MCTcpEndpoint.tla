--------------------------- MODULE MCTcpEndpoint ---------------------------
(***************************************************************************)
(* TcpEndpoint for TLC: a circle of 16 numbers, our ISN at the wrap, a     *)
(* peer whose ISN is 5 and that may send every combination below.          *)
(***************************************************************************)
EXTENDS TcpEndpoint

Blocks(edges) ==
    {{}} \cup {{[left |-> p[1], right |-> p[2]]} : p \in {q \in edges \X edges : before(q[1], q[2])}}

Segments(seqs, acks, flags, windows, edges, payloads) ==
    {[seq |-> q, ack |-> a, flags |-> f, window |-> w, opts |-> Option, tsval |-> 0,
      sack |-> b, data |-> d] :
        q \in seqs, a \in acks, f \in flags, w \in windows, b \in Blocks(edges), d \in payloads}

\* Opening, receiving and closing.
Closer ==
    [incoming |-> Segments({5, 6, 7}, {0, 1, 2},
                           {{"ACK"}, {"FIN", "ACK"}, {"SYN"}, {"SYN", "ACK"}, {"RST"}},
                           {0, 2}, {}, {<< >>, << 7 >>}),
     throttled |-> {FALSE, TRUE}, settings |-> {"keepalive"}, written |-> 1]

\* Sending, loss recovery, windows: the peer acknowledges whatever it likes.
Reader ==
    [incoming |-> Segments({6}, 0 .. 4, {{"ACK"}, {"SYN", "ACK"}}, {0, 2}, {1, 2, 3}, {<< >>}),
     throttled |-> {FALSE}, settings |-> {"nodelay"}, written |-> 3]

\* Flow control during SACK recovery.
Sacker ==
    [incoming |-> Segments({6}, {0}, {{"ACK"}, {"SYN", "ACK"}}, {4}, {1, 4}, {<< >>}),
     throttled |-> {FALSE}, settings |-> {}, written |-> 5]

MCChunks == {<< 1 >>, << 1, 2 >>}

AllPeers == [closer |-> Closer, reader |-> Reader]
OnlySacker == [sacker |-> Sacker]

=============================================================================
