---------------------------- MODULE MCTcpServer ----------------------------
(***************************************************************************)
(* TcpServer for TLC: two 4-tuples whose peers start at 5; ours starts at  *)
(* the wrap.  A peer sends no payload; its FIN sits at 6.                  *)
(***************************************************************************)
EXTENDS TcpServer

Seg(seq, ackno, flags) ==
    [seq |-> seq, ack |-> ackno, flags |-> flags, window |-> 2, opts |-> {}, tsval |-> 0,
     sack |-> {}, data |-> << >>]

MCIncoming ==
    {Seg(5, 0, {"SYN"}), Seg(6, 0, {"RST"}), Seg(6, 0, {"ACK"}), Seg(6, 0, {"FIN", "ACK"}),
     Seg(6, 1, {"ACK"}), Seg(6, 1, {"FIN", "ACK"}), Seg(7, 1, {"ACK"}), Seg(7, 2, {"ACK"})}

=============================================================================
