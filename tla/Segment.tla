------------------------------ MODULE Segment ------------------------------
(***************************************************************************)
(* TCP segments as the stack sees them: the header fields, the options and *)
(* the payload that tcp::parse and tcp::parse_options extract, and what    *)
(* build_packet puts on the wire.  PSH and URG, ports, checksums and the   *)
(* byte layout do not steer anything and are left out; window is the       *)
(* advertised window after scaling.                                        *)
(***************************************************************************)
EXTENDS SeqArith, Sequences

Byte == Nat

Flag == {"SYN", "ACK", "FIN", "RST"}

\* Options whose presence matters: Timestamps and SACK-Permitted.
Option == {"TS", "SACKP"}

SackBlock == [left : SeqNum, right : SeqNum]

Segment == [seq : SeqNum, ack : SeqNum, flags : SUBSET Flag, window : Nat,
            opts : SUBSET Option, tsval : SeqNum, sack : SUBSET SackBlock,
            data : Seq(Byte)]

\* One past the last sequence number a segment's payload covers: where a FIN sits.
fin_seq(s) == wrapping_add(s.seq, Len(s.data))

=============================================================================
