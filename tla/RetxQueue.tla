----------------------------- MODULE RetxQueue -----------------------------
(***************************************************************************)
(* The retransmission queue (RetxQueue of src/tcp.rs) as pure operators.   *)
(*                                                                         *)
(* The queue is a set of entries [start, end, pkt, retried, sacked]; the   *)
(* code's Vec is in ascending sequence order, so "first" and "last" are    *)
(* "lowest" and "highest" on the circle.  retried stands for retries > 0,  *)
(* the only thing the code asks of the counter.  Send times are not kept:  *)
(* which entries an elapsed timer concerns is an input of the operators    *)
(* that resend.                                                            *)
(***************************************************************************)
EXTENDS Segment, FiniteSets

CONSTANT DupThresh   \* SACKed segments above a hole that make it lost: 3 in the code

ASSUME DupThreshAssumption == DupThresh \in Nat /\ DupThresh > 0

Unacked == [start : SeqNum, end : SeqNum, pkt : Segment,
            retried : BOOLEAN, sacked : BOOLEAN]

record(q, start, end, pkt) ==
    q \cup {[start |-> start, end |-> end, pkt |-> pkt,
             retried |-> FALSE, sacked |-> FALSE]}

\* Mutant: an entry goes when SND.UNA reaches its start.
ack_by_start(q, una) == {s \in q : before(una, s.start)}

\* ack: keep exactly the entries that SND.UNA has not fully covered.
ack(q, una) == {s \in q : before(una, s.end)}

\* The entries no SACK block has covered: what loss recovery may resend.
Holes(q) == {s \in q : ~s.sacked}

\* The entries of R go out again, verbatim (due, rack_mark_lost, ...).
Resend(q, R) == (q \ R) \cup {[s EXCEPT !.retried = TRUE] : s \in R}

\* fast_retransmit: the lowest hole, as a set with at most one entry.
FirstHole(q) ==
    {s \in Holes(q) : \A t \in Holes(q) : ~before(t.start, s.start)}

\* Mutant: only the right edge of a block is looked at.
mark_sacked_up_to(q, blocks) ==
    {[s EXCEPT !.sacked = s.sacked \/ \E b \in blocks : ~after(s.end, b.right)] : s \in q}

(***************************************************************************)
(* mark_sacked: an entry inside one of the peer's blocks is marked, for    *)
(* good (a SACK is never taken back).                                      *)
(***************************************************************************)
mark_sacked(q, blocks) ==
    LET Covered(s) == \E b \in blocks : ~before(s.start, b.left) /\ ~after(s.end, b.right)
    IN  {[s EXCEPT !.sacked = s.sacked \/ Covered(s)] : s \in q}

is_lost(q, s) ==
    /\ ~s.sacked
    /\ Cardinality({t \in q : t.sacked /\ after(t.start, s.start)}) >= DupThresh

\* The sequence numbers an entry occupies, and how many a set of entries does.
SeqsOf(s) == {wrapping_add(s.start, i) : i \in 0 .. wrapping_sub(s.end, s.start) - 1}

SeqCount(R) == Cardinality(UNION {SeqsOf(s) : s \in R})

\* pipe: the bytes believed to be on the wire.
pipe(q) == SeqCount({s \in Holes(q) : ~is_lost(q, s) \/ s.retried})

(***************************************************************************)
(* next_lost_retransmit, repeated by poll_transmit while pipe < limit: the *)
(* lost entries not resent yet, lowest first, each one adding its bytes to *)
(* the pipe.                                                               *)
(***************************************************************************)
LostWithin(q, limit) ==
    LET lost == {s \in q : is_lost(q, s) /\ ~s.retried}
    IN  {s \in lost :
            pipe(q) + SeqCount({t \in lost : before(t.start, s.start)}) < limit}

=============================================================================
