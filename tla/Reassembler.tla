---------------------------- MODULE Reassembler ----------------------------
(***************************************************************************)
(* The receive reassembly buffer (src/reassembly.rs) as pure operators.    *)
(*                                                                         *)
(* A reassembler is a record [base, frags]: base is the sequence number of *)
(* the peer's first data byte and frags, the BTreeMap, is a set of records *)
(* [off, data] with at most one record per offset.  Offsets are            *)
(* seq - base, wrapping.                                                   *)
(***************************************************************************)
EXTENDS Segment, FiniteSets

CONSTANT MaxAhead   \* furthest buffered offset past RCV.NXT: 2^16 in the code

ASSUME MaxAheadAssumption == MaxAhead \in Nat

Frag == [off : SeqNum, data : Seq(Byte)]

Reasm == [base : SeqNum, frags : SUBSET Frag]

NewReassembler(first_data_seq) == [base |-> first_data_seq, frags |-> {}]

\* One past the last offset a fragment covers.
FragEnd(f) == wrapping_add(f.off, Len(f.data))

FragOffsets(f) == f.off .. f.off + Len(f.data) - 1

\* Mutant: deliver one fragment and stop.
FirstOfRun(frags, cur) == {f \in frags : f.off = cur}

(***************************************************************************)
(* The fragments the delivery loop of recv removes: the one at offset cur, *)
(* the one that starts where it ends, and so on.  It is the least set of   *)
(* fragments closed under "starts where the run has got to".               *)
(***************************************************************************)
UnbrokenRun(frags, cur) ==
    LET Closed(C) == \A f \in frags :
                        (f.off = cur \/ \E g \in C : f.off = FragEnd(g)) => f \in C
    IN  {f \in frags : \A C \in SUBSET frags : Closed(C) => f \in C}

RunLength(run) == Cardinality(UNION {FragOffsets(f) : f \in run})

\* The bytes of a run that starts at offset cur, in order.
RunBytes(run, cur) ==
    [i \in 1 .. RunLength(run) |->
        LET f == CHOOSE g \in run : cur + i - 1 \in FragOffsets(g)
        IN  f.data[cur + i - f.off]]

(***************************************************************************)
(* recv: the new buffer and the bytes now contiguous from rcv_nxt.  Wholly *)
(* old data and data too far ahead are dropped; an overlap with what was   *)
(* delivered is trimmed; the rest is buffered, replacing a fragment at the *)
(* same offset, and the unbroken run from rcv_nxt is handed over.          *)
(***************************************************************************)
recv(r, seq, data, rcv_nxt) ==
    LET nxt_off == wrapping_sub(rcv_nxt, r.base)
        seg_off == wrapping_sub(seq, r.base)
        old     == seg_off < nxt_off
        skip    == IF old THEN nxt_off - seg_off ELSE 0
        off     == IF old THEN nxt_off ELSE seg_off
        dropped == skip >= Len(data) \/ off - nxt_off > MaxAhead
        frag    == [off |-> off, data |-> SubSeq(data, skip + 1, Len(data))]
        frags   == {f \in r.frags : f.off # off} \cup {frag}
        run     == UnbrokenRun(frags, nxt_off)
    IN  IF dropped
        THEN [reasm |-> r, out |-> << >>]
        ELSE [reasm |-> [r EXCEPT !.frags = frags \ run],
              out   |-> RunBytes(run, nxt_off)]

\* Mutant: one block per fragment.
sack_per_fragment(r) ==
    {[left |-> wrapping_add(r.base, f.off), right |-> wrapping_add(r.base, FragEnd(f))] :
        f \in r.frags}

(***************************************************************************)
(* sack_blocks: fragments in ascending order, a fragment that starts where *)
(* its predecessor ends extending the predecessor's block.                 *)
(***************************************************************************)
sack_blocks(r) ==
    LET Pred(f) == {g \in r.frags : /\ g.off < f.off
                                    /\ \A h \in r.frags : h.off < f.off => h.off <= g.off}
        Starts  == {f \in r.frags : \A g \in Pred(f) : FragEnd(g) # f.off}
        \* f opens a block and g is the last fragment merged into it
        Spans(f, g) == /\ f.off <= g.off
                       /\ ~\E s \in Starts : f.off < s.off /\ s.off <= g.off
                       /\ \A h \in r.frags : g \in Pred(h) => h \in Starts
    IN  {[left  |-> wrapping_add(r.base, p[1].off),
          right |-> wrapping_add(r.base, FragEnd(p[2]))] :
            p \in {q \in Starts \X r.frags : Spans(q[1], q[2])}}

=============================================================================
