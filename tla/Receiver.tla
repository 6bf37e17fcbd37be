------------------------------ MODULE Receiver ------------------------------
(***************************************************************************)
(* The reassembler of src/reassembly.rs at work: a stream of StreamLen     *)
(* bytes, cut into segments any way at all, whose segments arrive in any   *)
(* order and any number of times.  The caller advances RCV.NXT by what     *)
(* recv returns, as on_segment does.  The code assumes that buffered       *)
(* fragments do not overlap one another; a segment may still overlap what  *)
(* was delivered.                                                          *)
(***************************************************************************)
EXTENDS Reassembler

CONSTANTS
    Base,       \* sequence number of the first byte
    StreamLen   \* length of the stream

ASSUME ReceiverAssumption ==
    /\ Base \in SeqNum
    /\ StreamLen \in Nat /\ StreamLen < Half

VARIABLES
    cuts,     \* offsets at which segments begin and end
    reasm,    \* the reassembler
    rcv_nxt,  \* RCV.NXT
    out,      \* everything delivered so far
    arrived   \* reference: the offsets accepted so far

vars == << cuts, reasm, rcv_nxt, out, arrived >>

Init ==
    /\ cuts \in {C \in SUBSET (0 .. StreamLen) : {0, StreamLen} \subseteq C}
    /\ reasm = NewReassembler(Base) /\ rcv_nxt = Base
    /\ out = << >> /\ arrived = {}

\* The bytes of the stream from offset a up to offset b: the one at offset i has value i + 1.
StreamBytes(a, b) == [i \in 1 .. b - a |-> a + i]

\* [a, b) is one segment, or one and delivered bytes before it.
Sent(a, b) ==
    /\ a < b /\ a \in cuts /\ b \in cuts
    /\ \A c \in cuts : a < c /\ c < b => c <= wrapping_sub(rcv_nxt, Base)

Arrive(a, b) ==
    /\ Sent(a, b)
    /\ LET d == recv(reasm, wrapping_add(Base, a), StreamBytes(a, b), rcv_nxt)
       IN  /\ reasm' = d.reasm
           /\ out' = out \o d.out
           /\ rcv_nxt' = wrapping_add(rcv_nxt, Len(d.out))
    /\ arrived' = IF a - wrapping_sub(rcv_nxt, Base) > MaxAhead
                  THEN arrived ELSE arrived \cup (a .. b - 1)
    /\ UNCHANGED cuts

Next == \E a, b \in 0 .. StreamLen : Arrive(a, b)

Spec == Init /\ [][Next]_vars

-----------------------------------------------------------------------------
\* Reference: how much of the stream is unbroken from its start.
Prefix == CHOOSE n \in 0 .. StreamLen : 0 .. n - 1 \subseteq arrived /\ n \notin arrived

(***************************************************************************)
(* recv delivers the stream in order and as early as possible: at any time *)
(* exactly the bytes unbroken from the start have come out, once each.     *)
(***************************************************************************)
DeliversUnbrokenPrefix ==
    /\ out = StreamBytes(0, Prefix)
    /\ rcv_nxt = wrapping_add(Base, Prefix)

(***************************************************************************)
(* sack_blocks reports exactly what arrived ahead of the gap, as maximal   *)
(* unbroken ranges: no fragment lingers after delivery, none is lost while *)
(* it waits, neighbours are merged. The reference takes each offset that   *)
(* starts such a range and the first gap after it.                         *)
(***************************************************************************)
SackBlocksAreMaximal ==
    LET held == {i \in arrived : i >= Prefix}
        Starts == {i \in held : i - 1 \notin held}
        EndOf(i) == CHOOSE j \in i + 1 .. StreamLen : i .. j - 1 \subseteq held /\ j \notin held
    IN  sack_blocks(reasm) = {[left |-> wrapping_add(Base, i),
                               right |-> wrapping_add(Base, EndOf(i))] : i \in Starts}

=============================================================================
